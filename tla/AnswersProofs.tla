---------------------------- MODULE AnswersProofs ----------------------------
(***************************************************************************)
(* What tools answer, proved for every input (Answers): an answer is only  *)
(* ever worked out from its call, so that a property of it is one of the   *)
(* operators that work it out.                                             *)
(***************************************************************************)
EXTENDS Answers, OperatorProofs

-----------------------------------------------------------------------------
(* The inductive invariant: the call is one of those there may be, and its *)
(* answer, if there is one, the one worked out from it.                    *)

Allowable == \E tool \in DOMAIN Inputs : \E in \in Inputs[tool] : call = [tool |-> tool, in |-> in]

WorkedOut ==
    /\ call.tool = "summarize" => answer = Summary(call.in)
    /\ call.tool = "read" => answer = ReplayedRead(call.in)
    /\ call.tool = "policies" => answer = PolicyAnswer(call.in)
    /\ call.tool = "placement" => answer = PlacementLine(call.in.spec, call.in.nodes)
    /\ call.tool = "history" => /\ answer.revisions = Revisions(call.in)
                                /\ answer.config = ConfigReferences(call.in[Len(call.in)].template)
    /\ call.tool = "routes" => answer = RouteAnswer(call.in)
    /\ call.tool = "snapshot" => answer = SnapshotAnswer(call.in)
    /\ call.tool = "otel" => answer = ImportedLogs(call.in.records, call.in.pods, call.in.at)
    /\ call.tool = "jobs" => answer = JobAnswer(call.in)
    /\ call.tool = "claims" => answer = ClaimAnswer(call.in)
    /\ call.tool = "logs" => answer = Logs(call.in.focus, call.in.others, call.in.lines, call.in.grep)
    /\ call.tool = "events" => answer = EventLines(call.in.events, call.in.names, call.in.kinds, call.in.elapsed)
    /\ call.tool = "redact" => answer = Redact(call.in)

IInv == Allowable /\ (answer = NoAnswer \/ WorkedOut)

\* Whatever a call's answer is, it is worked out from its inputs alone.
THEOREM WorkedFromCall == Spec => []IInv
<1>1. Init => IInv BY DEF Init, IInv, Allowable
<1>2. IInv /\ [Next]_vars => IInv'
    <2> SUFFICES ASSUME IInv, [Next]_vars PROVE IInv' OBVIOUS
    <2>1. CASE UNCHANGED vars BY <2>1 DEF IInv, Allowable, WorkedOut, vars
    <2>2. CASE Next
        <3>1. UNCHANGED call BY <2>2 DEF Next, SummarizeLog, ReadLog, ReportPolicies, PlacePod, TellHistory, ReportLogs,
                  ReportEvents, ReportRoutes, FindJobPods, ListClaims, ImportSnapshot, ImportLogs, RedactResult
        <3>2. WorkedOut'
            BY <2>2 DEF Next, WorkedOut, Asks, SummarizeLog, ReadLog, ReportPolicies, PlacePod, TellHistory, ReportLogs,
               ReportEvents, ReportRoutes, FindJobPods, ListClaims, ImportSnapshot, ImportLogs, RedactResult
        <3> QED BY <3>1, <3>2 DEF IInv, Allowable
    <2> QED BY <2>1, <2>2
<1> QED BY <1>1, <1>2, PTL DEF Spec

\* The inputs of a call are those of its tool.
LEMMA InputsOfTool ==
    ASSUME Allowable, NEW tool \in DOMAIN Inputs, call.tool = tool
    PROVE  call.in \in Inputs[tool]
BY DEF Allowable

-----------------------------------------------------------------------------
(* Placement.                                                              *)

\* One requirement of a node's labels, as the code and as the scheduler read it.
LEMMA RequirementMet ==
    ASSUME NEW r, NEW labels,
           r.operator \in {"In", "NotIn", "Exists", "DoesNotExist", "Gt", "Lt"},
           r.operator \in {"Gt", "Lt"} => \E v \in r.values : r.values = {v}
    PROVE  MatchesRequirement(r, labels) <=> Satisfied(r, labels)
<1> DEFINE has == r.key \in DOMAIN labels
<1>0. has => labels[r.key] \in {labels[k] : k \in DOMAIN labels} OBVIOUS
<1>1. CASE r.operator = "In" BY <1>1 DEF MatchesRequirement, Satisfied, SatisfiedBy
<1>2. CASE r.operator = "NotIn" BY <1>2 DEF MatchesRequirement, Satisfied, SatisfiedBy
<1>3. CASE r.operator = "Exists" BY <1>0, <1>3 DEF MatchesRequirement, Satisfied, SatisfiedBy
<1>4. CASE r.operator = "DoesNotExist" BY <1>0, <1>4 DEF MatchesRequirement, Satisfied, SatisfiedBy
<1>5. CASE r.operator = "Gt"
    <2>1. PICK v : r.values = {v} BY <1>5
    <2> QED BY <1>0, <1>5, <2>1 DEF MatchesRequirement, Satisfied, SatisfiedBy
<1>6. CASE r.operator = "Lt"
    <2>1. PICK v : r.values = {v} BY <1>6
    <2> QED BY <1>0, <1>6, <2>1 DEF MatchesRequirement, Satisfied, SatisfiedBy
<1> QED BY <1>1, <1>2, <1>3, <1>4, <1>5, <1>6

\* A node's selector and affinity, likewise.
LEMMA AdmittedFits ==
    ASSUME NEW in \in PlacementInputs, NEW node
    PROVE  Admits(in.spec, node) <=> Fits(in.spec, node)
<1> DEFINE Labels == \A k \in DOMAIN in.spec.selector :
                        k \in DOMAIN node.labels /\ node.labels[k] = in.spec.selector[k]
           HasLabel(k) == Satisfied([key |-> k, operator |-> "In", values |-> {in.spec.selector[k]}], node.labels)
<1>1. ASSUME NEW k PROVE HasLabel(k) <=> k \in DOMAIN node.labels /\ node.labels[k] = in.spec.selector[k]
    BY DEF Satisfied, SatisfiedBy
<1>2. ASSUME in.spec.terms # NoAffinity, NEW t \in in.spec.terms
      PROVE  MatchesTerm(t, node) <=> /\ t # [expressions |-> {}, fields |-> {}]
                                      /\ \A r \in t.expressions : Satisfied(r, node.labels)
                                      /\ \A r \in t.fields : Satisfied(r, NodeFields(node))
    <2>1. \A r \in t.expressions \cup t.fields :
            \A labels : MatchesRequirement(r, labels) <=> Satisfied(r, labels)
        BY <1>2, PlacementAssumption, RequirementMet
    <2>2. t.expressions \cup t.fields # {} <=> t # [expressions |-> {}, fields |-> {}]
        <3>1. t = [expressions |-> t.expressions, fields |-> t.fields] BY <1>2, PlacementAssumption
        <3> QED BY <3>1
    <2> QED BY <2>1, <2>2 DEF MatchesTerm
<1> QED BY <1>1, <1>2 DEF Admits, Fits

\* A pod that isn't scheduled is told how many nodes its own constraints admit and
\* how many of those a taint keeps it from, as the scheduler's filters count them, for
\* any labels, terms, taints and tolerations (_placement_line, _admits, _tolerates).
THEOREM Placed == Spec => []PlacementAsScheduler
<1>1. IInv => PlacementAsScheduler
    <2> SUFFICES ASSUME IInv, Told("placement") PROVE PlacementAsScheduler
        BY DEF PlacementAsScheduler
    <2> DEFINE in == call.in
               fit == {n \in in.nodes : Fits(in.spec, n)}
               left(n) == {t \in n.taints : t.effect # "PreferNoSchedule"}
                          \ UNION {{t \in n.taints : /\ o.effect # Empty => o.effect = t.effect
                                                     /\ o.key # Empty => o.key = t.key
                                                     /\ o.operator # "Exists" => o.value = t.value} :
                                   o \in in.spec.tolerations}
    <2>1. in \in PlacementInputs BY InputsOfTool DEF Told, IInv, Inputs
    <2>2. answer = PlacementLine(in.spec, in.nodes) BY DEF Told, IInv, WorkedOut
    <2>3. {n \in in.nodes : Admits(in.spec, n)} = fit BY <2>1, AdmittedFits
    <2>4. \A n : Repelled(in.spec, n) <=> left(n) # {} BY DEF Repelled, Tolerates
    <2>5. answer.match = Cardinality(fit) BY <2>2, <2>3 DEF PlacementLine
    <2>6. answer.repel = Cardinality({n \in fit : left(n) # {}})
        <3>1. {n \in fit : Repelled(in.spec, n)} = {n \in fit : left(n) # {}} BY <2>4
        <3> HIDE DEF fit, left
        <3> QED BY <2>2, <2>3, <3>1 DEF PlacementLine
    <2>7. ~answer.constrained => answer.match = answer.of
        <3>1. DOMAIN in.spec.selector = {} /\ in.spec.terms = NoAffinity => {n \in in.nodes : Admits(in.spec, n)} = in.nodes
            BY DEF Admits
        <3> QED BY <2>2, <3>1 DEF PlacementLine
    <2> QED BY <2>5, <2>6, <2>7 DEF PlacementAsScheduler
<1> QED BY <1>1, WorkedFromCall, PTL

-----------------------------------------------------------------------------
(* Network policies.                                                       *)

\* What the effect of some rules says of a packet is whether any of them allows it.
LEMMA EffectSays ==
    ASSUME NEW rules, NEW packet
    PROVE  SaysAllowed(PolicyEffect(rules), packet) <=> \E r \in rules : RuleAllows(r, packet)
<1>1. CASE rules = {} BY <1>1 DEF PolicyEffect, SaysAllowed
<1>2. CASE \E r \in rules : r.peers = {} /\ r.ports = {}
    BY <1>2 DEF PolicyEffect, SaysAllowed, RuleAllows
<1>3. CASE rules # {} /\ ~\E r \in rules : r.peers = {} /\ r.ports = {}
    <2>1. PolicyEffect(rules) = [says |-> "only", rules |-> rules] BY <1>3 DEF PolicyEffect
    <2> QED BY <2>1 DEF SaysAllowed
<1> QED BY <1>1, <1>2, <1>3

\* No rule lets a packet to a port that they are said not to allow.
LEMMA PortDenied ==
    ASSUME NEW rules, NEW packet, AllowsPort(rules, packet.port) = "no"
    PROVE  ~\E r \in rules : RuleAllows(r, packet)
BY DEF AllowsPort, RuleAllows

\* A selector matches labels exactly when they meet each of its expressions.
LEMMA MatchesAsMet ==
    ASSUME NEW selector, NEW labels,
           \A e \in selector : e.operator \in {"In", "NotIn", "Exists", "DoesNotExist"}
    PROVE  SelectorMatches(selector, labels) <=> \A e \in selector : Meets(e, labels)
<1> SUFFICES ASSUME NEW e \in selector
             PROVE  Meets(e, labels) <=>
                        LET present == e.key \in DOMAIN labels IN
                        \/ e.operator = "In" /\ present /\ labels[e.key] \in e.values
                        \/ e.operator = "NotIn" /\ (present => labels[e.key] \notin e.values)
                        \/ e.operator = "Exists" /\ present
                        \/ e.operator = "DoesNotExist" /\ ~present
    BY DEF SelectorMatches
<1> DEFINE have == {labels[key] : key \in DOMAIN labels \cap {e.key}}
<1>1. have = IF e.key \in DOMAIN labels THEN {labels[e.key]} ELSE {} OBVIOUS
<1>2. Meets(e, labels) =
        CASE e.operator = "In" -> have \cap e.values # {}
          [] e.operator = "NotIn" -> have \cap e.values = {}
          [] e.operator = "Exists" -> have # {}
          [] e.operator = "DoesNotExist" -> have = {}
    BY DEF Meets
<1> HIDE DEF have
<1>3. CASE e.operator = "In" BY <1>1, <1>2, <1>3
<1>4. CASE e.operator = "NotIn" BY <1>1, <1>2, <1>4
<1>5. CASE e.operator = "Exists" BY <1>1, <1>2, <1>5
<1>6. CASE e.operator = "DoesNotExist" BY <1>1, <1>2, <1>6
<1> QED BY <1>3, <1>4, <1>5, <1>6

\* The policies as read select and restrict as those of the API they are read from.
LEMMA AllowedAsRead ==
    ASSUME NEW in \in PolicyInputs, NEW pod \in in.pods, NEW d \in Directions, NEW packet
    PROVE  LET restricting == {p \in ReadPolicies(in.policies, in.pods) : pod.name \in p.selects /\ d \in p.types} IN
           Allowed(in.policies, pod, d, packet) <=>
                \/ restricting = {}
                \/ \E p \in restricting : \E r \in RulesOf(p, d) : RuleAllows(r, packet)
<1> DEFINE Reading(p) == [name |-> p.name, types |-> PolicyTypes(p.types, p.egress), ingress |-> p.ingress,
                          egress |-> p.egress, selects |-> SelectedPods(p.selector, in.pods)]
           restricting == {p \in ReadPolicies(in.policies, in.pods) : pod.name \in p.selects /\ d \in p.types}
           theirs == {p \in in.policies : Selects(p, pod) /\ Restricts(p, d)}
<1>1. ReadPolicies(in.policies, in.pods) = {Reading(p) : p \in in.policies} BY DEF ReadPolicies
<1>2. ASSUME NEW p \in in.policies
      PROVE  /\ pod.name \in Reading(p).selects <=> Selects(p, pod)
             /\ d \in Reading(p).types <=> Restricts(p, d)
             /\ RulesOf(Reading(p), d) = RulesOf(p, d)
    <2>1. SelectorMatches(p.selector, pod.labels) <=> \A e \in p.selector : Meets(e, pod.labels)
        BY PolicyAssumption, MatchesAsMet
    <2>2. pod.name \in SelectedPods(p.selector, in.pods) <=>
            ~pod.hostNetwork /\ SelectorMatches(p.selector, pod.labels)
        BY PolicyAssumption DEF SelectedPods
    <2>3. d \in PolicyTypes(p.types, p.egress) <=> Restricts(p, d) BY DEF PolicyTypes, Restricts, Directions
    <2> QED BY <2>1, <2>2, <2>3 DEF Selects, RulesOf
<1> HIDE DEF Reading
<1>3. restricting = {Reading(p) : p \in theirs} BY <1>1, <1>2
<1>4. Allowed(in.policies, pod, d, packet) <=>
        theirs = {} \/ \E p \in theirs : \E r \in RulesOf(p, d) : RuleAllows(r, packet)
    BY DEF Allowed
<1> QED BY <1>2, <1>3, <1>4

\* What workload_report says of a workload's traffic is what the policies do with that of
\* each of its pods, for any policies, pods and packets, unless it says that some
\* policy selects only some of them; and no lookup gets out where it says that none
\* does (_workload_policy_lines, network_policy_effect, allows_port).
THEOREM PoliciesSaid == Spec => []PolicyAsEnforced
<1>1. IInv => PolicyAsEnforced
    <2> SUFFICES ASSUME IInv, Told("policies"),
                        NEW d \in Directions, NEW pod \in call.in.pods, NEW packet \in Packets, ~answer[d].some
                 PROVE  LET allowed == Allowed(call.in.policies, pod, d, packet) IN
                        /\ SaysAllowed(answer[d].effect, packet) <=> allowed
                        /\ answer[d].noDNS /\ packet.port = 53 => ~allowed
        BY DEF PolicyAsEnforced
    <2> DEFINE policies == ReadPolicies(call.in.policies, call.in.pods)
               pods == {p.name : p \in call.in.pods}
               these == {p \in {p \in policies : p.selects \cap pods # {}} : d \in p.types}
               rules == UNION {RulesOf(p, d) : p \in these}
               allowed == Allowed(call.in.policies, pod, d, packet)
    <2>0. call.in \in PolicyInputs BY InputsOfTool DEF Told, IInv, Inputs
    <2>1. answer[d] = PolicyLines(policies, pods, d) BY DEF Told, IInv, WorkedOut, PolicyAnswer
    <2>2. \A p \in policies : p.selects \cap pods # {} => pods \subseteq p.selects BY <2>1 DEF PolicyLines
    <2>3. pod.name \in pods OBVIOUS
    <2> HIDE DEF policies, pods
    <2>4. {p \in policies : pod.name \in p.selects /\ d \in p.types} = these BY <2>2, <2>3
    <2>5. allowed <=> these = {} \/ \E r \in rules : RuleAllows(r, packet)
        <3>1. allowed <=> these = {} \/ \E p \in these : \E r \in RulesOf(p, d) : RuleAllows(r, packet)
            <4>1. allowed <=> \/ {p \in policies : pod.name \in p.selects /\ d \in p.types} = {}
                              \/ \E p \in {p \in policies : pod.name \in p.selects /\ d \in p.types} :
                                    \E r \in RulesOf(p, d) : RuleAllows(r, packet)
                BY <2>0, AllowedAsRead DEF policies
            <4> QED BY <4>1, <2>4
        <3> QED BY <3>1
    <2>6. /\ answer[d].effect = IF these = {} THEN [says |-> "anything", rules |-> {}] ELSE PolicyEffect(rules)
          /\ answer[d].noDNS = (these # {} /\ d = "Egress" /\ AllowsPort(rules, 53) = "no")
        <3> DEFINE effect == IF these = {} THEN [says |-> "anything", rules |-> {}] ELSE PolicyEffect(rules)
                   noDNS == these # {} /\ d = "Egress" /\ AllowsPort(rules, 53) = "no"
                   some == \E p \in {p \in policies : p.selects \cap pods # {}} : ~(pods \subseteq p.selects)
        <3>1. answer[d] = [effect |-> effect, noDNS |-> noDNS, some |-> some] BY <2>1, Zenon DEF PolicyLines
        <3> HIDE DEF effect, noDNS, some
        <3>2. answer[d].effect = effect /\ answer[d].noDNS = noDNS BY <3>1
        <3> QED BY <3>2 DEF effect, noDNS
    <2> HIDE DEF these, rules, allowed
    <2>7. SaysAllowed(answer[d].effect, packet) <=> allowed
        <3>1. CASE these = {} BY <2>5, <2>6, <3>1 DEF SaysAllowed
        <3>2. CASE these # {} BY <2>5, <2>6, <3>2, EffectSays
        <3> QED BY <3>1, <3>2
    <2>8. answer[d].noDNS /\ packet.port = 53 => ~allowed BY <2>5, <2>6, PortDenied
    <2> QED BY <2>7, <2>8 DEF allowed, policies
<1> QED BY <1>1, WorkedFromCall, PTL

-----------------------------------------------------------------------------
(* Configuration.                                                          *)

\* The references of one container, and those of one volume, are among the template's.
LEMMA ReferencesOfOne ==
    ASSUME NEW t
    PROVE  /\ \A c \in AllContainers(t) :
                /\ \A e \in Range(c.env) : \A r \in e.refers : [ref |-> r, used |-> "env"] \in ConfigReferences(t)
                /\ \A r \in c.envFrom : [ref |-> r, used |-> "envFrom"] \in ConfigReferences(t)
           /\ \A v \in DOMAIN t.volumes : \A r \in t.volumes[v].names :
                [ref |-> r, used |-> IF v \in SubPathVolumes(t) THEN "subPath" ELSE "volume"] \in ConfigReferences(t)
<1> DEFINE Env(c) == {[ref |-> r, used |-> "env"] : r \in UNION {v.refers : v \in Range(c.env)}}
           From(c) == {[ref |-> r, used |-> "envFrom"] : r \in c.envFrom}
           Of(v) == {[ref |-> r, used |-> IF v \in SubPathVolumes(t) THEN "subPath" ELSE "volume"] :
                        r \in t.volumes[v].names}
<1>1. ContainerReferences(t) = UNION {Env(c) \cup From(c) : c \in AllContainers(t)}
    BY Zenon DEF ContainerReferences
<1>2. VolumeReferences(t) = UNION {Of(v) : v \in DOMAIN t.volumes} BY Zenon DEF VolumeReferences
<1>3. ASSUME NEW c, NEW e \in Range(c.env), NEW r \in e.refers PROVE [ref |-> r, used |-> "env"] \in Env(c)
    <2>1. r \in UNION {v.refers : v \in Range(c.env)} BY <1>3
    <2> QED BY <2>1
<1>4. ASSUME NEW c, NEW r \in c.envFrom PROVE [ref |-> r, used |-> "envFrom"] \in From(c) OBVIOUS
<1>5. ASSUME NEW v, NEW r \in t.volumes[v].names
      PROVE  [ref |-> r, used |-> IF v \in SubPathVolumes(t) THEN "subPath" ELSE "volume"] \in Of(v)
    OBVIOUS
<1> HIDE DEF Env, From, Of
<1>6. ASSUME NEW c \in AllContainers(t) PROVE Env(c) \cup From(c) \subseteq ContainerReferences(t) BY <1>1, Zenon
<1>7. ASSUME NEW v \in DOMAIN t.volumes PROVE Of(v) \subseteq VolumeReferences(t) BY <1>2, Zenon
<1>8. ContainerReferences(t) \subseteq ConfigReferences(t) /\ VolumeReferences(t) \subseteq ConfigReferences(t)
    BY DEF ConfigReferences
<1> QED BY <1>3, <1>4, <1>5, <1>6, <1>7, <1>8

\* Every ConfigMap and Secret that a container of the current template reads is listed
\* with how it reads it, for any template; and as a volume that follows a
\* change only if no container mounts it by subPath (_config_references).
THEOREM ConfigListed == Spec => []ConfigReach
<1>1. IInv => ConfigReach
    <2> SUFFICES ASSUME IInv, Told("history") PROVE ConfigReach BY DEF ConfigReach
    <2> DEFINE t == call.in[Len(call.in)].template
               uses(r) == {c.used : c \in {c \in answer.config : c.ref = r}}
    <2>1. answer.config = ConfigReferences(t) BY DEF Told, IInv, WorkedOut
    <2> HIDE DEF t
    <2> SUFFICES ASSUME NEW c \in Range(t.containers) \cup Range(t.inits)
                 PROVE  /\ \A e \in Range(c.env) : \A r \in e.refers : "env" \in uses(r)
                        /\ \A r \in c.envFrom : "envFrom" \in uses(r)
                        /\ \A m \in Range(c.mounts) : m.volume \in DOMAIN t.volumes =>
                            \A r \in t.volumes[m.volume].names :
                                IF m.subPath THEN "subPath" \in uses(r)
                                ELSE uses(r) \cap {"volume", "subPath"} # {}
        BY DEF ConfigReach, t
    <2>2. c \in AllContainers(t) BY DEF AllContainers
    <2>3. ASSUME NEW e \in Range(c.env), NEW r \in e.refers PROVE "env" \in uses(r)
        <3>1. [ref |-> r, used |-> "env"] \in ConfigReferences(t) BY <2>2, <2>3, ReferencesOfOne
        <3> QED BY <2>1, <3>1
    <2>4. ASSUME NEW r \in c.envFrom PROVE "envFrom" \in uses(r)
        <3>1. [ref |-> r, used |-> "envFrom"] \in ConfigReferences(t) BY <2>2, <2>4, ReferencesOfOne
        <3> QED BY <2>1, <3>1
    <2>5. ASSUME NEW m \in Range(c.mounts), m.volume \in DOMAIN t.volumes, NEW r \in t.volumes[m.volume].names
          PROVE  IF m.subPath THEN "subPath" \in uses(r) ELSE uses(r) \cap {"volume", "subPath"} # {}
        <3> DEFINE used == IF m.volume \in SubPathVolumes(t) THEN "subPath" ELSE "volume"
        <3>1. [ref |-> r, used |-> used] \in ConfigReferences(t) BY <2>5, ReferencesOfOne
        <3>2. used \in uses(r) BY <2>1, <3>1
        <3>3. m.subPath => m.volume \in SubPathVolumes(t) BY <2>2, <2>5 DEF SubPathVolumes
        <3> QED BY <3>2, <3>3
    <2> QED BY <2>3, <2>4, <2>5
<1> QED BY <1>1, WorkedFromCall, PTL

-----------------------------------------------------------------------------
(* The changes of a revision.                                              *)

\* The fields two sets of details differ in, and changes that tell of them.
Differ(b, a) == {d[1] : d \in (a \ b) \cup (b \ a)}
OfEnv(field) == field[1] \in {"containers", "init_containers"} /\ Len(field) > 2 /\ field[3] = "env"
Explains(C, b, a) ==
    /\ \A field \in Differ(b, a) : \E c \in C : IsPrefix(c.field, field)
    /\ \A c \in C : \E field \in Differ(b, a) : IsPrefix(c.field, field)
    /\ \A c \in C : OfEnv(c.field) => c.before = Hidden /\ c.after = Hidden
Strangers(x, y) == \A d \in x, e \in y : d[1] # e[1]

LEMMA DifferFrom ==
    ASSUME NEW a, NEW b, NEW d, d \in a, d \notin b
    PROVE  d[1] \in Differ(b, a) /\ d[1] \in Differ(a, b)
BY DEF Differ

\* Changes that tell of parts that have no field in common tell of both.
LEMMA ExplainedTogether ==
    ASSUME NEW C, NEW b, NEW a, Explains(C, b, a), NEW D, NEW y, NEW x, Explains(D, y, x), Strangers(a \cup b, x \cup y)
    PROVE  Explains(C \cup D, b \cup y, a \cup x)
<1>1. \A d \in a \cup b, e \in x \cup y : d # e BY DEF Strangers
<1>2. /\ ((a \cup x) \ (b \cup y)) = (a \ b) \cup (x \ y)
      /\ ((b \cup y) \ (a \cup x)) = (b \ a) \cup (y \ x)
    BY <1>1
<1>3. Differ(b \cup y, a \cup x) = Differ(b, a) \cup Differ(y, x) BY <1>2 DEF Differ
<1> QED BY <1>3 DEF Explains

\* So do those of each of some names.
All(v, N) == UNION {v[n] : n \in N}

LEMMA ExplainedAll ==
    ASSUME NEW N, NEW C, NEW b, NEW a, \A n \in N : Explains(C[n], b[n], a[n]),
           \A n, m \in N : n = m \/ Strangers(a[n] \cup b[n], a[m] \cup b[m])
    PROVE  Explains(All(C, N), All(b, N), All(a, N))
<1> DEFINE A == UNION {a[n] : n \in N}
           B == UNION {b[n] : n \in N}
<1>1. ASSUME NEW n \in N, NEW d, d \in a[n], d \notin b[n] PROVE d \in A /\ d \notin B
    BY <1>1 DEF Strangers
<1>2. ASSUME NEW n \in N, NEW d, d \in b[n], d \notin a[n] PROVE d \in B /\ d \notin A
    BY <1>2 DEF Strangers
<1>3. \A field : field \in Differ(B, A) <=> \E n \in N : field \in Differ(b[n], a[n])
    <2>1. ASSUME NEW field, field \in Differ(B, A) PROVE \E n \in N : field \in Differ(b[n], a[n])
        <3>1. PICK d \in (A \ B) \cup (B \ A) : field = d[1] BY <2>1 DEF Differ
        <3>2. CASE d \in A \ B
            <4>1. PICK n \in N : d \in a[n] BY <3>2
            <4>2. d \notin b[n] BY <3>2
            <4> QED BY <3>1, <4>1, <4>2, DifferFrom
        <3>3. CASE d \in B \ A
            <4>1. PICK n \in N : d \in b[n] BY <3>3
            <4>2. d \notin a[n] BY <3>3
            <4> QED BY <3>1, <4>1, <4>2, DifferFrom
        <3> QED BY <3>2, <3>3
    <2>2. ASSUME NEW field, NEW n \in N, field \in Differ(b[n], a[n]) PROVE field \in Differ(B, A)
        <3>1. PICK d \in (a[n] \ b[n]) \cup (b[n] \ a[n]) : field = d[1] BY <2>2 DEF Differ
        <3> HIDE DEF A, B
        <3>2. d \in (A \ B) \cup (B \ A) BY <1>1, <1>2, <3>1
        <3> QED BY <3>1, <3>2 DEF Differ
    <2> QED BY <2>1, <2>2
<1> HIDE DEF A, B
<1>4. Explains(All(C, N), B, A) BY <1>3 DEF Explains, All
<1> QED BY <1>4 DEF A, B, All

\* A part of a template: under each of some keys a value, called by the fields f gives.
Part(v, f) == {<<f[k], v[k]>> : k \in DOMAIN v}
Names(f, K) == (\A k \in K : Len(f[k]) \in Nat) /\ \A k, l \in K : f[k] = f[l] => k = l
Unlike(v, w, k) == ~(k \in DOMAIN v /\ k \in DOMAIN w /\ v[k] = w[k])

LEMMA PartExplained ==
    ASSUME NEW v, NEW w, NEW f, Names(f, DOMAIN v \cup DOMAIN w), NEW C,
           \A k \in DOMAIN v \cup DOMAIN w : Unlike(v, w, k) => \E c \in C : c.field = f[k],
           \A c \in C : \E k \in DOMAIN v \cup DOMAIN w : Unlike(v, w, k) /\ c.field = f[k],
           \A c \in C : OfEnv(c.field) => c.before = Hidden /\ c.after = Hidden
    PROVE  Explains(C, Part(v, f), Part(w, f))
<1> DEFINE K == DOMAIN v \cup DOMAIN w
           b == Part(v, f)
           a == Part(w, f)
<1>1. \A k \in K : IsPrefix(f[k], f[k]) BY DEF IsPrefix, Names
<1>2. ASSUME NEW field, field \in Differ(b, a) PROVE \E k \in K : Unlike(v, w, k) /\ field = f[k]
    <2>1. PICK d \in (a \ b) \cup (b \ a) : field = d[1] BY <1>2 DEF Differ
    <2>2. CASE d \in a \ b
        <3>1. PICK k \in DOMAIN w : d = <<f[k], w[k]>> BY <2>2 DEF Part
        <3>2. ~(k \in DOMAIN v /\ v[k] = w[k]) BY <2>2, <3>1 DEF Part
        <3> QED BY <2>1, <3>1, <3>2 DEF Unlike
    <2>3. CASE d \in b \ a
        <3>1. PICK k \in DOMAIN v : d = <<f[k], v[k]>> BY <2>3 DEF Part
        <3>2. ~(k \in DOMAIN w /\ v[k] = w[k]) BY <2>3, <3>1 DEF Part
        <3> QED BY <2>1, <3>1, <3>2 DEF Unlike
    <2> QED BY <2>2, <2>3
<1>3. ASSUME NEW k \in K, Unlike(v, w, k) PROVE f[k] \in Differ(b, a)
    <2>1. CASE k \in DOMAIN w
        <3> DEFINE d == <<f[k], w[k]>>
        <3>1. d \in a /\ d[1] = f[k] BY <2>1 DEF Part
        <3>2. d \notin b
            <4> SUFFICES ASSUME NEW l \in DOMAIN v, <<f[l], v[l]>> = d PROVE FALSE BY DEF Part
            <4>1. f[l] = f[k] /\ v[l] = w[k] OBVIOUS
            <4>2. l = k BY <4>1 DEF Names
            <4> QED BY <1>3, <2>1, <4>1, <4>2 DEF Unlike
        <3> HIDE DEF d, a, b
        <3> QED BY <3>1, <3>2, DifferFrom
    <2>2. CASE k \in DOMAIN v
        <3> DEFINE d == <<f[k], v[k]>>
        <3>1. d \in b /\ d[1] = f[k] BY <2>2 DEF Part
        <3>2. d \notin a
            <4> SUFFICES ASSUME NEW l \in DOMAIN w, <<f[l], w[l]>> = d PROVE FALSE BY DEF Part
            <4>1. f[l] = f[k] /\ w[l] = v[k] OBVIOUS
            <4>2. l = k BY <4>1 DEF Names
            <4> QED BY <1>3, <2>2, <4>1, <4>2 DEF Unlike
        <3> HIDE DEF d, a, b
        <3> QED BY <3>1, <3>2, DifferFrom
    <2> QED BY <2>1, <2>2
<1> HIDE DEF a, b
<1>4. \A field \in Differ(b, a) : \E c \in C : IsPrefix(c.field, field)
    <2> SUFFICES ASSUME NEW field \in Differ(b, a) PROVE \E c \in C : IsPrefix(c.field, field) OBVIOUS
    <2>1. PICK k \in K : Unlike(v, w, k) /\ field = f[k] BY <1>2
    <2>2. PICK c \in C : c.field = f[k] BY <2>1
    <2> QED BY <1>1, <2>1, <2>2
<1>5. \A c \in C : \E field \in Differ(b, a) : IsPrefix(c.field, field)
    <2> SUFFICES ASSUME NEW c \in C PROVE \E field \in Differ(b, a) : IsPrefix(c.field, field) OBVIOUS
    <2>1. PICK k \in K : Unlike(v, w, k) /\ c.field = f[k] OBVIOUS
    <2> QED BY <1>1, <1>3, <2>1
<1>6. Explains(C, b, a) BY <1>4, <1>5 DEF Explains
<1> QED BY <1>6 DEF a, b

\* Maps are compared by their values, as they are or in summary.
SameMaps(m, v) == DOMAIN v = DOMAIN m
SameValues(b, a, v, w) == \A k \in DOMAIN b \cap DOMAIN a : b[k] = a[k] <=> v[k] = w[k]

LEMMA AtUnlike ==
    ASSUME NEW b, NEW a, NEW v, NEW w, SameMaps(b, v), SameMaps(a, w), SameValues(b, a, v, w), Present(b), Present(a),
           NEW k \in DOMAIN v \cup DOMAIN w
    PROVE  At(b, k) # At(a, k) <=> Unlike(v, w, k)
<1>1. CASE k \in DOMAIN b /\ k \in DOMAIN a BY <1>1 DEF At, Unlike, SameMaps, SameValues
<1>2. CASE k \notin DOMAIN b /\ k \in DOMAIN a BY <1>2 DEF At, Unlike, SameMaps, Present
<1>3. CASE k \in DOMAIN b /\ k \notin DOMAIN a BY <1>3 DEF At, Unlike, SameMaps, Present
<1> QED BY <1>1, <1>2, <1>3 DEF SameMaps

LEMMA MapsExplained ==
    ASSUME NEW b, NEW a, NEW v, NEW w, SameMaps(b, v), SameMaps(a, w), SameValues(b, a, v, w), Present(b), Present(a),
           NEW f, Names(f, DOMAIN v \cup DOMAIN w), NEW prefix, \A k \in DOMAIN v \cup DOMAIN w : f[k] = Append(prefix, k),
           NEW show \in BOOLEAN, show => \A k \in DOMAIN v \cup DOMAIN w : ~OfEnv(f[k])
    PROVE  Explains(CompareMaps(prefix, b, a, show), Part(v, f), Part(w, f))
<1> DEFINE C == CompareMaps(prefix, b, a, show)
           K == DOMAIN v \cup DOMAIN w
<1>1. \A k \in K : At(b, k) # At(a, k) <=> Unlike(v, w, k) BY AtUnlike
<1>2. \A c : c \in C <=> \E k \in K : At(b, k) # At(a, k) /\ c = Change(f[k], At(b, k), At(a, k), show)
    <2>1. \A c : c \in C <=> \E k \in K : At(b, k) # At(a, k) /\ c = Change(Append(prefix, k), At(b, k), At(a, k), show)
        BY DEF CompareMaps, SameMaps
    <2> QED BY <2>1
<1>3. \A field, x, y : Change(field, x, y, show).field = field BY DEF Change
<1>4. \A field, x, y : ~show => /\ Change(field, x, y, show).before = Hidden
                                /\ Change(field, x, y, show).after = Hidden
    BY DEF Change
<1> HIDE DEF C
<1>5. \A k \in K : Unlike(v, w, k) => \E c \in C : c.field = f[k] BY <1>1, <1>2, <1>3
<1>6. \A c \in C : \E k \in K : Unlike(v, w, k) /\ c.field = f[k] BY <1>1, <1>2, <1>3
<1>7. \A c \in C : OfEnv(c.field) => c.before = Hidden /\ c.after = Hidden
    <2>1. CASE show BY <1>6, <2>1
    <2>2. CASE ~show BY <1>2, <1>4, <2>2
    <2> QED BY <2>1, <2>2
<1> HIDE DEF K
<1>8. Explains(C, Part(v, f), Part(w, f)) BY <1>5, <1>6, <1>7, PartExplained DEF K
<1> QED BY <1>8 DEF C

LEMMA OtherExplained ==
    ASSUME NEW b, NEW a, Present(b), Present(a), NEW f, Names(f, DOMAIN b \cup DOMAIN a), NEW prefix,
           \A k \in DOMAIN b \cup DOMAIN a : f[k] = Append(prefix, k) /\ ~OfEnv(f[k])
    PROVE  Explains(CompareOtherFields(prefix, b, a), Part(b, f), Part(a, f))
<1> DEFINE C == CompareOtherFields(prefix, b, a)
           K == DOMAIN b \cup DOMAIN a
           show(k) == {At(b, k), At(a, k)} \cap Structured = {}
<1>1. \A k \in K : At(b, k) # At(a, k) <=> Unlike(b, a, k) BY AtUnlike DEF SameMaps, SameValues
<1>2. C = {Change(f[k], At(b, k), At(a, k), show(k)) : k \in {k \in K : At(b, k) # At(a, k)}} BY DEF CompareOtherFields
<1>3. \A field, x, y, s : Change(field, x, y, s).field = field BY DEF Change
<1> HIDE DEF C, show
<1>5. \A k \in K : Unlike(b, a, k) => \E c \in C : c.field = f[k] BY <1>1, <1>2, <1>3
<1>6. \A c \in C : \E k \in K : Unlike(b, a, k) /\ c.field = f[k] BY <1>1, <1>2, <1>3
<1>7. \A c \in C : OfEnv(c.field) => c.before = Hidden /\ c.after = Hidden BY <1>6
<1> HIDE DEF K
<1>8. Explains(C, Part(b, f), Part(a, f)) BY <1>5, <1>6, <1>7, PartExplained DEF K
<1> QED BY <1>8 DEF C

\* Of a set, each value under one field.
Members(S, field, m) == {<<field, m[x]>> : x \in S}

LEMMA SetsExplained ==
    ASSUME NEW b, NEW a, NEW m, \A x, y \in b \cup a : m[x] = m[y] => x = y, NEW field, Len(field) \in Nat, ~OfEnv(field)
    PROVE  Explains(CompareSets(field, b, a), Members(b, field, m), Members(a, field, m))
<1> DEFINE C == CompareSets(field, b, a)
           v == Members(b, field, m)
           w == Members(a, field, m)
<1>1. \A c \in C : c.field = field BY DEF CompareSets, Change
<1>2. C # {} <=> a # b BY DEF CompareSets
<1>3. \A x \in a \cup b : /\ <<field, m[x]>> \in v <=> x \in b
                          /\ <<field, m[x]>> \in w <=> x \in a
    BY DEF Members
<1>4. \A d \in v \cup w : \E x \in a \cup b : d = <<field, m[x]>> BY DEF Members
<1> HIDE DEF C, v, w
<1>5. Differ(v, w) \subseteq {field} BY <1>4 DEF Differ
<1>6. a # b <=> Differ(v, w) # {}
    <2>1. ASSUME NEW x \in (a \ b) \cup (b \ a) PROVE field \in Differ(v, w)
        <3>1. <<field, m[x]>> \in (w \ v) \cup (v \ w) BY <1>3
        <3>2. <<field, m[x]>>[1] = field OBVIOUS
        <3> QED BY <3>1, <3>2 DEF Differ
    <2>2. ASSUME a = b PROVE v = w BY <2>2 DEF v, w
    <2>3. ASSUME v = w PROVE Differ(v, w) = {} BY <2>3 DEF Differ
    <2> QED BY <2>1, <2>2, <2>3
<1>7. IsPrefix(field, field) BY DEF IsPrefix
<1>8. Explains(C, v, w) BY <1>1, <1>2, <1>5, <1>6, <1>7 DEF Explains
<1> QED BY <1>8 DEF C, v, w
LEMMA OneExplained ==
    ASSUME NEW b, NEW a, NEW field, Len(field) \in Nat, ~OfEnv(field)
    PROVE  Explains(IF b # a THEN {Change(field, b, a, TRUE)} ELSE {}, {<<field, b>>}, {<<field, a>>})
<1> DEFINE C == IF b # a THEN {Change(field, b, a, TRUE)} ELSE {}
           f == [k \in {1} |-> field]
           v == [k \in {1} |-> b]
           w == [k \in {1} |-> a]
<1>1. Part(v, f) = {<<field, b>>} /\ Part(w, f) = {<<field, a>>} BY DEF Part
<1>2. Names(f, DOMAIN v \cup DOMAIN w) BY DEF Names
<1>3. Unlike(v, w, 1) <=> b # a BY DEF Unlike
<1>4. Change(field, b, a, TRUE).field = field BY DEF Change
<1>5. DOMAIN v \cup DOMAIN w = {1} /\ f[1] = field OBVIOUS
<1>6. /\ \A c \in C : c.field = field /\ b # a
      /\ b # a => \E c \in C : c.field = field
    BY <1>4
<1> HIDE DEF C, f, v, w
<1>7. Explains(C, Part(v, f), Part(w, f)) BY <1>2, <1>3, <1>5, <1>6, PartExplained
<1> QED BY <1>1, <1>7 DEF C

\* What a map from names says, under a field of one, two and three names.
UnderOne(x, v) == {<<<<x, k>>, v[k]>> : k \in DOMAIN v}
UnderTwo(x, y, v) == {<<<<x, y, k>>, v[k]>> : k \in DOMAIN v}
UnderThree(x, y, z, v) == {<<<<x, y, z, k>>, v[k]>> : k \in DOMAIN v}

LEMMA MapsUnderOne ==
    ASSUME NEW b, NEW a, NEW v, NEW w, SameMaps(b, v), SameMaps(a, w), SameValues(b, a, v, w), Present(b), Present(a),
           NEW x, NEW show \in BOOLEAN, show => x \notin {"containers", "init_containers"}
    PROVE  Explains(CompareMaps(<<x>>, b, a, show), UnderOne(x, v), UnderOne(x, w))
<1> DEFINE K == DOMAIN v \cup DOMAIN w
           f == [k \in K |-> <<x, k>>]
<1>1. Names(f, K) BY DEF Names
<1>2. \A k \in K : f[k] = Append(<<x>>, k) BY Appended
<1>3. show => \A k \in K : ~OfEnv(f[k]) BY DEF OfEnv
<1>4. /\ Part(v, f) = UnderOne(x, v)
      /\ Part(w, f) = UnderOne(x, w)
    BY DEF Part, UnderOne, UnderTwo, UnderThree
<1> HIDE DEF f
<1>5. Explains(CompareMaps(<<x>>, b, a, show), Part(v, f), Part(w, f)) BY <1>1, <1>2, <1>3, MapsExplained
<1> QED BY <1>4, <1>5

LEMMA MapsUnderTwo ==
    ASSUME NEW b, NEW a, NEW v, NEW w, SameMaps(b, v), SameMaps(a, w), SameValues(b, a, v, w), Present(b), Present(a),
           NEW x, NEW y, NEW show \in BOOLEAN, show => x \notin {"containers", "init_containers"} \/ "env" \notin DOMAIN v \cup DOMAIN w
    PROVE  Explains(CompareMaps(<<x, y>>, b, a, show), UnderTwo(x, y, v), UnderTwo(x, y, w))
<1> DEFINE K == DOMAIN v \cup DOMAIN w
           f == [k \in K |-> <<x, y, k>>]
<1>1. Names(f, K) BY DEF Names
<1>2. \A k \in K : f[k] = Append(<<x, y>>, k) BY Appended
<1>3. show => \A k \in K : ~OfEnv(f[k]) BY DEF OfEnv
<1>4. /\ Part(v, f) = UnderTwo(x, y, v)
      /\ Part(w, f) = UnderTwo(x, y, w)
    BY DEF Part, UnderOne, UnderTwo, UnderThree
<1> HIDE DEF f
<1>5. Explains(CompareMaps(<<x, y>>, b, a, show), Part(v, f), Part(w, f)) BY <1>1, <1>2, <1>3, MapsExplained
<1> QED BY <1>4, <1>5

LEMMA MapsUnderThree ==
    ASSUME NEW b, NEW a, NEW v, NEW w, SameMaps(b, v), SameMaps(a, w), SameValues(b, a, v, w), Present(b), Present(a),
           NEW x, NEW y, NEW z, NEW show \in BOOLEAN, show => x \notin {"containers", "init_containers"} \/ z # "env"
    PROVE  Explains(CompareMaps(<<x, y, z>>, b, a, show), UnderThree(x, y, z, v), UnderThree(x, y, z, w))
<1> DEFINE K == DOMAIN v \cup DOMAIN w
           f == [k \in K |-> <<x, y, z, k>>]
<1>1. Names(f, K) BY DEF Names
<1>2. \A k \in K : f[k] = Append(<<x, y, z>>, k) BY Appended
<1>3. show => \A k \in K : ~OfEnv(f[k]) BY DEF OfEnv
<1>4. /\ Part(v, f) = UnderThree(x, y, z, v)
      /\ Part(w, f) = UnderThree(x, y, z, w)
    BY DEF Part, UnderOne, UnderTwo, UnderThree
<1> HIDE DEF f
<1>5. Explains(CompareMaps(<<x, y, z>>, b, a, show), Part(v, f), Part(w, f)) BY <1>1, <1>2, <1>3, MapsExplained
<1> QED BY <1>4, <1>5

LEMMA OtherUnderOne ==
    ASSUME NEW b, NEW a, Present(b), Present(a), NEW x, x \notin {"containers", "init_containers"}
    PROVE  Explains(CompareOtherFields(<<x>>, b, a), UnderOne(x, b), UnderOne(x, a))
<1> DEFINE K == DOMAIN b \cup DOMAIN a
           f == [k \in K |-> <<x, k>>]
<1>1. Names(f, K) BY DEF Names
<1>2. \A k \in K : f[k] = Append(<<x>>, k) /\ ~OfEnv(f[k]) BY Appended DEF OfEnv
<1>4. /\ Part(b, f) = UnderOne(x, b)
      /\ Part(a, f) = UnderOne(x, a)
    BY DEF Part, UnderOne, UnderTwo, UnderThree
<1> HIDE DEF f
<1>5. Explains(CompareOtherFields(<<x>>, b, a), Part(b, f), Part(a, f)) BY <1>1, <1>2, OtherExplained
<1> QED BY <1>4, <1>5

LEMMA OtherUnderTwo ==
    ASSUME NEW b, NEW a, Present(b), Present(a), NEW x, NEW y, "env" \notin DOMAIN b \cup DOMAIN a
    PROVE  Explains(CompareOtherFields(<<x, y>>, b, a), UnderTwo(x, y, b), UnderTwo(x, y, a))
<1> DEFINE K == DOMAIN b \cup DOMAIN a
           f == [k \in K |-> <<x, y, k>>]
<1>1. Names(f, K) BY DEF Names
<1>2. \A k \in K : f[k] = Append(<<x, y>>, k) /\ ~OfEnv(f[k]) BY Appended DEF OfEnv
<1>4. /\ Part(b, f) = UnderTwo(x, y, b)
      /\ Part(a, f) = UnderTwo(x, y, a)
    BY DEF Part, UnderOne, UnderTwo, UnderThree
<1> HIDE DEF f
<1>5. Explains(CompareOtherFields(<<x, y>>, b, a), Part(b, f), Part(a, f)) BY <1>1, <1>2, OtherExplained
<1> QED BY <1>4, <1>5

\* One container in both templates.
LEMMA ContainerExplained ==
    ASSUME NEW g, NEW n, NEW b, NEW a, ContainerWhole(b), ContainerWhole(a)
    PROVE  Explains(CompareContainer(<<g, n>>, b, a), ContainerDetails(g, n, b), ContainerDetails(g, n, a))
<1> DEFINE image(c) == {<<<<g, n, "image">>, c.image>>}
           limits(c) == UnderThree(g, n, "limits", c.limits)
           single(c) == UnderTwo(g, n, c.single)
           env(c) == UnderThree(g, n, "env", c.env)
           envFrom(c) == {<<<<g, n, "envFrom">>, x>> : x \in c.envFrom}
           mounts(c) == UnderThree(g, n, "volumeMounts", [k \in DOMAIN c.mounts |-> Mounted(c.mounts[k])])
           other(c) == UnderTwo(g, n, c.other)
           C1 == IF b.image # a.image THEN {Change(<<g, n, "image">>, b.image, a.image, TRUE)} ELSE {}
           C2 == CompareMaps(<<g, n, "limits">>, b.limits, a.limits, TRUE)
           C3 == CompareMaps(<<g, n>>, b.single, a.single, TRUE)
           C4 == CompareMaps(<<g, n, "env">>, b.env, a.env, FALSE)
           C5 == CompareSets(<<g, n, "envFrom">>, b.envFrom, a.envFrom)
           C6 == CompareMaps(<<g, n, "volumeMounts">>, MountSummaries(b.mounts), MountSummaries(a.mounts), TRUE)
           C7 == CompareOtherFields(<<g, n>>, b.other, a.other)
<1>1. CompareContainer(<<g, n>>, b, a) = C1 \cup C2 \cup C3 \cup C4 \cup C5 \cup C6 \cup C7
    <2>1. /\ Append(<<g, n>>, "image") = <<g, n, "image">>
          /\ Append(<<g, n>>, "limits") = <<g, n, "limits">>
          /\ Append(<<g, n>>, "env") = <<g, n, "env">>
          /\ Append(<<g, n>>, "envFrom") = <<g, n, "envFrom">>
          /\ Append(<<g, n>>, "volumeMounts") = <<g, n, "volumeMounts">>
        BY Appended
    <2> QED BY <2>1, Zenon DEF CompareContainer
<1>2. \A c : ContainerDetails(g, n, c) = image(c) \cup limits(c) \cup single(c) \cup env(c) \cup envFrom(c) \cup mounts(c) \cup other(c)
    BY DEF ContainerDetails, UnderTwo, UnderThree
<1>0. \A m : SameMaps(m, m) /\ \A l : SameValues(m, l, m, l) BY DEF SameMaps, SameValues
<1>11. Explains(C1, image(b), image(a)) BY OneExplained DEF OfEnv
<1>12. Explains(C2, limits(b), limits(a)) BY <1>0, MapsUnderThree DEF ContainerWhole
<1>13. Explains(C3, single(b), single(a))
    <2>1. "env" \notin DOMAIN b.single \cup DOMAIN a.single BY DEF ContainerWhole, SingleFields
    <2> QED BY <1>0, <2>1, MapsUnderTwo DEF ContainerWhole
<1>14. Explains(C4, env(b), env(a)) BY <1>0, MapsUnderThree DEF ContainerWhole
<1>15. Explains(C5, envFrom(b), envFrom(a))
    <2> DEFINE m == [x \in b.envFrom \cup a.envFrom |-> x]
    <2>1. /\ Members(b.envFrom, <<g, n, "envFrom">>, m) = envFrom(b)
          /\ Members(a.envFrom, <<g, n, "envFrom">>, m) = envFrom(a)
        BY DEF Members
    <2>2. ~OfEnv(<<g, n, "envFrom">>) /\ Len(<<g, n, "envFrom">>) \in Nat BY DEF OfEnv
    <2>3. \A x, y \in b.envFrom \cup a.envFrom : m[x] = m[y] => x = y OBVIOUS
    <2> HIDE DEF m
    <2>4. Explains(C5, Members(b.envFrom, <<g, n, "envFrom">>, m), Members(a.envFrom, <<g, n, "envFrom">>, m))
        BY <2>2, <2>3, SetsExplained
    <2> QED BY <2>1, <2>4
<1>16. Explains(C6, mounts(b), mounts(a))
    <2> DEFINE v == [k \in DOMAIN b.mounts |-> Mounted(b.mounts[k])]
               w == [k \in DOMAIN a.mounts |-> Mounted(a.mounts[k])]
               s == MountSummaries(b.mounts)
               t == MountSummaries(a.mounts)
    <2>1. SameMaps(s, v) /\ SameMaps(t, w) /\ SameValues(s, t, v, w) BY DEF SameMaps, SameValues, MountSummaries, Mounted
    <2>2. Present(s) /\ Present(t) BY DEF ContainerWhole
    <2>3. mounts(b) = UnderThree(g, n, "volumeMounts", v) /\ mounts(a) = UnderThree(g, n, "volumeMounts", w) OBVIOUS
    <2> HIDE DEF v, w, s, t
    <2>4. Explains(CompareMaps(<<g, n, "volumeMounts">>, s, t, TRUE), UnderThree(g, n, "volumeMounts", v), UnderThree(g, n, "volumeMounts", w))
        BY <2>1, <2>2, MapsUnderThree
    <2> QED BY <2>3, <2>4 DEF s, t
<1>17. Explains(C7, other(b), other(a))
    <2>1. "env" \notin DOMAIN b.other \cup DOMAIN a.other BY DEF ContainerWhole, ContainerFields
    <2> QED BY <2>1, OtherUnderTwo DEF ContainerWhole
<1>3. \A d \in image(b) \cup image(a) : Len(d[1]) = 3 /\ d[1][3] = "image" OBVIOUS
<1>4. \A d \in limits(b) \cup limits(a) : Len(d[1]) = 4 /\ d[1][3] = "limits" BY DEF UnderThree
<1>5. \A d \in single(b) \cup single(a) : Len(d[1]) = 3 /\ d[1][3] \in SingleFields BY DEF ContainerWhole, UnderTwo
<1>6. \A d \in env(b) \cup env(a) : Len(d[1]) = 4 /\ d[1][3] = "env" BY DEF UnderThree
<1>7. \A d \in envFrom(b) \cup envFrom(a) : Len(d[1]) = 3 /\ d[1][3] = "envFrom" OBVIOUS
<1>8. \A d \in mounts(b) \cup mounts(a) : Len(d[1]) = 4 /\ d[1][3] = "volumeMounts"
    <2>1. \A v : \A d \in UnderThree(g, n, "volumeMounts", v) : Len(d[1]) = 4 /\ d[1][3] = "volumeMounts" BY DEF UnderThree
    <2> QED BY <2>1
<1>9. \A d \in other(b) \cup other(a) : Len(d[1]) = 3 /\ d[1][3] \notin ContainerFields BY DEF ContainerWhole, UnderTwo
<1> HIDE DEF C1, C2, C3, C4, C5, C6, C7, image, limits, single, env, envFrom, mounts, other
<1> DEFINE A2(c) == image(c) \cup limits(c)
           A3(c) == A2(c) \cup single(c)
           A4(c) == A3(c) \cup env(c)
           A5(c) == A4(c) \cup envFrom(c)
           A6(c) == A5(c) \cup mounts(c)
<1>21. Strangers(image(a) \cup image(b), limits(a) \cup limits(b)) BY <1>3, <1>4 DEF Strangers
<1>22. Explains(C1 \cup C2, A2(b), A2(a)) BY <1>11, <1>12, <1>21, ExplainedTogether
<1>31. Strangers(A2(a) \cup A2(b), single(a) \cup single(b)) BY <1>3, <1>4, <1>5 DEF Strangers, SingleFields
<1>32. Explains(C1 \cup C2 \cup C3, A3(b), A3(a)) BY <1>22, <1>13, <1>31, ExplainedTogether
<1>41. Strangers(A3(a) \cup A3(b), env(a) \cup env(b)) BY <1>3, <1>4, <1>5, <1>6 DEF Strangers, SingleFields
<1>42. Explains(C1 \cup C2 \cup C3 \cup C4, A4(b), A4(a)) BY <1>32, <1>14, <1>41, ExplainedTogether
<1>51. Strangers(A4(a) \cup A4(b), envFrom(a) \cup envFrom(b)) BY <1>3, <1>4, <1>5, <1>6, <1>7 DEF Strangers, SingleFields
<1>52. Explains(C1 \cup C2 \cup C3 \cup C4 \cup C5, A5(b), A5(a)) BY <1>42, <1>15, <1>51, ExplainedTogether
<1>61. Strangers(A5(a) \cup A5(b), mounts(a) \cup mounts(b)) BY <1>3, <1>4, <1>5, <1>6, <1>7, <1>8 DEF Strangers, SingleFields
<1>62. Explains(C1 \cup C2 \cup C3 \cup C4 \cup C5 \cup C6, A6(b), A6(a)) BY <1>52, <1>16, <1>61, ExplainedTogether
<1>71. Strangers(A6(a) \cup A6(b), other(a) \cup other(b)) BY <1>3, <1>4, <1>5, <1>6, <1>7, <1>8, <1>9 DEF Strangers, ContainerFields, SingleFields
<1>72. Explains(C1 \cup C2 \cup C3 \cup C4 \cup C5 \cup C6 \cup C7, A6(b) \cup other(b), A6(a) \cup other(a)) BY <1>62, <1>17, <1>71, ExplainedTogether
<1> QED BY <1>1, <1>2, <1>72

\* One in only one of them.
OnlyChange(C, field) == \E x, y : C = {Change(field, x, y, TRUE)}

LEMMA ContainerAlone ==
    ASSUME NEW g, NEW n, NEW c, NEW C, OnlyChange(C, <<g, n>>)
    PROVE  /\ Explains(C, {}, ContainerDetails(g, n, c))
           /\ Explains(C, ContainerDetails(g, n, c), {})
<1> DEFINE D == ContainerDetails(g, n, c)
<1>1. \A d \in D : IsPrefix(<<g, n>>, d[1])
    <2>1. \A d \in D : (\E k : d[1] = <<g, n, k>>) \/ (\E k, l : d[1] = <<g, n, k, l>>) BY DEF ContainerDetails
    <2> QED BY <2>1, TwoOfThree, TwoOfFour
<1>2. D # {} BY DEF ContainerDetails
<1>3. ~OfEnv(<<g, n>>) BY DEF OfEnv
<1>4. C # {} /\ \A e \in C : e.field = <<g, n>>
    <2>1. \A x, y : Change(<<g, n>>, x, y, TRUE).field = <<g, n>> BY DEF Change
    <2> QED BY <2>1 DEF OnlyChange
<1> HIDE DEF D
<1>5. Differ({}, D) = {d[1] : d \in D} /\ Differ(D, {}) = {d[1] : d \in D} BY DEF Differ
<1>6. Explains(C, {}, D) BY <1>1, <1>2, <1>3, <1>4, <1>5 DEF Explains
<1>7. Explains(C, D, {}) BY <1>1, <1>2, <1>3, <1>4, <1>5 DEF Explains
<1> QED BY <1>6, <1>7 DEF D

\* All the containers of a group.
NamedAs(c, g, n) == \A d \in c : d[1][1] = g /\ d[1][2] = n

LEMMA NamedApart ==
    /\ \A g, n, c : NamedAs(ContainerDetails(g, n, c), g, n)
    /\ \A g, n, m, c, d : NamedAs(c, g, n) /\ NamedAs(d, g, m) => n = m \/ Strangers(c, d)
<1>1. \A g, n, c : NamedAs(ContainerDetails(g, n, c), g, n) BY DEF NamedAs, ContainerDetails
<1>2. \A g, n, m, c, d : NamedAs(c, g, n) /\ NamedAs(d, g, m) => n = m \/ Strangers(c, d) BY DEF NamedAs, Strangers
<1> QED BY <1>1, <1>2

LEMMA ContainersExplained ==
    ASSUME NEW g, NEW b, NEW a, \A n \in DOMAIN b : ContainerWhole(b[n]), \A n \in DOMAIN a : ContainerWhole(a[n])
    PROVE  Explains(CompareContainers(g, b, a), GroupDetails(g, b), GroupDetails(g, a))
<1> DEFINE N == DOMAIN b \cup DOMAIN a
           alone(n) == {Change(<<g, n>>, IF n \in DOMAIN b THEN b[n].image ELSE Absent,
                               IF n \in DOMAIN a THEN a[n].image ELSE Absent, TRUE)}
           C == [n \in N |-> IF n \in DOMAIN b \cap DOMAIN a THEN CompareContainer(<<g, n>>, b[n], a[n]) ELSE alone(n)]
           v == [n \in N |-> IF n \in DOMAIN b THEN ContainerDetails(g, n, b[n]) ELSE {}]
           w == [n \in N |-> IF n \in DOMAIN a THEN ContainerDetails(g, n, a[n]) ELSE {}]
<1>1. CompareContainers(g, b, a) = All(C, N) BY DEF CompareContainers, All
<1>2. GroupDetails(g, b) = All(v, N)
    <2>1. \A n \in DOMAIN b : v[n] = ContainerDetails(g, n, b[n]) OBVIOUS
    <2>2. \A n \in N : n \notin DOMAIN b => v[n] = {} OBVIOUS
    <2>3. DOMAIN b \subseteq N OBVIOUS
    <2> HIDE DEF v, N
    <2> QED BY <2>1, <2>2, <2>3 DEF GroupDetails, All
<1>3. GroupDetails(g, a) = All(w, N)
    <2>1. \A n \in DOMAIN a : w[n] = ContainerDetails(g, n, a[n]) OBVIOUS
    <2>2. \A n \in N : n \notin DOMAIN a => w[n] = {} OBVIOUS
    <2>3. DOMAIN a \subseteq N OBVIOUS
    <2> HIDE DEF w, N
    <2> QED BY <2>1, <2>2, <2>3 DEF GroupDetails, All
<1>4. ASSUME NEW n \in N PROVE Explains(C[n], v[n], w[n])
    <2>0. OnlyChange(alone(n), <<g, n>>) BY DEF OnlyChange
    <2>1. CASE n \in DOMAIN b \cap DOMAIN a
        <3>1. C[n] = CompareContainer(<<g, n>>, b[n], a[n]) /\ v[n] = ContainerDetails(g, n, b[n]) /\ w[n] = ContainerDetails(g, n, a[n])
            BY <2>1
        <3> HIDE DEF C, v, w
        <3> QED BY <2>1, <3>1, ContainerExplained
    <2>2. CASE n \in DOMAIN b /\ n \notin DOMAIN a
        <3>1. C[n] = alone(n) /\ v[n] = ContainerDetails(g, n, b[n]) /\ w[n] = {} BY <2>2
        <3> HIDE DEF C, v, w, alone
        <3> QED BY <2>0, <3>1, ContainerAlone
    <2>3. CASE n \notin DOMAIN b /\ n \in DOMAIN a
        <3>1. C[n] = alone(n) /\ v[n] = {} /\ w[n] = ContainerDetails(g, n, a[n]) BY <2>3
        <3> HIDE DEF C, v, w, alone
        <3> QED BY <2>0, <3>1, ContainerAlone
    <2> QED BY <2>1, <2>2, <2>3
<1>5. \A n \in N : NamedAs(w[n] \cup v[n], g, n)
    <2>0. \A n : NamedAs({}, g, n) BY DEF NamedAs
    <2>1. \A n \in N : NamedAs(v[n], g, n) /\ NamedAs(w[n], g, n) BY <2>0, NamedApart
    <2> HIDE DEF v, w
    <2> QED BY <2>1 DEF NamedAs
<1> HIDE DEF C, v, w, N
<1>6. \A n, m \in N : n = m \/ Strangers(w[n] \cup v[n], w[m] \cup v[m]) BY <1>5, NamedApart
<1>7. Explains(All(C, N), All(v, N), All(w, N)) BY <1>4, <1>6, ExplainedAll
<1> QED BY <1>1, <1>2, <1>3, <1>7

\* Two templates.
LEMMA TemplateExplained ==
    ASSUME NEW b, NEW a, TemplateWhole(b), TemplateWhole(a)
    PROVE  Explains(TemplateChanges(b, a).spec \cup TemplateChanges(b, a).metadata, Details(b), Details(a))
<1> DEFINE kept(t) == Restrict(t.labels, DOMAIN t.labels \ ControllerLabels)
           shown(t) == {TolerationSummary(x) : x \in t.tolerations}
           apps(t) == GroupDetails("containers", t.containers)
           inits(t) == GroupDetails("init_containers", t.inits)
           volumes(t) == UnderOne("volumes", [k \in DOMAIN t.volumes |-> <<t.volumes[k].source, t.volumes[k].names>>])
           selector(t) == UnderOne("node_selector", t.selector)
           tolerations(t) == {<<<<"tolerations">>, <<x.key, x.effect>>>> : x \in t.tolerations}
           other(t) == UnderOne("spec", t.other)
           labels(t) == UnderTwo("metadata", "labels", kept(t))
           annotations(t) == UnderTwo("metadata", "annotations", t.annotations)
           C1 == CompareContainers("containers", b.containers, a.containers)
           C2 == CompareContainers("init_containers", b.inits, a.inits)
           C3 == CompareMaps(<<"volumes">>, VolumeSummaries(b.volumes), VolumeSummaries(a.volumes), TRUE)
           C4 == CompareMaps(<<"node_selector">>, b.selector, a.selector, TRUE)
           C5 == CompareSets(<<"tolerations">>, shown(b), shown(a))
           C6 == CompareOtherFields(<<"spec">>, b.other, a.other)
           C7 == CompareMaps(<<"metadata", "labels">>, kept(b), kept(a), TRUE)
           C8 == CompareMaps(<<"metadata", "annotations">>, b.annotations, a.annotations, TRUE)
<1>1. TemplateChanges(b, a).spec \cup TemplateChanges(b, a).metadata = C1 \cup C2 \cup C3 \cup C4 \cup C5 \cup C6 \cup C7 \cup C8
    BY DEF TemplateChanges
<1>2. \A t : Details(t) = apps(t) \cup inits(t) \cup volumes(t) \cup selector(t) \cup tolerations(t) \cup other(t) \cup labels(t) \cup annotations(t)
    <2> SUFFICES ASSUME NEW t
                 PROVE  Details(t) = apps(t) \cup inits(t) \cup volumes(t) \cup selector(t) \cup tolerations(t) \cup other(t) \cup labels(t) \cup annotations(t)
        OBVIOUS
    <2>1. labels(t) = {<<<<"metadata", "labels", k>>, t.labels[k]>> : k \in DOMAIN t.labels \ ControllerLabels}
        BY DEF Restrict, UnderTwo
    <2>2. volumes(t) = {<<<<"volumes", v>>, <<t.volumes[v].source, t.volumes[v].names>>>> : v \in DOMAIN t.volumes}
        BY DEF UnderOne
    <2> DEFINE others == apps(t) \cup inits(t) \cup {<<<<"volumes", v>>, <<t.volumes[v].source, t.volumes[v].names>>>> : v \in DOMAIN t.volumes}
                         \cup selector(t) \cup tolerations(t) \cup other(t)
                         \cup {<<<<"metadata", "labels", k>>, t.labels[k]>> : k \in DOMAIN t.labels \ ControllerLabels} \cup annotations(t)
    <2>3. Details(t) = others BY DEF Details, UnderOne, UnderTwo
    <2> HIDE DEF labels, volumes
    <2> QED BY <2>1, <2>2, <2>3
<1>3. \A m : SameMaps(m, m) /\ \A l : SameValues(m, l, m, l) BY DEF SameMaps, SameValues
<1>11. Explains(C1, apps(b), apps(a)) BY ContainersExplained DEF TemplateWhole
<1>12. Explains(C2, inits(b), inits(a)) BY ContainersExplained DEF TemplateWhole
<1>13. Explains(C3, volumes(b), volumes(a))
    <2> DEFINE v == [k \in DOMAIN b.volumes |-> <<b.volumes[k].source, b.volumes[k].names>>]
               w == [k \in DOMAIN a.volumes |-> <<a.volumes[k].source, a.volumes[k].names>>]
               s == VolumeSummaries(b.volumes)
               t == VolumeSummaries(a.volumes)
    <2>1. SameMaps(s, v) /\ SameMaps(t, w) /\ SameValues(s, t, v, w) BY DEF SameMaps, SameValues, VolumeSummaries
    <2>2. Present(s) /\ Present(t) BY DEF TemplateWhole
    <2>3. volumes(b) = UnderOne("volumes", v) /\ volumes(a) = UnderOne("volumes", w) OBVIOUS
    <2> HIDE DEF v, w, s, t
    <2>4. Explains(CompareMaps(<<"volumes">>, s, t, TRUE), UnderOne("volumes", v), UnderOne("volumes", w)) BY <2>1, <2>2, MapsUnderOne
    <2> QED BY <2>3, <2>4 DEF s, t
<1>14. Explains(C4, selector(b), selector(a)) BY <1>3, MapsUnderOne DEF TemplateWhole
<1>15. Explains(C5, tolerations(b), tolerations(a))
    <2> DEFINE m == [x \in shown(b) \cup shown(a) |-> <<x.key, x.effect>>]
    <2>1. ASSUME NEW t \in {b, a} PROVE Members(shown(t), <<"tolerations">>, m) = tolerations(t)
        <3>1. \A x \in t.tolerations : TolerationSummary(x) \in shown(b) \cup shown(a) BY <2>1
        <3>2. \A x \in t.tolerations : m[TolerationSummary(x)] = <<x.key, x.effect>> BY <3>1 DEF TolerationSummary
        <3> HIDE DEF m
        <3> QED BY <3>2 DEF Members
    <2>2. \A x, y \in shown(b) \cup shown(a) : m[x] = m[y] => x = y BY DEF TolerationSummary
    <2>3. ~OfEnv(<<"tolerations">>) /\ Len(<<"tolerations">>) \in Nat BY DEF OfEnv
    <2> HIDE DEF m, shown, tolerations
    <2>4. Explains(CompareSets(<<"tolerations">>, shown(b), shown(a)), Members(shown(b), <<"tolerations">>, m), Members(shown(a), <<"tolerations">>, m))
        BY <2>2, <2>3, SetsExplained
    <2> QED BY <2>1, <2>4
<1>16. Explains(C6, other(b), other(a)) BY OtherUnderOne DEF TemplateWhole
<1>17. Explains(C7, labels(b), labels(a))
    <2>1. Present(kept(b)) /\ Present(kept(a)) BY DEF TemplateWhole, Present, Restrict
    <2> HIDE DEF kept
    <2> QED BY <1>3, <2>1, MapsUnderTwo
<1>18. Explains(C8, annotations(b), annotations(a)) BY <1>3, MapsUnderTwo DEF TemplateWhole
<1>21. \A d \in apps(b) \cup apps(a) : d[1][1] = "containers"
    <2>1. \A n, c : NamedAs(ContainerDetails("containers", n, c), "containers", n) BY NamedApart
    <2> QED BY <2>1 DEF GroupDetails, NamedAs
<1>22. \A d \in inits(b) \cup inits(a) : d[1][1] = "init_containers"
    <2>1. \A n, c : NamedAs(ContainerDetails("init_containers", n, c), "init_containers", n) BY NamedApart
    <2> QED BY <2>1 DEF GroupDetails, NamedAs
<1>23. \A d \in volumes(b) \cup volumes(a) : d[1][1] = "volumes"
    <2>1. \A v : \A d \in UnderOne("volumes", v) : d[1][1] = "volumes" BY DEF UnderOne
    <2> QED BY <2>1
<1>24. \A d \in selector(b) \cup selector(a) : d[1][1] = "node_selector"
    <2>1. \A v : \A d \in UnderOne("node_selector", v) : d[1][1] = "node_selector" BY DEF UnderOne
    <2> QED BY <2>1
<1>25. \A d \in tolerations(b) \cup tolerations(a) : d[1][1] = "tolerations" OBVIOUS
<1>26. \A d \in other(b) \cup other(a) : d[1][1] = "spec"
    <2>1. \A v : \A d \in UnderOne("spec", v) : d[1][1] = "spec" BY DEF UnderOne
    <2> QED BY <2>1
<1>27. \A d \in labels(b) \cup labels(a) : d[1][1] = "metadata" /\ d[1][2] = "labels"
    <2>1. \A v : \A d \in UnderTwo("metadata", "labels", v) : d[1][1] = "metadata" /\ d[1][2] = "labels" BY DEF UnderTwo
    <2> QED BY <2>1
<1>28. \A d \in annotations(b) \cup annotations(a) : d[1][1] = "metadata" /\ d[1][2] = "annotations"
    <2>1. \A v : \A d \in UnderTwo("metadata", "annotations", v) : d[1][1] = "metadata" /\ d[1][2] = "annotations" BY DEF UnderTwo
    <2> QED BY <2>1
<1> HIDE DEF C1, C2, C3, C4, C5, C6, C7, C8, apps, inits, volumes, selector, tolerations, other, labels, annotations
<1> DEFINE A2(t) == apps(t) \cup inits(t)
           A3(t) == A2(t) \cup volumes(t)
           A4(t) == A3(t) \cup selector(t)
           A5(t) == A4(t) \cup tolerations(t)
           A6(t) == A5(t) \cup other(t)
           A7(t) == A6(t) \cup labels(t)
<1>32. Strangers(apps(a) \cup apps(b), inits(a) \cup inits(b)) BY <1>21, <1>22 DEF Strangers
<1>42. Explains(C1 \cup C2, A2(b), A2(a)) BY <1>11, <1>12, <1>32, ExplainedTogether
<1>33. Strangers(A2(a) \cup A2(b), volumes(a) \cup volumes(b)) BY <1>21, <1>22, <1>23 DEF Strangers
<1>43. Explains(C1 \cup C2 \cup C3, A3(b), A3(a)) BY <1>42, <1>13, <1>33, ExplainedTogether
<1>34. Strangers(A3(a) \cup A3(b), selector(a) \cup selector(b)) BY <1>21, <1>22, <1>23, <1>24 DEF Strangers
<1>44. Explains(C1 \cup C2 \cup C3 \cup C4, A4(b), A4(a)) BY <1>43, <1>14, <1>34, ExplainedTogether
<1>35. Strangers(A4(a) \cup A4(b), tolerations(a) \cup tolerations(b)) BY <1>21, <1>22, <1>23, <1>24, <1>25 DEF Strangers
<1>45. Explains(C1 \cup C2 \cup C3 \cup C4 \cup C5, A5(b), A5(a)) BY <1>44, <1>15, <1>35, ExplainedTogether
<1>36. Strangers(A5(a) \cup A5(b), other(a) \cup other(b)) BY <1>21, <1>22, <1>23, <1>24, <1>25, <1>26 DEF Strangers
<1>46. Explains(C1 \cup C2 \cup C3 \cup C4 \cup C5 \cup C6, A6(b), A6(a)) BY <1>45, <1>16, <1>36, ExplainedTogether
<1>37. Strangers(A6(a) \cup A6(b), labels(a) \cup labels(b)) BY <1>21, <1>22, <1>23, <1>24, <1>25, <1>26, <1>27 DEF Strangers
<1>47. Explains(C1 \cup C2 \cup C3 \cup C4 \cup C5 \cup C6 \cup C7, A7(b), A7(a)) BY <1>46, <1>17, <1>37, ExplainedTogether
<1>38. Strangers(A7(a) \cup A7(b), annotations(a) \cup annotations(b)) BY <1>21, <1>22, <1>23, <1>24, <1>25, <1>26, <1>27, <1>28 DEF Strangers
<1>48. Explains(C1 \cup C2 \cup C3 \cup C4 \cup C5 \cup C6 \cup C7 \cup C8, A7(b) \cup annotations(b), A7(a) \cup annotations(a)) BY <1>47, <1>18, <1>38, ExplainedTogether
<1> QED BY <1>1, <1>2, <1>48

-----------------------------------------------------------------------------
(* The order of a workload's revisions.                                    *)

OwnedPlaces(items) == {i \in DOMAIN items : items[i].owned}
Numbered(items) == items \in Seq(Range(items)) /\ \A i \in DOMAIN items : Number(items[i]) \in Int
NewerPlaces(items, i) == {j \in OwnedPlaces(items) : Older(items, i, j)}
OlderPlaces(items, i) == {j \in OwnedPlaces(items) : Older(items, j, i)}

\* The revisions a workload owns are in a strict order.
LEMMA RevisionsOrdered ==
    ASSUME NEW items, Numbered(items)
    PROVE  /\ IsFiniteSet(OwnedPlaces(items)) /\ Cardinality(OwnedPlaces(items)) \in Nat
           /\ \A i \in OwnedPlaces(items) :
                /\ Cardinality(OlderPlaces(items, i)) \in Nat /\ Cardinality(NewerPlaces(items, i)) \in Nat
                /\ Cardinality(OlderPlaces(items, i)) + 1 + Cardinality(NewerPlaces(items, i)) = Cardinality(OwnedPlaces(items))
                /\ IsFiniteSet(NewerPlaces(items, i)) /\ i \notin NewerPlaces(items, i)
           /\ \A i, j \in OwnedPlaces(items) : Cardinality(OlderPlaces(items, i)) = Cardinality(OlderPlaces(items, j)) => i = j
           /\ \A k \in 1 .. Cardinality(OwnedPlaces(items)) : \E i \in OwnedPlaces(items) : Cardinality(OlderPlaces(items, i)) = k - 1
<1> DEFINE S == OwnedPlaces(items)
           R == {p \in S \X S : Older(items, p[1], p[2])}
<1>1. IsFiniteSet(S)
    <2>1. DOMAIN items = 1 .. Len(items) /\ Len(items) \in Nat BY LenProperties DEF Numbered
    <2>2. IsFiniteSet(1 .. Len(items)) /\ S \in SUBSET (1 .. Len(items)) BY <2>1, FS_Interval DEF OwnedPlaces
    <2> HIDE DEF S
    <2> QED BY <2>2, FS_Subset
<1>2. S \subseteq Int /\ \A i \in S : Number(items[i]) \in Int
    <2>1. DOMAIN items = 1 .. Len(items) /\ Len(items) \in Nat BY LenProperties DEF Numbered
    <2> QED BY <2>1 DEF OwnedPlaces, Numbered
<1>3. \A i, j \in S : <<i, j>> \in R <=> Older(items, i, j) OBVIOUS
<1> HIDE DEF S, R
<1>4. \A i \in S : <<i, i>> \notin R BY <1>2, <1>3 DEF Older
<1>5. \A i, j, k \in S : <<i, j>> \in R /\ <<j, k>> \in R => <<i, k>> \in R BY <1>2, <1>3 DEF Older
<1>6. \A i, j \in S : i = j \/ <<i, j>> \in R \/ <<j, i>> \in R
    <2> SUFFICES ASSUME NEW i \in S, NEW j \in S, i # j PROVE <<i, j>> \in R \/ <<j, i>> \in R OBVIOUS
    <2>1. i \in Int /\ j \in Int /\ Number(items[i]) \in Int /\ Number(items[j]) \in Int BY <1>2
    <2>2. Older(items, i, j) \/ Older(items, j, i) BY <2>1 DEF Older
    <2> QED BY <1>3, <2>2
<1>7. \A i \in S : Earlier(R, S, i) = OlderPlaces(items, i) /\ Following(R, S, i) = NewerPlaces(items, i)
    BY <1>3 DEF Earlier, Following, OlderPlaces, NewerPlaces, S
<1>8. /\ \A i, j \in S : <<i, j>> \in R => Cardinality(Earlier(R, S, i)) < Cardinality(Earlier(R, S, j))
      /\ \A k \in 1 .. Cardinality(S) : \E i \in S : Cardinality(Earlier(R, S, i)) = k - 1
    BY <1>1, <1>4, <1>5, <1>6, PlacesRanked
<1>9. \A i \in S : /\ IsFiniteSet(Following(R, S, i)) /\ IsFiniteSet(Earlier(R, S, i))
                   /\ Cardinality(Following(R, S, i)) \in Nat /\ Cardinality(Earlier(R, S, i)) \in Nat
                   /\ Cardinality(Earlier(R, S, i)) + 1 + Cardinality(Following(R, S, i)) = Cardinality(S)
    BY <1>1, <1>4, <1>5, <1>6, PlacesSplit
<1>10. \A i, j \in S : Cardinality(Earlier(R, S, i)) = Cardinality(Earlier(R, S, j)) => i = j
    <2> SUFFICES ASSUME NEW i \in S, NEW j \in S, Cardinality(Earlier(R, S, i)) = Cardinality(Earlier(R, S, j)) PROVE i = j OBVIOUS
    <2>1. ~(Cardinality(Earlier(R, S, i)) < Cardinality(Earlier(R, S, j))) /\ ~(Cardinality(Earlier(R, S, j)) < Cardinality(Earlier(R, S, i)))
        BY <1>9
    <2> QED BY <1>6, <1>8, <2>1
<1>11. \A i \in S : i \notin Following(R, S, i) BY <1>4 DEF Following
<1>12. Cardinality(S) \in Nat BY <1>1, FS_CardinalityType
<1> QED BY <1>1, <1>7, <1>8, <1>9, <1>10, <1>11, <1>12 DEF S

\* The place of each in what is told: the newer ones are told before it.
LEMMA RevisionsTold ==
    ASSUME NEW items, Numbered(items), NEW told, told = Revisions(items)
    PROVE  /\ Len(told) = Cardinality(OwnedPlaces(items))
           /\ \A i \in OwnedPlaces(items) : LET p == Cardinality(NewerPlaces(items, i)) + 1 IN
                /\ p \in DOMAIN told
                /\ told[p].revision = items[i].revision
                /\ told[p].current <=> NewerPlaces(items, i) = {}
           /\ \A i, j \in OwnedPlaces(items) : NewerPlaces(items, j) = NewerPlaces(items, i) \cup {i} =>
                LET row == told[Cardinality(NewerPlaces(items, i)) + 1]
                IN  /\ row.compared = items[j].revision
                    /\ row.changes = TemplateChanges(items[j].template, items[i].template)
<1> DEFINE S == OwnedPlaces(items)
           n == Cardinality(S)
           raw == RawRevisions(items)
           rank(i) == Cardinality(OlderPlaces(items, i)) + 1
           p(i) == Cardinality(NewerPlaces(items, i)) + 1
<1>1. n \in Nat /\ \A i \in S : rank(i) \in 1 .. n /\ p(i) \in 1 .. n /\ n - p(i) + 1 = rank(i) BY RevisionsOrdered
<1>2. raw = [k \in 1 .. n |-> items[CHOOSE i \in S : Cardinality(OlderPlaces(items, i)) = k - 1]]
    BY DEF RawRevisions, OwnedPlaces, OlderPlaces
<1>3. Len(raw) = n BY <1>1, <1>2
<1>4. \A i \in S : raw[rank(i)] = items[i]
    <2> SUFFICES ASSUME NEW i \in S PROVE raw[rank(i)] = items[i] OBVIOUS
    <2> DEFINE c == CHOOSE j \in S : Cardinality(OlderPlaces(items, j)) = rank(i) - 1
    <2>1. raw[rank(i)] = items[c] BY <1>1, <1>2
    <2>2. Cardinality(OlderPlaces(items, i)) = rank(i) - 1 /\ Cardinality(OlderPlaces(items, i)) \in Nat BY RevisionsOrdered
    <2>3. c \in S /\ Cardinality(OlderPlaces(items, c)) = rank(i) - 1
        <3> HIDE DEF S, rank
        <3> QED BY <2>2
    <2>4. c = i
        <3> HIDE DEF c
        <3> QED BY <2>2, <2>3, RevisionsOrdered
    <2> QED BY <2>1, <2>4
<1> HIDE DEF raw
<1>5. /\ Len(told) = n /\ DOMAIN told = 1 .. n
      /\ \A k \in 1 .. n : told[k] = RevisionOf(raw, n - k + 1)
    <2> DEFINE s == [i \in 1 .. Len(raw) |-> RevisionOf(raw, i)]
    <2>0. told = Reverse(s) BY DEF Revisions, raw
    <2>1. Len(s) = n /\ \A k \in 1 .. n : s[k] = RevisionOf(raw, k) BY <1>1, <1>3
    <2> HIDE DEF s, n
    <2>2. told = [k \in 1 .. n |-> s[(n - k) + 1]] BY <2>0, <2>1 DEF Reverse
    <2>3. \A k \in 1 .. n : told[k] = RevisionOf(raw, n - k + 1) BY <1>1, <2>1, <2>2
    <2> QED BY <1>1, <2>2, <2>3
<1>6. \A i \in S : p(i) \in DOMAIN told /\ told[p(i)] = RevisionOf(raw, rank(i)) BY <1>1, <1>5
<1>7. \A i \in S : rank(i) = n <=> NewerPlaces(items, i) = {}
    <2> SUFFICES ASSUME NEW i \in S PROVE rank(i) = n <=> NewerPlaces(items, i) = {} OBVIOUS
    <2>1. rank(i) = n <=> Cardinality(NewerPlaces(items, i)) = 0 BY RevisionsOrdered
    <2>2. Cardinality(NewerPlaces(items, i)) = 0 <=> NewerPlaces(items, i) = {} BY RevisionsOrdered, FS_EmptySet
    <2> QED BY <2>1, <2>2
<1>8. \A i \in S : /\ told[p(i)].revision = items[i].revision
                   /\ told[p(i)].current <=> NewerPlaces(items, i) = {}
    <2> SUFFICES ASSUME NEW i \in S PROVE /\ told[p(i)].revision = items[i].revision
                                          /\ told[p(i)].current <=> NewerPlaces(items, i) = {} OBVIOUS
    <2> HIDE DEF n, rank, p, S
    <2>1. /\ RevisionOf(raw, rank(i)).revision = raw[rank(i)].revision
          /\ RevisionOf(raw, rank(i)).current <=> rank(i) = Len(raw)
        BY DEF RevisionOf
    <2> QED BY <1>3, <1>4, <1>6, <1>7, <2>1
<1>9. ASSUME NEW i \in S, NEW j \in S, NewerPlaces(items, j) = NewerPlaces(items, i) \cup {i}
      PROVE  /\ told[p(i)].compared = items[j].revision
             /\ told[p(i)].changes = TemplateChanges(items[j].template, items[i].template)
    <2>0. IsFiniteSet(NewerPlaces(items, i)) /\ i \notin NewerPlaces(items, i) BY RevisionsOrdered
    <2>1. p(j) = p(i) + 1 BY <1>9, <2>0, FS_AddElement
    <2>2. rank(i) > 1 /\ rank(i) - 1 = rank(j)
        <3>1. /\ rank(i) \in 1 .. n /\ p(i) \in 1 .. n /\ n - p(i) + 1 = rank(i)
              /\ rank(j) \in 1 .. n /\ p(j) \in 1 .. n /\ n - p(j) + 1 = rank(j)
            BY <1>1
        <3> HIDE DEF rank, p, n
        <3> QED BY <1>1, <2>1, <3>1
    <2>3. raw[rank(i)] = items[i] /\ raw[rank(i) - 1] = items[j] BY <1>4, <2>2
    <2> HIDE DEF n, rank, p, S
    <2>4. /\ RevisionOf(raw, rank(i)).compared = raw[rank(i) - 1].revision
          /\ RevisionOf(raw, rank(i)).changes = TemplateChanges(raw[rank(i) - 1].template, raw[rank(i)].template)
        BY <2>2 DEF RevisionOf
    <2> QED BY <1>6, <2>3, <2>4
<1> QED BY <1>5, <1>6, <1>8, <1>9

\* Of the details that are compared, a revision's changes name all that its template
\* says otherwise than that of the revision before and nothing else, whatever the
\* templates and in whatever order the revisions are listed, and show no env var's
\* value (get_workload_history, _template_changes).
THEOREM ChangesToldOf == Spec => []ChangesExplain
<1>1. IInv => ChangesExplain
    <2> SUFFICES ASSUME IInv, Told("history") PROVE ChangesExplain BY DEF ChangesExplain
    <2> DEFINE items == call.in
               told == answer.revisions
               owned == {i \in DOMAIN items : items[i].owned}
               number(i) == IF items[i].revision = NoRevision THEN -1 ELSE items[i].revision
               newer(i) == {j \in owned : number(j) > number(i) \/ (number(j) = number(i) /\ j > i)}
               place(i) == Cardinality(newer(i)) + 1
    <2>1. items \in HistoryInputs BY InputsOfTool DEF Told, IInv, Inputs
    <2>2. told = Revisions(items) BY DEF Told, IInv, WorkedOut
    <2>3. Numbered(items) /\ \A i \in DOMAIN items : TemplateWhole(items[i].template)
        <3>1. \A i \in DOMAIN items : items[i] \in Range(items) BY DEF Range
        <3> HIDE DEF items
        <3>2. \A i \in DOMAIN items : items[i].revision \in Nat \cup {NoRevision} /\ TemplateWhole(items[i].template)
            BY <2>1, <3>1, HistoryAssumption
        <3> QED BY <2>1, <3>2, HistoryAssumption DEF Numbered, Number
    <2> HIDE DEF items, told
    <2>4. owned = OwnedPlaces(items) BY DEF OwnedPlaces
    <2>5. \A i \in owned : newer(i) = NewerPlaces(items, i)
        <3>1. \A i \in owned : number(i) = Number(items[i]) /\ number(i) \in Int BY <2>3 DEF Number, Numbered
        <3>2. owned \subseteq Int BY <2>3, LenProperties DEF Numbered
        <3>3. \A i, j \in owned : number(j) > number(i) \/ (number(j) = number(i) /\ j > i) <=> Older(items, i, j)
            BY <3>1, <3>2 DEF Older
        <3> HIDE DEF number
        <3> QED BY <2>4, <3>3 DEF NewerPlaces
    <2> HIDE DEF owned, newer
    <2>6. /\ Len(told) = Cardinality(owned)
          /\ \A i \in owned : /\ place(i) \in DOMAIN told
                              /\ told[place(i)].revision = items[i].revision
                              /\ told[place(i)].current <=> newer(i) = {}
        BY <2>2, <2>3, <2>4, <2>5, RevisionsTold
    <2>7. ASSUME NEW i \in owned, NEW j \in owned, newer(j) = newer(i) \cup {i}
          PROVE  LET row == told[place(i)]
                     a == Details(items[i].template)
                     b == Details(items[j].template)
                     changes == row.changes.spec \cup row.changes.metadata
                     differ == {d[1] : d \in (a \ b) \cup (b \ a)}
                 IN  /\ row.compared = items[j].revision
                     /\ \A field \in differ : \E c \in changes : IsPrefix(c.field, field)
                     /\ \A c \in changes : \E field \in differ : IsPrefix(c.field, field)
                     /\ \A c \in changes :
                         c.field[1] \in {"containers", "init_containers"} /\ Len(c.field) > 2 /\ c.field[3] = "env" =>
                             c.before = Hidden /\ c.after = Hidden
        <3> DEFINE row == told[place(i)]
                   a == Details(items[i].template)
                   b == Details(items[j].template)
                   C == row.changes.spec \cup row.changes.metadata
        <3>1. /\ row.compared = items[j].revision
              /\ row.changes = TemplateChanges(items[j].template, items[i].template)
            BY <2>2, <2>3, <2>4, <2>5, <2>7, RevisionsTold
        <3>2. TemplateWhole(items[i].template) /\ TemplateWhole(items[j].template) BY <2>3, <2>4 DEF OwnedPlaces
        <3>3. Explains(C, b, a) BY <3>1, <3>2, TemplateExplained
        <3> HIDE DEF row, a, b, C
        <3>4. Differ(b, a) = {d[1] : d \in (a \ b) \cup (b \ a)} BY DEF Differ
        <3>5. /\ \A field \in Differ(b, a) : \E c \in C : IsPrefix(c.field, field)
              /\ \A c \in C : \E field \in Differ(b, a) : IsPrefix(c.field, field)
              /\ \A c \in C : c.field[1] \in {"containers", "init_containers"} /\ Len(c.field) > 2 /\ c.field[3] = "env" =>
                     c.before = Hidden /\ c.after = Hidden
            BY <3>3 DEF Explains, OfEnv
        <3> QED BY <3>1, <3>4, <3>5 DEF row, a, b, C
    <2> QED BY <2>6, <2>7 DEF ChangesExplain, items, told, owned, newer
<1> QED BY <1>1, WorkedFromCall, PTL

-----------------------------------------------------------------------------
(* The summary of a log.                                                   *)

\* A summary has no more buckets than the limit, however long the log and narrow the
\* buckets asked for, and none of them is narrower (_buckets).
THEOREM BucketsKept == Spec => []BucketsBounded
<1>1. IInv => BucketsBounded
    <2> SUFFICES ASSUME IInv, Told("summarize"), answer.rows # {} PROVE BucketsBounded BY DEF BucketsBounded
    <2> DEFINE in == call.in
               first == FirstLine(in.log)
               last == LastLine(in.log)
    <2>1. in \in SummaryInputs BY InputsOfTool DEF Told, IInv, Inputs
    <2>2. answer = Summary(in) BY DEF Told, IInv, WorkedOut
    <2>3. first # NoTime BY <2>2 DEF Summary
    <2>4. in.log \in Seq(LogLines) /\ InOrder(in.log) /\ in.asked \in Nat \ {0} BY <2>1, SummaryAssumption
    <2>5. first \in Nat /\ last \in Nat /\ first <= last BY <2>3, <2>4, LogSpan
    <2>6. Width(first, last, in.asked) >= in.asked BY <2>4, <2>5, WidthAsked
    <2>7. BucketCount(first, last, Width(first, last, in.asked)) <= MaxBuckets BY <2>4, <2>5, WidthBounds
    <2> QED BY <2>6, <2>7 DEF BucketsBounded
<1> QED BY <1>1, WorkedFromCall, PTL

\* Rows that leave out no line of a log, and samples of so many matches.
AllLines(rows, log) ==
    LET lo == Min({r.from : r \in rows})
        hi == Max({r.to : r \in rows})
        inRow(r) == {i \in DOMAIN log : IF TimeOf(log, i) = NoTime THEN r.from = lo
                                        ELSE r.from <= TimeOf(log, i) /\ TimeOf(log, i) < r.to}
    IN  /\ lo <= FirstLine(log) /\ LastLine(log) < hi
        /\ \A r \in rows : /\ r.to = hi \/ \E s \in rows : s.from = r.to
                           /\ r.lines = Cardinality(inRow(r))
                           /\ r.hits = Cardinality(inRow(r) \cap Hits(log))
                           /\ r.hits = 0 => \A s \in rows : s.from = r.to => s.hits > 0
        /\ \A i \in DOMAIN log : \E r \in rows : {s \in rows : i \in inRow(s)} = {r}
AllSamples(samples, hits, asked) ==
    /\ samples \subseteq 0 .. hits - 1
    /\ Cardinality(samples) = IF asked <= 0 THEN 0 ELSE Least(hits, asked)
    /\ asked > 0 /\ hits > 0 => 0 \in samples
    /\ asked > 1 /\ hits > 0 => hits - 1 \in samples

\* The rows of a summary leave out no line of the log and count none twice, rows without
\* matches are joined, and its samples are of as many matches as asked for up to the
\* limit, or all there are, the first and the last among them (_summarize_log, _buckets,
\* _spread).
THEOREM SummaryKept == Spec => []SummaryComplete
<1>1. IInv => SummaryComplete
    <2> SUFFICES ASSUME IInv, Told("summarize"), answer.rows # {} PROVE SummaryComplete BY DEF SummaryComplete
    <2> DEFINE in == call.in
               log == in.log
               first == FirstLine(log)
               last == LastLine(log)
               w == Width(first, last, in.asked)
               hits == Cardinality(Hits(log))
    <2>1. in \in SummaryInputs BY InputsOfTool DEF Told, IInv, Inputs
    <2>2. answer = Summary(in) BY DEF Told, IInv, WorkedOut
    <2>3. /\ answer.matches = hits
          /\ answer.samples = Spread(hits, Clamped(in.samples))
          /\ answer.rows = IF first = NoTime THEN {} ELSE Rows(log, w)
        BY <2>2 DEF Summary
    <2>4. first # NoTime /\ answer.rows = Rows(log, w) BY <2>3
    <2>5. NoTime \notin Int /\ log \in Seq(LogLines) /\ InOrder(log) /\ in.asked \in Nat \ {0}
          /\ in.samples \in Int /\ MaxSamples \in Nat
        BY <2>1, SummaryAssumption
    <2>6. w \in Nat \ {0}
        <3>1. first \in Nat /\ last \in Nat BY <2>4, <2>5, LogSpan
        <3> QED BY <2>5, <3>1, WidthAsked
    <2>7. hits \in Nat
        <3>1. Hits(log) \in SUBSET (1 .. Len(log)) /\ Len(log) \in Int BY <2>5, LenProperties DEF Hits
        <3>2. IsFiniteSet(1 .. Len(log)) BY <3>1, FS_Interval
        <3>3. IsFiniteSet(Hits(log)) BY <3>1, <3>2, FS_Subset
        <3> QED BY <3>3, FS_CardinalityType
    <2>8. AllLines(Rows(log, w), log)
        <3> HIDE DEF w
        <3> QED BY <2>4, <2>5, <2>6, RowsComplete DEF AllLines
    <2> DEFINE k == Clamped(in.samples)
               most == Least(in.samples, MaxSamples)
    <2>a. k \in Nat /\ most \in Int /\ k = IF most <= 0 THEN 0 ELSE most BY <2>5 DEF Clamped, Least
    <2>9. AllSamples(Spread(hits, k), hits, most)
        <3> HIDE DEF hits, k, most
        <3>1. /\ Spread(hits, k) \subseteq 0 .. hits - 1
              /\ Cardinality(Spread(hits, k)) = IF hits < k THEN hits ELSE k
              /\ k > 0 /\ hits > 0 => 0 \in Spread(hits, k)
              /\ k > 1 /\ hits > 0 => hits - 1 \in Spread(hits, k)
            BY <2>7, <2>a, SpreadEven
        <3> QED BY <2>7, <2>a, <3>1 DEF Least, AllSamples
    <2> HIDE DEF w, hits
    <2>10. AllLines(answer.rows, log) BY <2>4, <2>8
    <2>11. AllSamples(answer.samples, answer.matches, most) BY <2>3, <2>9
    <2>12. answer.matches = Cardinality(Hits(log)) BY <2>3 DEF hits
    <2> QED BY <2>10, <2>11, <2>12 DEF SummaryComplete, AllLines, AllSamples
<1> QED BY <1>1, WorkedFromCall, PTL

-----------------------------------------------------------------------------
(* Services and ingresses.                                                 *)

\* The endpoints listed of a service are those of its slices that have an address.
LEMMA ListedOfService ==
    ASSUME NEW slices, slices \in Seq(Range(slices)), NEW service,
           \A l \in Range(slices) : l.endpoints \in Seq(Range(l.endpoints))
    PROVE  /\ Listed(slices, service) \in Seq(UNION {Range(l.endpoints) : l \in Range(slices)})
           /\ Range(Listed(slices, service)) =
                {e \in UNION {Range(l.endpoints) : l \in {l \in Range(slices) : l.service = service}} : e.addresses # <<>>}
<1> DEFINE E == UNION {Range(l.endpoints) : l \in Range(slices)}
           its == {l \in Range(slices) : l.service = service}
           of == Those(slices, its)
           f == [i \in DOMAIN of |-> of[i].endpoints]
           all == FlattenSeq(f)
           with == {e \in Range(all) : e.addresses # <<>>}
<1>1. of \in Seq(Range(slices)) /\ Range(of) = its BY ThoseLemma
<1>2. \A l \in Range(slices) : l.endpoints \in Seq(E)
    <2> SUFFICES ASSUME NEW l \in Range(slices) PROVE l.endpoints \in Seq(E) OBVIOUS
    <2>1. Range(l.endpoints) \subseteq E OBVIOUS
    <2>2. l.endpoints \in Seq(Range(l.endpoints)) OBVIOUS
    <2> HIDE DEF E
    <2> QED BY <2>1, <2>2, SeqDef
<1> HIDE DEF E
<1>3. f \in Seq(Seq(E)) /\ Len(f) = Len(of)
    <2> HIDE DEF of
    <2>1. \A i \in DOMAIN of : of[i].endpoints \in Seq(E) BY <1>1, <1>2, RangeOfNone
    <2>2. f \in [DOMAIN of -> Seq(E)] BY <2>1
    <2>3. f \in Seq(Seq(E)) BY <1>1, <2>2, MappedLemma
    <2>4. DOMAIN f = DOMAIN of OBVIOUS
    <2> HIDE DEF f
    <2> QED BY <1>1, <2>3, <2>4, LenProperties
<1>4. all \in Seq(E) /\ Range(all) = UNION {Range(f[i]) : i \in 1 .. Len(f)}
    <2> HIDE DEF f
    <2> QED BY <1>3, FlattenLemma
<1>5. UNION {Range(f[i]) : i \in 1 .. Len(f)} = UNION {Range(l.endpoints) : l \in its}
    <2> HIDE DEF of
    <2>1. \A i \in 1 .. Len(f) : f[i] = of[i].endpoints /\ of[i] \in its BY <1>1, <1>3, RangeOfNone
    <2>2. \A l \in its : \E i \in 1 .. Len(f) : of[i] = l BY <1>1, <1>3 DEF Range
    <2>3. \A x : (\E i \in 1 .. Len(f) : x \in Range(f[i])) <=> \E l \in its : x \in Range(l.endpoints)
        <3> HIDE DEF f, its
        <3> QED BY <2>1, <2>2
    <2> HIDE DEF f, its
    <2>4. \A x : x \in UNION {Range(f[i]) : i \in 1 .. Len(f)} <=> \E i \in 1 .. Len(f) : x \in Range(f[i])
        BY Zenon
    <2>5. \A x : x \in UNION {Range(l.endpoints) : l \in its} <=> \E l \in its : x \in Range(l.endpoints)
        BY Zenon
    <2> QED BY <2>3, <2>4, <2>5, Zenon
<1>6. Those(all, with) \in Seq(E) /\ Range(Those(all, with)) = Range(all) \cap with
    <2> HIDE DEF all, with
    <2> QED BY <1>4, ThoseLemma
<1>7. Listed(slices, service) = Those(all, with) BY DEF Listed
<1> HIDE DEF of, f
<1> QED BY <1>4, <1>5, <1>6, <1>7 DEF E

\* Of the endpoints listed, those that count stand for all, by pod or address, and
\* as many of them are ready as pods and addresses are, if those agree.
LEMMA CountedOnce ==
    ASSUME NEW S, NEW listed \in Seq(S),
           \A d, e \in Range(listed) : Identity(d) = Identity(e) => IsReady(d) = IsReady(e)
    PROVE  /\ \A e \in Range(listed) : \E i \in Counted(listed) : Identity(listed[i]) = Identity(e)
           /\ Counted(listed) \subseteq DOMAIN listed
           /\ LET ready == {Identity(e) : e \in {e \in Range(listed) : e.ready # FALSE}} IN
              /\ Cardinality({i \in Counted(listed) : IsReady(listed[i])}) = Cardinality(ready)
              /\ IsFiniteSet(ready)
<1> DEFINE ready == {Identity(e) : e \in {e \in Range(listed) : e.ready # FALSE}}
           I == {i \in Counted(listed) : IsReady(listed[i])}
           f == [i \in I |-> Identity(listed[i])]
<1>1. Len(listed) \in Nat /\ DOMAIN listed = 1 .. Len(listed) /\ \A i \in DOMAIN listed : listed[i] \in Range(listed)
    BY LenProperties, RangeOfNone
<1>2. Counted(listed) \subseteq 1 .. Len(listed) BY <1>1 DEF Counted
<1>3. ASSUME NEW e \in Range(listed) PROVE \E i \in Counted(listed) : Identity(listed[i]) = Identity(e)
    <2> DEFINE K == {i \in 1 .. Len(listed) : Identity(listed[i]) = Identity(e)}
    <2>1. K \in SUBSET Nat /\ K # {} BY <1>1 DEF Range
    <2>2. PICK i \in K : \A k \in K : i <= k
        <3> HIDE DEF K
        <3> QED BY <2>1, LeastNumber
    <2>3. \A j \in 1 .. i - 1 : Identity(listed[j]) # Identity(listed[i])
        <3> SUFFICES ASSUME NEW j \in 1 .. i - 1, j \in K PROVE FALSE BY <1>1, <2>2
        <3> QED BY <1>1, <2>2
    <2> QED BY <1>1, <2>2, <2>3 DEF Counted
<1>4. f \in [I -> ready] BY <1>1, <1>2 DEF IsReady
<1>5. \A i, j \in I : f[i] = f[j] => i = j BY <1>1, <1>2 DEF Counted
<1>6. \A x \in ready : \E i \in I : f[i] = x
    <2> SUFFICES ASSUME NEW e \in Range(listed), e.ready # FALSE PROVE \E i \in I : f[i] = Identity(e) OBVIOUS
    <2>1. PICK i \in Counted(listed) : Identity(listed[i]) = Identity(e) BY <1>3
    <2>2. listed[i] \in Range(listed) /\ IsReady(e) BY <1>1, <1>2 DEF IsReady
    <2>3. IsReady(listed[i]) BY <2>1, <2>2
    <2> QED BY <2>1, <2>3
<1>7. IsFiniteSet(I)
    <2>1. IsFiniteSet(1 .. Len(listed)) BY <1>1, FS_Interval
    <2>2. I \in SUBSET (1 .. Len(listed)) BY <1>2
    <2> HIDE DEF I
    <2> QED BY <2>1, <2>2, FS_Subset
<1>8. ExistsBijection(I, ready)
    <2> HIDE DEF f, I, ready
    <2> QED BY <1>4, <1>5, <1>6 DEF ExistsBijection, Bijection, Injection, Surjection, IsInjective
<1>9. Cardinality(I) = Cardinality(ready) /\ IsFiniteSet(ready)
    <2> HIDE DEF f, I, ready
    <2> QED BY <1>7, <1>8, FS_Bijection
<1> QED BY <1>1, <1>2, <1>3, <1>9

\* Endpoints says of each service how many of its pods and addresses are ready, and
\* which pods are behind it.
LEMMA EndpointsOfService ==
    ASSUME NEW in \in RouteInputs, NEW service,
           \A d, e \in Range(Listed(in.slices, service)) : Identity(d) = Identity(e) => IsReady(d) = IsReady(e)
    PROVE  LET behind == Range(Listed(in.slices, service))
               ready == {Identity(e) : e \in {e \in behind : e.ready # FALSE}}
               services == DOMAIN Endpoints(in.slices) IN
           /\ service \in services => Endpoints(in.slices)[service].ready = Cardinality(ready)
           /\ service \notin services => behind = {}
           /\ (\E e \in behind : e.pod \in in.pods) <=>
                service \in services /\ Endpoints(in.slices)[service].pods \cap in.pods # {}
           /\ Cardinality(ready) \in Nat
           /\ Cardinality(ready) = 0 <=> ready = {}
<1> DEFINE slices == in.slices
           listed == Listed(slices, service)
           behind == Range(listed)
           counted == Counted(listed)
           ready == {Identity(e) : e \in {e \in behind : e.ready # FALSE}}
           E == UNION {Range(l.endpoints) : l \in Range(slices)}
<1>1. /\ slices \in Seq(Range(slices))
      /\ \A l \in Range(slices) : l.endpoints \in Seq(Range(l.endpoints))
      /\ \A l \in Range(slices) : \A e \in Range(l.endpoints) :
            e.addresses # <<>> => e.pod # NoPod \/ e.addresses[1] \notin in.pods
      /\ NoPod \notin in.pods
    BY RouteAssumption
<1>2. /\ listed \in Seq(E)
      /\ behind = {e \in UNION {Range(l.endpoints) : l \in {l \in Range(slices) : l.service = service}} : e.addresses # <<>>}
    BY <1>1, ListedOfService
<1>3. /\ \A e \in behind : \E i \in counted : Identity(listed[i]) = Identity(e)
      /\ \A i \in counted : listed[i] \in behind
      /\ Cardinality({i \in counted : IsReady(listed[i])}) = Cardinality(ready)
      /\ IsFiniteSet(ready)
    <2>1. \A i \in DOMAIN listed : listed[i] \in behind BY <1>2, RangeOfNone
    <2> QED BY <1>2, <2>1, CountedOnce
<1>4. DOMAIN Endpoints(slices) = {l.service : l \in Range(slices)} BY DEF Endpoints
<1>5. service \notin DOMAIN Endpoints(slices) => behind = {}
    <2> HIDE DEF listed
    <2> QED BY <1>2, <1>4
<1>6. service \in DOMAIN Endpoints(slices) =>
        /\ Endpoints(slices)[service].ready = Cardinality(ready)
        /\ Endpoints(slices)[service].pods = {listed[i].pod : i \in counted} \ {NoPod}
    <2> DEFINE pods == {listed[i].pod : i \in counted} \ {NoPod}
               count == Cardinality({i \in counted : IsReady(listed[i])})
               terminating == Cardinality({i \in counted : listed[i].terminating})
               notReady == Cardinality({i \in counted : ~IsReady(listed[i]) /\ ~listed[i].terminating})
    <2> SUFFICES ASSUME service \in DOMAIN Endpoints(slices)
                 PROVE  Endpoints(slices)[service].ready = count /\ Endpoints(slices)[service].pods = pods
        BY <1>3
    <2>1. Endpoints(slices)[service] =
            [pods |-> pods, ready |-> count, terminating |-> terminating, notReady |-> notReady]
        BY Zenon, <1>4 DEF Endpoints
    <2> HIDE DEF pods, count, terminating, notReady
    <2> QED BY <2>1
<1>7. (\E e \in behind : e.pod \in in.pods) <=> ({listed[i].pod : i \in counted} \ {NoPod}) \cap in.pods # {}
    <2>1. ASSUME NEW e \in behind, e.pod \in in.pods PROVE \E i \in counted : listed[i].pod \in in.pods
        <3>1. PICK i \in counted : Identity(listed[i]) = Identity(e) BY <1>3
        <3>2. Identity(e) = e.pod BY <1>1, <2>1 DEF Identity
        <3>3. listed[i].pod # NoPod \/ listed[i].addresses[1] \notin in.pods
            <4>1. listed[i] \in behind BY <1>3
            <4> HIDE DEF listed
            <4> QED BY <1>1, <1>2, <4>1
        <3> QED BY <2>1, <3>1, <3>2, <3>3 DEF Identity
    <2> HIDE DEF listed, counted
    <2> QED BY <1>1, <1>3, <2>1
<1>8. Cardinality(ready) \in Nat /\ (Cardinality(ready) = 0 <=> ready = {})
    <2> HIDE DEF ready
    <2> QED BY <1>3, FS_CardinalityType, FS_EmptySet
<1> HIDE DEF listed, counted, ready
<1>9. (\E e \in behind : e.pod \in in.pods) <=>
        service \in DOMAIN Endpoints(slices) /\ Endpoints(slices)[service].pods \cap in.pods # {}
    BY <1>5, <1>6, <1>7
<1> QED BY <1>5, <1>6, <1>8, <1>9 DEF listed, ready

\* A rule's backend says what is wrong with it, and how many answer where that is known.
LEMMA BackendOf ==
    ASSUME NEW in \in RouteInputs, NEW r, NEW ready,
           r.service \in DOMAIN Endpoints(in.slices) => Endpoints(in.slices)[r.service].ready = Cardinality(ready),
           r.service \notin DOMAIN Endpoints(in.slices) => Cardinality(ready) = 0,
           Cardinality(ready) \in Nat
    PROVE  LET endpoints == IF in.readable THEN Endpoints(in.slices) ELSE Unreadable
               b == Backend(r, in.services, endpoints)
               offers == /\ r.service \in DOMAIN in.services
                         /\ r.port # NoPort => HasPort(in.services[r.service], r.port)
               known == offers /\ in.readable /\ ~in.services[r.service].external IN
           /\ b.problem # "none" <=> r.service # NoService /\ ~offers
           /\ b.ready # Unreadable <=> known
           /\ known => b.ready = Cardinality(ready)
<1>1. Unreadable \notin Nat /\ Endpoints(in.slices) # Unreadable /\ NoService \notin DOMAIN in.services
    BY RouteAssumption
<1> DEFINE endpoints == IF in.readable THEN Endpoints(in.slices) ELSE Unreadable
           b == Backend(r, in.services, endpoints)
           offers == /\ r.service \in DOMAIN in.services
                     /\ r.port # NoPort => HasPort(in.services[r.service], r.port)
           known == offers /\ in.readable /\ ~in.services[r.service].external
<1>2. endpoints = Unreadable <=> ~in.readable BY <1>1
<1>3. CASE r.service = NoService
    <2>1. b = [problem |-> "none", ready |-> Unreadable] BY <1>3 DEF Backend
    <2> QED BY <1>1, <1>3, <2>1
<1>4. CASE r.service # NoService /\ r.service \notin DOMAIN in.services
    <2>1. b = [problem |-> "service", ready |-> Unreadable] BY <1>4 DEF Backend
    <2> QED BY <1>4, <2>1
<1>5. CASE r.service # NoService /\ r.service \in DOMAIN in.services /\ ~offers
    <2>1. b = [problem |-> "port", ready |-> Unreadable] BY <1>5 DEF Backend
    <2> QED BY <1>5, <2>1
<1>6. CASE r.service # NoService /\ offers
    <2> DEFINE n == IF endpoints = Unreadable \/ in.services[r.service].external THEN Unreadable
                    ELSE IF r.service \in DOMAIN endpoints THEN endpoints[r.service].ready ELSE 0
    <2>1. b = [problem |-> "none", ready |-> n] BY <1>6 DEF Backend
    <2>2. n # Unreadable <=> known BY <1>1, <1>2, <1>6
    <2>3. known => n = Cardinality(ready) BY <1>1, <1>2, <1>6
    <2>4. b.problem = "none" /\ b.ready = n
        <3> HIDE DEF n, b
        <3> QED BY <2>1
    <2> HIDE DEF n, b, known
    <2> QED BY <1>6, <2>2, <2>3, <2>4 DEF known, b
<1> QED BY <1>3, <1>4, <1>5, <1>6

\* The rules in trouble are those no request can follow to a ready pod or address, with
\* the number ready behind each, and a workload's rules those that lead to its pods;
\* however many slices list them, and however often (get_endpoint_summaries,
\* _ingress_backend, _ingress_lines).
THEOREM RoutesServed == Spec => []RoutesAsServed
<1>1. IInv => RoutesAsServed
    <2> SUFFICES ASSUME IInv, Told("routes") PROVE RoutesAsServed BY DEF RoutesAsServed
    <2> DEFINE in == call.in
               behind(s) == {e \in UNION {Range(l.endpoints) : l \in {l \in Range(in.slices) : l.service = s}} :
                                e.addresses # <<>>}
               agreed == \A s \in {l.service : l \in Range(in.slices)} : \A d, e \in behind(s) :
                             Identity(d) = Identity(e) => IsReady(d) = IsReady(e)
               ready(s) == {Identity(e) : e \in {e \in behind(s) : e.ready # FALSE}}
               offers(r) == /\ r.service \in DOMAIN in.services
                            /\ r.port # NoPort => HasPort(in.services[r.service], r.port)
               known(r) == offers(r) /\ in.readable /\ ~in.services[r.service].external
    <2> SUFFICES ASSUME agreed
                 PROVE  /\ {l.rule : l \in answer.trouble} =
                            {r \in in.rules : r.service # NoService /\ (~offers(r) \/ (known(r) /\ ready(r.service) = {}))}
                        /\ \A l \in answer.rules \cup answer.trouble :
                            /\ l.backend.ready # Unreadable <=> known(l.rule)
                            /\ known(l.rule) => l.backend.ready = Cardinality(ready(l.rule.service))
                        /\ in.readable => \A r \in in.rules :
                            (\E e \in behind(r.service) : e.pod \in in.pods) <=> \E l \in answer.rules : l.rule = r
        BY DEF RoutesAsServed
    <2> DEFINE endpoints == IF in.readable THEN Endpoints(in.slices) ELSE Unreadable
               b(r) == Backend(r, in.services, endpoints)
               lines == IngressRules(in.rules, in.services, endpoints)
               services == ServicesFor(endpoints, in.pods)
    <2>1. in \in RouteInputs BY InputsOfTool DEF Told, IInv, Inputs
    <2>2. answer.rules = RulesTo(lines, services) /\ answer.trouble = RulesInTrouble(lines)
        <3>1. answer = RouteAnswer(in) BY DEF Told, IInv, WorkedOut
        <3>2. answer = [services |-> services, rules |-> RulesTo(lines, services), trouble |-> RulesInTrouble(lines)]
            BY <3>1, Zenon DEF RouteAnswer
        <3> HIDE DEF lines, services
        <3> QED BY <3>2
    <2>3. ASSUME NEW s
          PROVE  /\ s \in DOMAIN Endpoints(in.slices) => Endpoints(in.slices)[s].ready = Cardinality(ready(s))
                 /\ s \notin DOMAIN Endpoints(in.slices) => Cardinality(ready(s)) = 0
                 /\ (\E e \in behind(s) : e.pod \in in.pods) <=>
                      s \in DOMAIN Endpoints(in.slices) /\ Endpoints(in.slices)[s].pods \cap in.pods # {}
                 /\ Cardinality(ready(s)) \in Nat
                 /\ Cardinality(ready(s)) = 0 <=> ready(s) = {}
        <3>1. Range(Listed(in.slices, s)) = behind(s) BY <2>1, ListedOfService, RouteAssumption
        <3>2. \A d, e \in behind(s) : Identity(d) = Identity(e) => IsReady(d) = IsReady(e)
            <4>1. CASE s \in {l.service : l \in Range(in.slices)}
                <5> HIDE DEF behind
                <5> QED BY <4>1
            <4>2. CASE s \notin {l.service : l \in Range(in.slices)} BY <4>2
            <4> QED BY <4>1, <4>2
        <3> HIDE DEF behind
        <3>3. ready(s) = {Identity(e) : e \in {e \in Range(Listed(in.slices, s)) : e.ready # FALSE}} BY <3>1
        <3>4. /\ s \in DOMAIN Endpoints(in.slices) => Endpoints(in.slices)[s].ready = Cardinality(ready(s))
              /\ s \notin DOMAIN Endpoints(in.slices) => behind(s) = {}
              /\ (\E e \in behind(s) : e.pod \in in.pods) <=>
                   s \in DOMAIN Endpoints(in.slices) /\ Endpoints(in.slices)[s].pods \cap in.pods # {}
              /\ Cardinality(ready(s)) \in Nat
              /\ Cardinality(ready(s)) = 0 <=> ready(s) = {}
            <4> DEFINE its == Range(Listed(in.slices, s))
                       up == {Identity(e) : e \in {e \in its : e.ready # FALSE}}
            <4> HIDE DEF in, ready
            <4>1. \A d, e \in its : Identity(d) = Identity(e) => IsReady(d) = IsReady(e) BY <3>1, <3>2
            <4>2. /\ s \in DOMAIN Endpoints(in.slices) => Endpoints(in.slices)[s].ready = Cardinality(up)
                  /\ s \notin DOMAIN Endpoints(in.slices) => its = {}
                  /\ (\E e \in its : e.pod \in in.pods) <=>
                       s \in DOMAIN Endpoints(in.slices) /\ Endpoints(in.slices)[s].pods \cap in.pods # {}
                  /\ Cardinality(up) \in Nat
                  /\ Cardinality(up) = 0 <=> up = {}
                BY <2>1, <4>1, EndpointsOfService, Zenon
            <4>3. up = ready(s) BY <3>3
            <4> HIDE DEF up, its
            <4> QED BY <3>1, <4>2, <4>3 DEF its
        <3>5. behind(s) = {} => ready(s) = {} OBVIOUS
        <3> HIDE DEF ready
        <3> QED BY <3>4, <3>5
    <2> HIDE DEF behind, agreed, ready, in
    <2>4. ASSUME NEW r
          PROVE  /\ b(r).problem # "none" <=> r.service # NoService /\ ~offers(r)
                 /\ b(r).ready # Unreadable <=> known(r)
                 /\ known(r) => b(r).ready = Cardinality(ready(r.service))
        BY <2>1, <2>3, BackendOf
    <2>5. lines = {[rule |-> r, backend |-> b(r)] : r \in in.rules} BY DEF IngressRules
    <2> HIDE DEF b, offers, known, lines, services
    <2>6. \A l \in lines : l.rule \in in.rules /\ l.backend = b(l.rule) BY <2>5
    <2>7. \A r \in in.rules : \E l \in lines : l.rule = r /\ l.backend = b(r)
        <3> SUFFICES ASSUME NEW r \in in.rules PROVE \E l \in lines : l.rule = r /\ l.backend = b(r) OBVIOUS
        <3>1. [rule |-> r, backend |-> b(r)] \in lines BY <2>5
        <3> QED BY <3>1
    <2>8. ASSUME NEW r
          PROVE  b(r).problem # "none" \/ b(r).ready = 0 <=>
                    r.service # NoService /\ (~offers(r) \/ (known(r) /\ ready(r.service) = {}))
        <3>1. r.service \in DOMAIN in.services => r.service # NoService BY <2>1, RouteAssumption
        <3>2. known(r) => offers(r) /\ r.service \in DOMAIN in.services BY DEF known, offers
        <3>3. Unreadable # 0 BY RouteAssumption
        <3> QED BY <2>3, <2>4, <3>1, <3>2, <3>3
    <2>9. {l.rule : l \in answer.trouble} =
            {r \in in.rules : r.service # NoService /\ (~offers(r) \/ (known(r) /\ ready(r.service) = {}))}
        <3> DEFINE trouble(r) == r.service # NoService /\ (~offers(r) \/ (known(r) /\ ready(r.service) = {}))
        <3>1. \A r : b(r).problem # "none" \/ b(r).ready = 0 <=> trouble(r) BY <2>8
        <3> HIDE DEF trouble
        <3>2. {l.rule : l \in answer.trouble} = {r \in in.rules : trouble(r)}
            BY <2>2, <2>6, <2>7, <3>1 DEF RulesInTrouble, Broken
        <3> QED BY <3>2 DEF trouble
    <2>10. \A l \in answer.rules \cup answer.trouble :
                /\ l.backend.ready # Unreadable <=> known(l.rule)
                /\ known(l.rule) => l.backend.ready = Cardinality(ready(l.rule.service))
        BY <2>2, <2>4, <2>6 DEF RulesTo, RulesInTrouble
    <2>11. ASSUME in.readable, NEW r \in in.rules
           PROVE  (\E e \in behind(r.service) : e.pod \in in.pods) <=> \E l \in answer.rules : l.rule = r
        <3>1. endpoints = Endpoints(in.slices) /\ endpoints # Unreadable BY <2>1, <2>11, RouteAssumption
        <3>2. r.service \in services <=>
                r.service \in DOMAIN Endpoints(in.slices) /\ Endpoints(in.slices)[r.service].pods \cap in.pods # {}
            BY <3>1 DEF services, ServicesFor
        <3>3. (\E l \in answer.rules : l.rule = r) <=> r.service \in services BY <2>2, <2>7 DEF RulesTo
        <3> QED BY <2>3, <3>2, <3>3
    <2> QED BY <2>9, <2>10, <2>11
<1> QED BY <1>1, WorkedFromCall, PTL

-----------------------------------------------------------------------------
(* A replayed log.                                                         *)

\* A log moved is each of its lines moved.
Later(shift) == [l \in LogLines |-> IF l.time = NoTime THEN l ELSE [l EXCEPT !.time = @ + shift]]

LEMMA MovedLog ==
    ASSUME NEW log \in Seq(LogLines), NEW shift \in Nat
    PROVE  /\ Later(shift) \in [LogLines -> LogLines]
           /\ \A l \in LogLines :
                Later(shift)[l].time = IF l.time = NoTime THEN NoTime ELSE l.time + shift
           /\ Moved(log, shift) = Mapped(log, Later(shift))
           /\ Moved(log, shift) \in Seq(LogLines) /\ Len(Moved(log, shift)) = Len(log)
           /\ \A i \in 1 .. Len(log) : Moved(log, shift)[i] = Later(shift)[log[i]]
<1>1. Len(log) \in Nat /\ DOMAIN log = 1 .. Len(log) /\ \A i \in DOMAIN log : log[i] \in LogLines BY LenProperties
<1>2. ASSUME NEW l \in LogLines
      PROVE  /\ Later(shift)[l] \in LogLines
             /\ Later(shift)[l].time = IF l.time = NoTime THEN NoTime ELSE l.time + shift
    <2>1. l.time \in Nat \cup {NoTime} /\ l.hit \in BOOLEAN BY DEF LogLines
    <2>2. CASE l.time = NoTime BY <2>2 DEF Later
    <2>3. CASE l.time # NoTime
        <3>1. l.time + shift \in Nat BY <2>1, <2>3
        <3>2. Later(shift)[l] = [l EXCEPT !.time = l.time + shift] BY <2>3 DEF Later
        <3> QED BY <2>3, <3>1, <3>2 DEF LogLines
    <2> QED BY <2>2, <2>3
<1>3. Later(shift) \in [LogLines -> LogLines] BY <1>2 DEF Later
<1>4. Moved(log, shift) = Mapped(log, Later(shift)) BY <1>1 DEF Moved, Mapped, Later
<1>5. Mapped(log, Later(shift)) \in Seq(LogLines) /\ Len(Mapped(log, Later(shift))) = Len(log)
    <2>1. \A i \in DOMAIN log : Later(shift)[log[i]] \in LogLines BY <1>1, <1>2
    <2> QED BY <1>1, <2>1 DEF Mapped
<1>6. \A i \in 1 .. Len(log) : Mapped(log, Later(shift))[i] = Later(shift)[log[i]] BY <1>1 DEF Mapped
<1> QED BY <1>2, <1>3, <1>4, <1>5, <1>6

\* It starts as much later.
LEMMA MovedStart ==
    ASSUME NEW log \in Seq(LogLines), NEW shift \in Nat
    PROVE  /\ Stamped(Moved(log, shift)) = Stamped(log)
           /\ FirstLine(Moved(log, shift)) = IF FirstLine(log) = NoTime THEN NoTime ELSE FirstLine(log) + shift
           /\ FirstLine(log) \in Nat \cup {NoTime}
           /\ FirstLine(log) = NoTime <=> Stamped(log) = {}
<1>0. NoTime \notin Int BY SummaryAssumption
<1>1. /\ Len(log) \in Nat /\ DOMAIN log = 1 .. Len(log)
      /\ \A i \in DOMAIN log : log[i] \in LogLines /\ log[i].time \in Nat \cup {NoTime}
    <2>1. \A l \in LogLines : l.time \in Nat \cup {NoTime} BY DEF LogLines
    <2> QED BY <2>1, LenProperties
<1>2. DOMAIN Moved(log, shift) = DOMAIN log BY DEF Moved
<1>3. ASSUME NEW i \in DOMAIN log
      PROVE  Moved(log, shift)[i].time = IF log[i].time = NoTime THEN NoTime ELSE log[i].time + shift
    <2>1. i \in 1 .. Len(log) /\ log[i] \in LogLines BY <1>1
    <2>2. Moved(log, shift)[i] = Later(shift)[log[i]] BY <2>1, MovedLog
    <2>3. Later(shift)[log[i]].time = IF log[i].time = NoTime THEN NoTime ELSE log[i].time + shift BY <2>1, MovedLog
    <2> QED BY <2>2, <2>3
<1>4. Stamped(Moved(log, shift)) = Stamped(log) BY <1>0, <1>1, <1>2, <1>3 DEF Stamped
<1>5. CASE Stamped(log) = {} BY <1>4, <1>5 DEF FirstLine
<1>6. CASE Stamped(log) # {}
    <2> DEFINE k == Min(Stamped(log))
    <2>1. Stamped(log) \in SUBSET Nat BY <1>1 DEF Stamped
    <2>2. k \in Stamped(log) BY <1>6, <2>1, MinIsLeast
    <2>3. FirstLine(log) = log[k].time /\ FirstLine(Moved(log, shift)) = Moved(log, shift)[k].time
        BY <1>4, <1>6 DEF FirstLine
    <2> HIDE DEF k
    <2>4. k \in DOMAIN log /\ log[k].time # NoTime BY <2>2 DEF Stamped
    <2> QED BY <1>1, <1>3, <1>4, <1>6, <2>3, <2>4
<1> QED BY <1>5, <1>6

\* Its last lines are its last lines moved.
LEMMA MovedEnd ==
    ASSUME NEW log \in Seq(LogLines), NEW shift \in Nat, NEW tail \in Nat \cup {NoTime}
    PROVE  /\ LastLines(log, tail) \in Seq(LogLines)
           /\ Range(LastLines(log, tail)) \subseteq Range(log)
           /\ LastLines(Moved(log, shift), tail) = Moved(LastLines(log, tail), shift)
<1> DEFINE n == IF tail = NoTime THEN MaxTail ELSE tail
           from == IF Len(log) > n THEN Len(log) - n + 1 ELSE 1
           to == Len(log)
           size == IF from <= to THEN to - from + 1 ELSE 0
           moved == Moved(log, shift)
<1>1. n \in Nat BY ReadAssumption
<1>2. to \in Nat /\ from \in Nat \ {0} BY <1>1, LenProperties
<1>3. \A i \in from .. to : i \in 1 .. Len(log) /\ log[i] \in LogLines BY <1>2, LenProperties
<1>4. moved \in Seq(LogLines) /\ Len(moved) = Len(log) /\ \A i \in 1 .. Len(log) : moved[i] = Later(shift)[log[i]]
    BY MovedLog
<1>5. LastLines(log, tail) = SubSeq(log, from, to) /\ LastLines(moved, tail) = SubSeq(moved, from, to)
    BY <1>4 DEF LastLines
<1>0. NoTime \notin Int BY SummaryAssumption
<1> HIDE DEF n, from, moved, to
<1>6. /\ SubSeq(log, from, to) \in Seq(LogLines) /\ Len(SubSeq(log, from, to)) = size
      /\ \A i \in 1 .. to - from + 1 : SubSeq(log, from, to)[i] = log[from + i - 1]
    BY <1>2, <1>3, SubSeqProperties
<1>7. /\ SubSeq(moved, from, to) \in Seq(LogLines) /\ Len(SubSeq(moved, from, to)) = size
      /\ \A i \in 1 .. to - from + 1 : SubSeq(moved, from, to)[i] = moved[from + i - 1]
    <2>1. \A i \in from .. to : moved[i] \in LogLines BY <1>3, <1>4, LenProperties
    <2> QED BY <1>2, <2>1, SubSeqProperties
<1>8. size \in Nat /\ 1 .. size = 1 .. to - from + 1 BY <1>2
<1>9. \A i \in 1 .. size : from + i - 1 \in from .. to BY <1>2
<1> HIDE DEF size
<1> DEFINE part == SubSeq(log, from, to)
<1>10. /\ Moved(part, shift) \in Seq(LogLines) /\ Len(Moved(part, shift)) = size
       /\ \A i \in 1 .. size : Moved(part, shift)[i] = Later(shift)[part[i]]
    <2> HIDE DEF part
    <2>1. part \in Seq(LogLines) /\ Len(part) = size /\ DOMAIN part = 1 .. size BY <1>6, LenProperties DEF part
    <2> QED BY <2>1, MovedLog
<1>11. \A i \in 1 .. size : SubSeq(moved, from, to)[i] = Moved(part, shift)[i]
    <2> SUFFICES ASSUME NEW i \in 1 .. size PROVE SubSeq(moved, from, to)[i] = Moved(part, shift)[i] OBVIOUS
    <2> DEFINE k == from + i - 1
    <2>1. k \in 1 .. Len(log) BY <1>3, <1>9
    <2>2. SubSeq(moved, from, to)[i] = moved[k] /\ part[i] = log[k] BY <1>6, <1>7, <1>8
    <2>3. Moved(part, shift)[i] = Later(shift)[part[i]] BY <1>10
    <2> HIDE DEF part, k
    <2> QED BY <1>4, <2>1, <2>2, <2>3
<1>12. SubSeq(moved, from, to) = Moved(part, shift)
    <2> HIDE DEF part
    <2> QED BY <1>7, <1>10, <1>11, SeqEqual
<1>13. Range(part) \subseteq Range(log)
    <2>1. \A i \in 1 .. size : part[i] \in Range(log) BY <1>3, <1>6, <1>8, <1>9, RangeOfNone
    <2>2. DOMAIN part = 1 .. size BY <1>6, LenProperties
    <2> HIDE DEF part
    <2> QED BY <2>1, <2>2 DEF Range
<1> QED BY <1>5, <1>6, <1>12, <1>13 DEF moved

\* What a replayed read keeps by time is what the live read kept, moved.
LEMMA MovedSince ==
    ASSUME NEW in \in ReadInputs
    PROVE  LET within(l) == in.since = NoTime \/ l.time = NoTime \/ l.time >= in.elapsed - in.since
               recent == Those(in.log, {l \in Range(in.log) : within(l)}) IN
           /\ recent \in Seq(LogLines) /\ Range(recent) \subseteq Range(in.log)
           /\ Since(Moved(in.log, in.shift), in) = Moved(recent, in.shift)
<1> DEFINE log == in.log
           within(l) == in.since = NoTime \/ l.time = NoTime \/ l.time >= in.elapsed - in.since
           T == {l \in Range(log) : within(l)}
           recent == Those(log, T)
           whole == Moved(log, in.shift)
           U == {l \in Range(whole) : l.time = NoTime \/ l.time >= in.shift + in.elapsed - in.since}
<1>0. NoTime \notin Int BY SummaryAssumption
<1>1. /\ log \in Seq(LogLines) /\ in.shift \in Nat /\ in.elapsed \in Nat /\ in.since \in Nat \cup {NoTime}
    BY ReadAssumption
<1>2. recent \in Seq(LogLines) /\ Range(recent) = Range(log) \cap T
    <2> HIDE DEF T
    <2> QED BY <1>1, ThoseLemma
<1>3. /\ Later(in.shift) \in [LogLines -> LogLines]
      /\ \A l \in LogLines : Later(in.shift)[l].time = IF l.time = NoTime THEN NoTime ELSE l.time + in.shift
      /\ whole = Mapped(log, Later(in.shift)) /\ whole \in Seq(LogLines) /\ Len(whole) = Len(log)
      /\ \A i \in 1 .. Len(log) : whole[i] = Later(in.shift)[log[i]]
    BY <1>1, MovedLog
<1>4. \A l \in LogLines : l.time \in Nat \cup {NoTime} BY DEF LogLines
<1>5. /\ Len(log) \in Nat /\ DOMAIN log = 1 .. Len(log) /\ DOMAIN whole = 1 .. Len(log)
      /\ \A i \in 1 .. Len(log) : log[i] \in LogLines
    BY <1>1, <1>3, LenProperties
<1>6. CASE in.since = NoTime \/ Stamped(whole) = {}
    <2>1. Since(whole, in) = whole BY <1>6 DEF Since
    <2>2. Range(log) \subseteq T
        <3>1. CASE in.since = NoTime BY <3>1
        <3>2. CASE Stamped(whole) = {}
            <4>1. Stamped(log) = {} BY <1>1, <3>2, MovedStart
            <4>2. \A i \in DOMAIN log : log[i].time = NoTime BY <4>1 DEF Stamped
            <4> QED BY <4>2 DEF Range
        <3> QED BY <1>6, <3>1, <3>2
    <2>3. recent = log
        <3> HIDE DEF T
        <3> QED BY <1>1, <2>2, ThoseAll
    <2> QED BY <1>2, <2>1, <2>3
<1>7. CASE in.since # NoTime /\ Stamped(whole) # {}
    <2>1. Since(whole, in) = Those(whole, U) BY <1>7 DEF Since
    <2>2. ASSUME NEW l \in Range(log) PROVE l \in T <=> Later(in.shift)[l] \in U
        <3>1. PICK i \in 1 .. Len(log) : l = log[i] BY <1>5 DEF Range
        <3>2. Later(in.shift)[l] \in Range(whole) BY <1>3, <1>5, <3>1 DEF Range
        <3>3. l.time \in Nat \cup {NoTime} /\ Later(in.shift)[l].time = IF l.time = NoTime THEN NoTime ELSE l.time + in.shift
            BY <1>3, <1>4, <1>5, <3>1
        <3>4. in.since \in Nat BY <1>1, <1>7
        <3> QED BY <1>0, <1>1, <1>7, <3>2, <3>3, <3>4
    <2>3. Those(whole, U) = Mapped(recent, Later(in.shift))
        <3>1. TakesTo(Later(in.shift), log, T, U) BY <2>2 DEF TakesTo
        <3> HIDE DEF T, U, whole, log
        <3>2. Those(Mapped(log, Later(in.shift)), U) = Mapped(Those(log, T), Later(in.shift))
            BY <1>1, <1>3, <3>1, ThoseMapped
        <3>3. whole = Mapped(log, Later(in.shift)) BY <1>3
        <3>4. recent = Those(log, T) BY DEF log
        <3> HIDE DEF recent
        <3> QED BY <3>2, <3>3, <3>4
    <2>4. Moved(recent, in.shift) = Mapped(recent, Later(in.shift))
        <3> HIDE DEF recent
        <3> QED BY <1>1, <1>2, MovedLog
    <2> QED BY <1>2, <2>1, <2>3, <2>4
<1> QED BY <1>2, <1>6, <1>7

\* Replayed, a read of any log gives the lines that the live one gave at the
\* capture's time, as much later as the replay has run, and says that earlier lines
\* are left out, in the log or of the capture, exactly when they are
\* (_slice_log, _reanchor_log, _log_extent_note).
THEOREM ReplayHonest == Spec => []ReplayedLogHonest
<1>1. IInv => ReplayedLogHonest
    <2> SUFFICES ASSUME IInv, Told("read") PROVE ReplayedLogHonest BY DEF ReplayedLogHonest
    <2> DEFINE in == call.in
               within(l) == in.since = NoTime \/ l.time = NoTime \/ l.time >= in.elapsed - in.since
               recent == Those(in.log, {l \in Range(in.log) : within(l)})
               live == LastLines(recent, in.tail)
               shown == FirstLine(live)
               dropped == Len(recent) > Len(live) \/ in.since = NoTime
               whole == Moved(in.log, in.shift)
               began == IF in.began = NoTime THEN NoTime ELSE in.began + in.shift
               moved == Moved(recent, in.shift)
               text == Moved(live, in.shift)
               note == IF Len(text) < Len(moved) \/ in.since = NoTime
                       THEN ExtentNote(FirstLine(text), FirstLine(whole), began) ELSE {}
    <2>0. NoTime \notin Int BY SummaryAssumption
    <2>1. in \in ReadInputs BY InputsOfTool DEF Told, IInv, Inputs
    <2>2. answer = ReplayedRead(in) BY DEF Told, IInv, WorkedOut
    <2> HIDE DEF in
    <2>3. /\ in.log \in Seq(LogLines) /\ InOrder(in.log) /\ in.shift \in Nat
          /\ in.tail \in Nat \cup {NoTime} /\ in.began \in Nat \cup {NoTime}
        BY <2>1, ReadAssumption
    <2>4. recent \in Seq(LogLines) /\ Range(recent) \subseteq Range(in.log) /\ Since(whole, in) = moved
        BY <2>1, MovedSince
    <2> HIDE DEF recent
    <2>5. live \in Seq(LogLines) /\ Range(live) \subseteq Range(recent) /\ LastLines(moved, in.tail) = text
        BY <2>3, <2>4, MovedEnd
    <2> HIDE DEF live
    <2>6. Len(moved) = Len(recent) /\ Len(text) = Len(live) BY <2>3, <2>4, <2>5, MovedLog
    <2>7. answer.text = text /\ answer.note = note
        <3>1. ReplayedRead(in) = [text |-> text, note |-> note] BY <2>4, <2>5, Zenon DEF ReplayedRead
        <3> HIDE DEF text, note
        <3> QED BY <2>2, <3>1
    <2>8. /\ FirstLine(whole) = IF FirstLine(in.log) = NoTime THEN NoTime ELSE FirstLine(in.log) + in.shift
          /\ FirstLine(in.log) \in Nat \cup {NoTime}
          /\ FirstLine(in.log) = NoTime <=> Stamped(in.log) = {}
          /\ FirstLine(text) = IF shown = NoTime THEN NoTime ELSE shown + in.shift
          /\ shown \in Nat \cup {NoTime}
          /\ shown = NoTime <=> Stamped(live) = {}
        BY <2>3, <2>5, MovedStart
    <2>9. shown # NoTime => FirstLine(in.log) # NoTime
        <3> SUFFICES ASSUME NEW i \in Stamped(live) PROVE Stamped(in.log) # {} BY <2>8
        <3>1. live[i] \in Range(in.log) /\ live[i].time # NoTime BY <2>4, <2>5, RangeOfNone DEF Stamped
        <3> QED BY <3>1 DEF Range, Stamped
    <2>10. ASSUME shown # NoTime
           PROVE  FirstLine(in.log) < shown <=> \E i \in Stamped(in.log) : in.log[i].time < shown
        <3> DEFINE k == Min(Stamped(in.log))
        <3>1. Stamped(in.log) # {} BY <2>8, <2>9, <2>10
        <3>2. Stamped(in.log) \in SUBSET Nat BY <2>3, LenProperties DEF Stamped
        <3>3. k \in Stamped(in.log) /\ \A i \in Stamped(in.log) : k <= i BY <3>1, <3>2, MinIsLeast
        <3>4. FirstLine(in.log) = in.log[k].time BY <3>1 DEF FirstLine
        <3> HIDE DEF k
        <3>5. \A i \in Stamped(in.log) : in.log[i].time \in Nat
            <4>1. \A l \in LogLines : l.time \in Nat \cup {NoTime} BY DEF LogLines
            <4> QED BY <2>3, <4>1 DEF Stamped
        <3>6. \A i \in Stamped(in.log) : in.log[k].time <= in.log[i].time
            <4> SUFFICES ASSUME NEW i \in Stamped(in.log) PROVE in.log[k].time <= in.log[i].time OBVIOUS
            <4>1. CASE k = i BY <3>5, <4>1
            <4>2. CASE k < i BY <2>3, <3>3, <4>2 DEF InOrder
            <4> QED BY <3>2, <3>3, <4>1, <4>2
        <3> QED BY <2>8, <2>10, <3>3, <3>4, <3>5, <3>6
    <2> HIDE DEF text, moved, whole
    <2>11. Len(text) < Len(moved) \/ in.since = NoTime <=> dropped
        <3>1. Len(recent) \in Nat /\ Len(live) \in Nat BY <2>4, <2>5, LenProperties
        <3> QED BY <2>6, <3>1
    <2> HIDE DEF dropped, shown
    <2>12. "older" \in note <=> dropped /\ shown # NoTime /\ \E i \in Stamped(in.log) : in.log[i].time < shown
        <3>1. "older" \in note <=>
                dropped /\ FirstLine(text) # NoTime /\ FirstLine(whole) # NoTime /\ FirstLine(whole) < FirstLine(text)
            BY <2>11 DEF ExtentNote
        <3>2. FirstLine(text) # NoTime <=> shown # NoTime BY <2>0, <2>3, <2>8
        <3>3. shown # NoTime => (FirstLine(whole) < FirstLine(text) <=> FirstLine(in.log) < shown)
                                /\ FirstLine(whole) # NoTime
            BY <2>0, <2>3, <2>8, <2>9
        <3> QED BY <2>10, <3>1, <3>2, <3>3
    <2>13. "unrecorded" \in note <=> dropped /\ shown # NoTime /\ in.began # NoTime /\ in.began < FirstLine(in.log)
        <3> DEFINE from == IF FirstLine(whole) # NoTime THEN FirstLine(whole) ELSE FirstLine(text)
        <3>1. "unrecorded" \in note <=> dropped /\ FirstLine(text) # NoTime /\ began # NoTime /\ began < from
            BY <2>11 DEF ExtentNote
        <3>2. FirstLine(text) # NoTime <=> shown # NoTime BY <2>0, <2>3, <2>8
        <3>3. shown # NoTime => FirstLine(in.log) \in Nat /\ from = FirstLine(in.log) + in.shift
            BY <2>0, <2>3, <2>8, <2>9
        <3>4. began # NoTime <=> in.began # NoTime BY <2>0, <2>3
        <3>5. in.began # NoTime => began = in.began + in.shift /\ in.began \in Nat BY <2>3
        <3> HIDE DEF from, began
        <3> QED BY <2>3, <3>1, <3>2, <3>3, <3>4, <3>5
    <2> QED BY <2>7, <2>12, <2>13 DEF ReplayedLogHonest, in, recent, live, dropped, shown, text
<1> QED BY <1>1, WorkedFromCall, PTL

-----------------------------------------------------------------------------
(* Jobs and claims.                                                        *)

\* The first of the youngest of some objects is one that none is younger than.
LEMMA YoungestIs ==
    ASSUME NEW S, NEW s \in Seq(S), s # <<>>, \A x \in Range(s) : x.age \in Nat
    PROVE  Youngest(s) \in Range(s) /\ \A x \in Range(s) : Youngest(s).age <= x.age
<1>0. Len(s) \in Nat /\ DOMAIN s = 1 .. Len(s) /\ Len(s) # 0 BY LenProperties, EmptySeq
<1>1. \A i \in DOMAIN s : s[i] \in Range(s) BY DEF Range
<1>2. \A x \in Range(s) : \E i \in DOMAIN s : x = s[i] BY DEF Range
<1> DEFINE ages == {s[i].age : i \in DOMAIN s}
           young == {i \in DOMAIN s : \A j \in DOMAIN s : s[i].age <= s[j].age}
<1>3. young \in SUBSET Nat /\ young # {}
    <2>1. ages \in SUBSET Nat
        <3>1. \A i \in DOMAIN s : s[i].age \in Nat BY <1>1
        <3> QED BY <3>1
    <2>2. ages # {}
        <3>1. 1 \in DOMAIN s BY <1>0
        <3>2. s[1].age \in ages BY <3>1
        <3> QED BY <3>2
    <2>3. PICK a \in ages : \A b \in ages : a <= b
        <3> HIDE DEF ages
        <3> QED BY <2>1, <2>2, LeastNumber
    <2>4. PICK i \in DOMAIN s : a = s[i].age OBVIOUS
    <2>5. young # {} BY <2>3, <2>4
    <2>6. DOMAIN s \subseteq Nat /\ young \subseteq DOMAIN s BY <1>0
    <2> HIDE DEF young
    <2> QED BY <2>5, <2>6
<1>4. Min(young) \in young
    <2> HIDE DEF young
    <2> QED BY <1>3, MinIsLeast
<1>5. Youngest(s) = s[Min(young)] BY DEF Youngest
<1> QED BY <1>1, <1>2, <1>4, <1>5

\* The pod a Job's log is read of is the Job's and none of the Job's is younger.
LEMMA LatestOf ==
    ASSUME NEW S, NEW pods \in Seq(S), \A p \in Range(pods) : p.age \in Nat, NEW job
    PROVE  LET its == {p \in Range(pods) : p.job = job} IN
           IF its = {} THEN LatestPod(pods, job) = NoPodOf
           ELSE \E p \in its : LatestPod(pods, job) = p.name /\ \A q \in its : p.age <= q.age
<1> DEFINE its == {p \in Range(pods) : p.job = job}
           of == Those(pods, its)
<1>1. of \in Seq(S) /\ Range(of) = its
    <2>1. Range(pods) \cap its = its OBVIOUS
    <2> QED BY <2>1, ThoseLemma
<1>2. LatestPod(pods, job) = IF of = <<>> THEN NoPodOf ELSE Youngest(of).name BY DEF LatestPod
<1>3. of = <<>> <=> its = {}
    <2> HIDE DEF of, its
    <2> QED BY <1>1, RangeOfNone
<1>4. CASE of # <<>>
    <2>1. \A x \in Range(of) : x.age \in Nat BY <1>1
    <2> HIDE DEF of, its
    <2>2. Youngest(of) \in Range(of) /\ \A x \in Range(of) : Youngest(of).age <= x.age BY <1>1, <1>4, <2>1, YoungestIs
    <2> QED BY <1>1, <1>2, <1>3, <1>4, <2>2 DEF its
<1> QED BY <1>2, <1>3, <1>4

\* With all labels captured, a replay reads the same pod's.
LEMMA LatestReplayed ==
    ASSUME NEW pods, \A p \in Range(pods) : p.labelled, NEW job
    PROVE  ReplayedLatestPod(pods, job) = LatestPod(pods, job)
<1>1. {p \in Range(pods) : p.labelled /\ p.job = job} = {p \in Range(pods) : p.job = job} OBVIOUS
<1> QED BY <1>1 DEF ReplayedLatestPod, LatestPod

\* The Job a CronJob's log is of is one of its own that none of them is younger than.
LEMMA LatestJobOf ==
    ASSUME NEW S, NEW jobs \in Seq(S), \A j \in Range(jobs) : j.age \in Nat, NEW cronjob
    PROVE  LET runs == {j \in Range(jobs) : j.owner = cronjob} IN
           IF runs = {} THEN LatestJob(jobs, cronjob) = NoJob
           ELSE \E j \in runs : LatestJob(jobs, cronjob) = j.name /\ \A k \in runs : j.age <= k.age
<1> DEFINE runs == {j \in Range(jobs) : j.owner = cronjob}
           owned == Those(jobs, runs)
<1>1. owned \in Seq(S) /\ Range(owned) = runs
    <2>1. Range(jobs) \cap runs = runs OBVIOUS
    <2> QED BY <2>1, ThoseLemma
<1>2. LatestJob(jobs, cronjob) = IF owned = <<>> THEN NoJob ELSE Youngest(owned).name BY DEF LatestJob
<1>3. owned = <<>> <=> runs = {}
    <2> HIDE DEF owned, runs
    <2> QED BY <1>1, RangeOfNone
<1>4. CASE owned # <<>>
    <2>1. \A x \in Range(owned) : x.age \in Nat BY <1>1
    <2> HIDE DEF owned, runs
    <2>2. Youngest(owned) \in Range(owned) /\ \A x \in Range(owned) : Youngest(owned).age <= x.age
        BY <1>1, <1>4, <2>1, YoungestIs
    <2> QED BY <1>1, <1>2, <1>3, <1>4, <2>2 DEF runs
<1> QED BY <1>2, <1>3, <1>4

-----------------------------------------------------------------------------
(* The order of a claim's events.                                          *)

\* The places of the events listed before the one at i.
Before(events, i) == {j \in DOMAIN events : Precedes(events, j, i)}

\* Each of n events has an age, or is known to have none.
Timed(n, events) == n \in Nat /\ DOMAIN events = 1 .. n /\ \A i \in 1 .. n : events[i].last \in Nat \cup {Never}

\* Every event has its rank, and every rank its event.
LEMMA EventsRanked ==
    ASSUME NEW n, NEW events, Timed(n, events), Never \notin Int
    PROVE  /\ \A k \in 1 .. n : Ranked(events, k) \in 1 .. n /\ Cardinality(Before(events, Ranked(events, k))) = k - 1
           /\ \A i, j \in 1 .. n : Precedes(events, i, j) =>
                Cardinality(Before(events, i)) < Cardinality(Before(events, j))
           /\ \A i \in 1 .. n : IsFiniteSet(Before(events, i)) /\ \E k \in 1 .. n : Ranked(events, k) = i
<1> USE DEF Timed
<1> DEFINE R == {p \in (1 .. n) \X (1 .. n) : Precedes(events, p[1], p[2])}
<1>1. \A i, j \in 1 .. n : <<i, j>> \in R <=> Precedes(events, i, j) OBVIOUS
<1>2. \A i \in 1 .. n : Before(events, i) = Earlier(R, 1 .. n, i)
    <2> SUFFICES ASSUME NEW i \in 1 .. n PROVE Before(events, i) = Earlier(R, 1 .. n, i) OBVIOUS
    <2>1. \A j \in 1 .. n : <<j, i>> \in R <=> Precedes(events, j, i) BY <1>1
    <2> HIDE DEF R
    <2> QED BY <2>1 DEF Before, Earlier
<1>3. \A i \in 1 .. n : ~Precedes(events, i, i) BY DEF Precedes, Sooner
<1>4. \A i, j, k \in 1 .. n : Precedes(events, i, j) /\ Precedes(events, j, k) => Precedes(events, i, k)
    <2> SUFFICES ASSUME NEW i \in 1 .. n, NEW j \in 1 .. n, NEW k \in 1 .. n, Precedes(events, i, j), Precedes(events, j, k)
                 PROVE  Precedes(events, i, k) OBVIOUS
    <2> DEFINE a == events[i].last
               b == events[j].last
               c == events[k].last
    <2>1. a \in Nat \cup {Never} /\ b \in Nat \cup {Never} /\ c \in Nat \cup {Never} OBVIOUS
    <2>2. Sooner(a, b) \/ (i < j /\ ~Sooner(b, a)) BY DEF Precedes
    <2>3. Sooner(b, c) \/ (j < k /\ ~Sooner(c, b)) BY DEF Precedes
    <2>4. Sooner(a, c) \/ (i < k /\ ~Sooner(c, a))
        <3> HIDE DEF a, b, c
        <3> QED BY <2>1, <2>2, <2>3 DEF Sooner
    <2> QED BY <2>4 DEF Precedes
<1>5. \A i, j \in 1 .. n : i = j \/ Precedes(events, i, j) \/ Precedes(events, j, i)
    <2> SUFFICES ASSUME NEW i \in 1 .. n, NEW j \in 1 .. n, i # j PROVE Precedes(events, i, j) \/ Precedes(events, j, i) OBVIOUS
    <2> QED BY DEF Precedes
<1>6. /\ \A i \in 1 .. n : Cardinality(Before(events, i)) \in 0 .. n - 1
      /\ \A i, j \in 1 .. n : Precedes(events, i, j) => Cardinality(Before(events, i)) < Cardinality(Before(events, j))
      /\ \A k \in 1 .. n : \E i \in 1 .. n : Cardinality(Before(events, i)) = k - 1
    <2> DEFINE P == 1 .. n
    <2>1. \A i \in P : <<i, i>> \notin R BY <1>1, <1>3
    <2>2. \A i, j, k \in P : <<i, j>> \in R /\ <<j, k>> \in R => <<i, k>> \in R
        <3> HIDE DEF R
        <3> QED BY <1>1, <1>4
    <2>3. \A i, j \in P : i = j \/ <<i, j>> \in R \/ <<j, i>> \in R
        <3> HIDE DEF R
        <3> QED BY <1>1, <1>5
    <2>4. IsFiniteSet(P) /\ n = Cardinality(P) BY FS_Interval
    <2>5. /\ \A i \in P : Cardinality(Earlier(R, P, i)) \in 0 .. Cardinality(P) - 1
          /\ \A i, j \in P : <<i, j>> \in R => Cardinality(Earlier(R, P, i)) < Cardinality(Earlier(R, P, j))
          /\ \A k \in 1 .. Cardinality(P) : \E i \in P : Cardinality(Earlier(R, P, i)) = k - 1
        <3> HIDE DEF P, R
        <3> QED BY <2>1, <2>2, <2>3, <2>4, PlacesRanked
    <2> HIDE DEF R
    <2> QED BY <1>1, <1>2, <2>4, <2>5
<1>7. \A k \in 1 .. n : Ranked(events, k) \in 1 .. n /\ Cardinality(Before(events, Ranked(events, k))) = k - 1
    BY <1>6 DEF Ranked, Before
<1>8. ASSUME NEW i \in 1 .. n PROVE IsFiniteSet(Before(events, i)) /\ \E k \in 1 .. n : Ranked(events, k) = i
    <2>1. IsFiniteSet(1 .. n) BY FS_Interval
    <2>2. Before(events, i) \in SUBSET (1 .. n) BY DEF Before
    <2>3. IsFiniteSet(Before(events, i)) BY <2>1, <2>2, FS_Subset
    <2> DEFINE k == Cardinality(Before(events, i)) + 1
    <2>4. k \in 1 .. n /\ k - 1 = Cardinality(Before(events, i)) BY <1>6
    <2> HIDE DEF k
    <2>5. Ranked(events, k) \in 1 .. n /\ Cardinality(Before(events, Ranked(events, k))) = Cardinality(Before(events, i))
        BY <1>7, <2>4
    <2>6. Cardinality(Before(events, i)) \in Nat BY <1>6
    <2>7. ~Precedes(events, Ranked(events, k), i) /\ ~Precedes(events, i, Ranked(events, k)) BY <1>6, <2>5, <2>6
    <2>8. Ranked(events, k) = i BY <1>5, <2>5, <2>7
    <2> QED BY <2>3, <2>4, <2>8
<1> QED BY <1>6, <1>7, <1>8

-----------------------------------------------------------------------------
(* A claim's events, live and replayed.                                    *)

\* Each of n events is listed with its age, and elapsed later in another list.
AgedBy(n, elapsed, listed, aged) ==
    /\ n \in Nat /\ elapsed \in Nat
    /\ DOMAIN listed = 1 .. n /\ DOMAIN aged = 1 .. n /\ Len(listed) = n /\ Len(aged) = n
    /\ \A i \in 1 .. n :
        /\ listed[i].last \in Nat \cup {Never}
        /\ aged[i].last = IF listed[i].last = Never THEN Never ELSE listed[i].last + elapsed

\* Aged, the events of a list are in the order they were.
LEMMA AgedInOrder ==
    ASSUME NEW n, NEW elapsed, NEW listed, NEW aged, AgedBy(n, elapsed, listed, aged), Never \notin Int
    PROVE  /\ \A k \in 1 .. n : Ranked(aged, k) = Ranked(listed, k)
           /\ NewestEvents(aged) = [k \in DOMAIN NewestEvents(listed) |-> aged[Ranked(listed, k)]]
<1>0. /\ n \in Nat /\ elapsed \in Nat
      /\ DOMAIN listed = 1 .. n /\ DOMAIN aged = 1 .. n /\ Len(listed) = n /\ Len(aged) = n
      /\ \A i \in 1 .. n : listed[i].last \in Nat \cup {Never}
      /\ \A i \in 1 .. n : aged[i].last = IF listed[i].last = Never THEN Never ELSE listed[i].last + elapsed
    BY DEF AgedBy
<1>1. \A i, j \in 1 .. n : Sooner(aged[i].last, aged[j].last) <=> Sooner(listed[i].last, listed[j].last)
    <2> SUFFICES ASSUME NEW i \in 1 .. n, NEW j \in 1 .. n
                 PROVE  Sooner(aged[i].last, aged[j].last) <=> Sooner(listed[i].last, listed[j].last) OBVIOUS
    <2> DEFINE a == listed[i].last
               b == listed[j].last
    <2>1. a \in Nat \cup {Never} /\ b \in Nat \cup {Never} BY <1>0
    <2>2. aged[i].last = IF a = Never THEN Never ELSE a + elapsed BY <1>0
    <2>3. aged[j].last = IF b = Never THEN Never ELSE b + elapsed BY <1>0
    <2>4. Sooner(aged[i].last, aged[j].last) <=> Sooner(a, b)
        <3> HIDE DEF a, b
        <3> QED BY <1>0, <2>1, <2>2, <2>3 DEF Sooner
    <2> QED BY <2>4
<1>2. \A i, j \in 1 .. n : Precedes(aged, i, j) <=> Precedes(listed, i, j) BY <1>1 DEF Precedes
<1>3. \A i \in 1 .. n : {j \in DOMAIN aged : Precedes(aged, j, i)} = {j \in DOMAIN listed : Precedes(listed, j, i)} BY <1>0, <1>2
<1>4. \A k \in 1 .. n : Ranked(aged, k) = Ranked(listed, k) BY <1>0, <1>3 DEF Ranked
<1>5. \A k \in 1 .. Min({EventLimit, n}) : Ranked(aged, k) = Ranked(listed, k)
    <2>1. \A k : \A i \in 1 .. n : Cardinality({j \in DOMAIN aged : Precedes(aged, j, i)}) = k - 1
              <=> Cardinality({j \in DOMAIN listed : Precedes(listed, j, i)}) = k - 1 BY <1>3
    <2> QED BY <1>0, <2>1 DEF Ranked
<1> QED BY <1>0, <1>4, <1>5 DEF NewestEvents

\* How many of a claim's events are listed, and that each is one of them.
LEMMA NewestListed ==
    ASSUME NEW n \in Nat, NEW events, DOMAIN events = 1 .. n, Len(events) = n, EventLimit \in Nat,
           Never \notin Int, \A i \in 1 .. n : events[i].last \in Nat \cup {Never}
    PROVE  LET listed == NewestEvents(events) IN
           /\ DOMAIN listed = 1 .. Min({EventLimit, n}) /\ DOMAIN listed \subseteq 1 .. n
           /\ Len(listed) = Min({EventLimit, n})
           /\ \A k \in DOMAIN listed : Ranked(events, k) \in 1 .. n /\ listed[k] = events[Ranked(events, k)]
<1>1. Min({EventLimit, n}) \in {EventLimit, n} /\ Min({EventLimit, n}) <= n
    <2>1. {EventLimit, n} \in SUBSET Nat /\ {EventLimit, n} # {} OBVIOUS
    <2> QED BY <2>1, MinIsLeast
<1>2. \A k \in 1 .. n : Ranked(events, k) \in 1 .. n
    <2>1. Timed(n, events) BY DEF Timed
    <2> QED BY <2>1, EventsRanked
<1> DEFINE m == Min({EventLimit, n})
<1>3. m \in Nat /\ 1 .. m \subseteq 1 .. n BY <1>1
<1>4. NewestEvents(events) = [k \in 1 .. m |-> events[Ranked(events, k)]] BY DEF NewestEvents
<1> HIDE DEF m
<1>5. Len(NewestEvents(events)) = m BY <1>3, <1>4
<1> QED BY <1>2, <1>3, <1>4, <1>5 DEF m

\* What the events of a claim say, as listed.
ClaimSummaries(events, name) ==
    [i \in DOMAIN EventsOf(events, name) |-> EventSummary(EventsOf(events, name)[i])]
ReplayedSummaries(events, name, elapsed) ==
    [i \in DOMAIN EventsOf(events, name) |-> ReplayedEvent(EventRecord(EventSummary(EventsOf(events, name)[i])), elapsed)]

\* The ages an event is recorded with.
Dated(events) == \A e \in Range(events) : {e.last, e.seriesLast, e.time} \subseteq Nat \cup {Never}

LEMMA EventsOfClaim ==
    ASSUME NEW S, NEW events \in Seq(S), Dated(events), NEW name
    PROVE  LET its == EventsOf(events, name)
               n == Len(its)
           IN  /\ n \in Nat /\ its \in Seq(S) /\ DOMAIN its = 1 .. n
               /\ Range(its) = {e \in Range(events) : e.kind = "PersistentVolumeClaim" /\ e.object = name}
               /\ \A i \in 1 .. n : EventSummary(its[i]).last \in Nat \cup {Never}
               /\ DOMAIN ClaimSummaries(events, name) = 1 .. n /\ Len(ClaimSummaries(events, name)) = n
               /\ \A i \in 1 .. n : ClaimSummaries(events, name)[i] = EventSummary(its[i])
<1> DEFINE T == {e \in Range(events) : e.kind = "PersistentVolumeClaim" /\ e.object = name}
           its == EventsOf(events, name)
           n == Len(its)
<1>1. its \in Seq(S) /\ Range(its) = T
    <2>1. its = Those(events, T) BY DEF EventsOf
    <2>2. Range(events) \cap T = T OBVIOUS
    <2> HIDE DEF its, T
    <2> QED BY <2>1, <2>2, ThoseLemma
<1>2. n \in Nat /\ DOMAIN its = 1 .. n BY <1>1, LenProperties
<1>3. \A i \in 1 .. n : its[i] \in Range(events)
    <2>1. \A i \in 1 .. n : its[i] \in Range(its) BY <1>2 DEF Range
    <2> QED BY <1>1, <2>1
<1>4. ASSUME NEW i \in 1 .. n PROVE EventSummary(its[i]).last \in Nat \cup {Never}
    <2> DEFINE e == its[i]
    <2>1. {e.last, e.seriesLast, e.time} \subseteq Nat \cup {Never} BY <1>3 DEF Dated
    <2> HIDE DEF e
    <2>2. EventSummary(e).last = OrElse(e.last, OrElse(e.seriesLast, e.time)) BY DEF EventSummary
    <2>3. EventSummary(e).last \in Nat \cup {Never} BY <2>1, <2>2 DEF OrElse
    <2> QED BY <2>3 DEF e
<1>5. /\ DOMAIN ClaimSummaries(events, name) = 1 .. n
      /\ \A i \in 1 .. n : ClaimSummaries(events, name)[i] = EventSummary(its[i])
    BY <1>2 DEF ClaimSummaries
<1>6. Len(ClaimSummaries(events, name)) = n
    <2>1. ClaimSummaries(events, name) = [i \in 1 .. n |-> EventSummary(its[i])] BY <1>2 DEF ClaimSummaries
    <2> HIDE DEF n, its
    <2> QED BY <1>2, <2>1
<1> HIDE DEF n, its
<1> QED BY <1>1, <1>2, <1>4, <1>5, <1>6 DEF n, its

\* An event with no age of zero is recorded as it is.
LEMMA RecordedAsIs ==
    ASSUME NEW e, EventSummary(e).last # 0, EventSummary(e).first # 0
    PROVE  EventRecord(EventSummary(e)) = EventSummary(e)
BY DEF EventRecord, EventSummary

\* A claim's events as a replay lists them are those listed live, aged.
LEMMA EventsReplayed ==
    ASSUME NEW S, NEW events \in Seq(S), Dated(events), NEW name, NEW elapsed \in Nat,
           Never \notin Int, EventLimit \in Nat,
           \A i \in DOMAIN EventsOf(events, name) :
               0 \notin {EventSummary(EventsOf(events, name)[i]).last, EventSummary(EventsOf(events, name)[i]).first}
    PROVE  LET live == NewestEvents(ClaimSummaries(events, name)) IN
           NewestEvents(ReplayedSummaries(events, name, elapsed))
               = [i \in DOMAIN live |-> ReplayedEvent(live[i], elapsed)]
<1> DEFINE its == EventsOf(events, name)
           n == Len(its)
           listed == ClaimSummaries(events, name)
           aged == ReplayedSummaries(events, name, elapsed)
           live == NewestEvents(listed)
<1>1. /\ n \in Nat /\ DOMAIN its = 1 .. n
      /\ \A i \in 1 .. n : EventSummary(its[i]).last \in Nat \cup {Never}
      /\ DOMAIN listed = 1 .. n /\ Len(listed) = n
      /\ \A i \in 1 .. n : listed[i] = EventSummary(its[i])
    BY EventsOfClaim
<1>2. aged = [i \in 1 .. n |-> ReplayedEvent(EventRecord(EventSummary(its[i])), elapsed)]
    BY <1>1 DEF ReplayedSummaries
<1>3. Len(aged) = n /\ DOMAIN aged = 1 .. n
    <2> HIDE DEF aged, n
    <2> QED BY <1>1, <1>2
<1>4. \A i \in 1 .. n : aged[i] = ReplayedEvent(listed[i], elapsed)
    <2> SUFFICES ASSUME NEW i \in 1 .. n PROVE aged[i] = ReplayedEvent(listed[i], elapsed) OBVIOUS
    <2>1. EventRecord(EventSummary(its[i])) = EventSummary(its[i]) BY <1>1, RecordedAsIs
    <2> HIDE DEF aged, n, listed, its
    <2> QED BY <1>1, <1>2, <2>1
<1>5. \A i \in 1 .. n : aged[i].last = IF listed[i].last = Never THEN Never ELSE listed[i].last + elapsed
    <2> SUFFICES ASSUME NEW i \in 1 .. n
                 PROVE  aged[i].last = IF listed[i].last = Never THEN Never ELSE listed[i].last + elapsed OBVIOUS
    <2>1. aged[i] = ReplayedEvent(EventSummary(its[i]), elapsed) /\ listed[i] = EventSummary(its[i]) BY <1>1, <1>4
    <2> HIDE DEF aged, n, listed, its
    <2> QED BY <2>1 DEF ReplayedEvent, EventSummary
<1> HIDE DEF aged, n, listed, its
<1>6. \A i \in 1 .. n : listed[i].last \in Nat \cup {Never} BY <1>1
<1>7. NewestEvents(aged) = [k \in DOMAIN live |-> aged[Ranked(listed, k)]]
    <2>1. AgedBy(n, elapsed, listed, aged) BY <1>1, <1>3, <1>5, <1>6 DEF AgedBy
    <2> QED BY <2>1, AgedInOrder
<1>8. \A k \in DOMAIN live : Ranked(listed, k) \in 1 .. n /\ live[k] = listed[Ranked(listed, k)]
    BY <1>1, <1>6, NewestListed
<1>9. \A k \in DOMAIN live : aged[Ranked(listed, k)] = ReplayedEvent(live[k], elapsed) BY <1>4, <1>8
<1> HIDE DEF live
<1>10. NewestEvents(aged) = [k \in DOMAIN live |-> ReplayedEvent(live[k], elapsed)] BY <1>7, <1>9
<1> QED BY <1>10 DEF aged, live, listed

\* What is listed of the events of a claim is the newest of them.
NewestAmong(listed, events, name) ==
    LET of == {i \in DOMAIN events : events[i].kind = "PersistentVolumeClaim" /\ events[i].object = name}
        last(i) == EventSummary(events[i]).last
    IN  /\ Len(listed) = Min({EventLimit, Cardinality(of)})
        /\ \A k \in DOMAIN listed : listed[k].last # Never =>
               Cardinality({i \in of : last(i) # Never /\ last(i) < listed[k].last}) < k
        /\ (\E k \in DOMAIN listed : listed[k].last = Never) =>
               \A i \in of : last(i) # Never => \E k \in DOMAIN listed : listed[k].last = last(i)

\* The newest events of a claim are listed: as many as there may be, none with more
\* than those before it newer, and one without a time only if all that have one are.
LEMMA NewestOfClaim ==
    ASSUME NEW S, NEW events \in Seq(S), Dated(events), NEW name, Never \notin Int, EventLimit \in Nat
    PROVE  NewestAmong(NewestEvents(ClaimSummaries(events, name)), events, name)
<1> DEFINE its == EventsOf(events, name)
           n == Len(its)
           all == ClaimSummaries(events, name)
           listed == NewestEvents(all)
           T == {e \in Range(events) : e.kind = "PersistentVolumeClaim" /\ e.object = name}
           of == {i \in DOMAIN events : events[i].kind = "PersistentVolumeClaim" /\ events[i].object = name}
           last(i) == EventSummary(events[i]).last
<1>1. /\ n \in Nat /\ its \in Seq(S) /\ DOMAIN its = 1 .. n /\ Range(its) = T
      /\ \A i \in 1 .. n : EventSummary(its[i]).last \in Nat \cup {Never}
      /\ DOMAIN all = 1 .. n /\ Len(all) = n
      /\ \A i \in 1 .. n : all[i] = EventSummary(its[i])
    BY EventsOfClaim
<1>2. its = Those(events, T) BY DEF EventsOf
<1>3. of = {i \in DOMAIN events : events[i] \in T}
    <2>1. \A i \in DOMAIN events : events[i] \in Range(events) BY DEF Range
    <2> QED BY <2>1
<1>4. n = Cardinality(of) /\ IsFiniteSet(of)
    <2> HIDE DEF T, of
    <2> QED BY <1>2, <1>3, ThoseCount
<1>5. \A i \in 1 .. n : all[i].last \in Nat \cup {Never} BY <1>1
<1> HIDE DEF n, all
<1>6. /\ DOMAIN listed = 1 .. Min({EventLimit, n}) /\ DOMAIN listed \subseteq 1 .. n
      /\ Len(listed) = Min({EventLimit, n})
      /\ \A k \in DOMAIN listed : Ranked(all, k) \in 1 .. n /\ listed[k] = all[Ranked(all, k)]
    BY <1>1, <1>5, NewestListed
<1>7. /\ \A k \in 1 .. n : Ranked(all, k) \in 1 .. n /\ Cardinality(Before(all, Ranked(all, k))) = k - 1
      /\ \A i, j \in 1 .. n : Precedes(all, i, j) => Cardinality(Before(all, i)) < Cardinality(Before(all, j))
      /\ \A i \in 1 .. n : IsFiniteSet(Before(all, i)) /\ \E k \in 1 .. n : Ranked(all, k) = i
    <2>1. Timed(n, all) BY <1>1, <1>5 DEF Timed
    <2> QED BY <2>1, EventsRanked
<1>8. ASSUME NEW k \in DOMAIN listed, listed[k].last # Never
      PROVE  Cardinality({i \in of : last(i) # Never /\ last(i) < listed[k].last}) < k
    <2> DEFINE U == {e \in Range(events) : EventSummary(e).last # Never /\ EventSummary(e).last < listed[k].last}
               newer == {i \in of : last(i) # Never /\ last(i) < listed[k].last}
               ahead == {j \in DOMAIN its : its[j] \in U}
               at == Ranked(all, k)
    <2>1. newer = {i \in DOMAIN events : events[i] \in T \cap U}
        <3>1. \A i \in DOMAIN events : events[i] \in Range(events) BY DEF Range
        <3>2. \A i \in DOMAIN events : events[i] \in U <=> last(i) # Never /\ last(i) < listed[k].last BY <3>1
        <3> HIDE DEF U, last
        <3> QED BY <1>3, <3>2
    <2>2. Cardinality(newer) = Cardinality(ahead) /\ IsFiniteSet(ahead)
        <3> HIDE DEF T, U, newer, its, listed
        <3>1. Len(Those(events, T \cap U)) = Cardinality(newer) BY <2>1, ThoseCount
        <3>2. Len(Those(its, U)) = Cardinality(ahead) /\ IsFiniteSet(ahead) BY <1>1, ThoseCount
        <3>3. Those(its, U) = Those(events, T \cap U) BY <1>2, ThoseOfThose
        <3> QED BY <3>1, <3>2, <3>3
    <2>3. k \in 1 .. n /\ at \in 1 .. n /\ listed[k] = all[at] BY <1>6
    <2>4. ahead \in SUBSET Before(all, at)
        <3> SUFFICES ASSUME NEW j \in ahead PROVE j \in Before(all, at) OBVIOUS
        <3>1. j \in 1 .. n /\ EventSummary(its[j]).last # Never /\ EventSummary(its[j]).last < listed[k].last BY <1>1
        <3>2. all[j].last # Never /\ all[j].last < all[at].last BY <1>1, <2>3, <3>1
        <3>3. Precedes(all, j, at) BY <3>2 DEF Precedes, Sooner
        <3> QED BY <1>1, <3>1, <3>3 DEF Before
    <2> HIDE DEF newer, ahead, at
    <2>5. Cardinality(ahead) <= Cardinality(Before(all, at)) BY <1>7, <2>3, <2>4, FS_Subset
    <2>6. Cardinality(Before(all, at)) = k - 1 BY <1>7, <2>3 DEF at
    <2>7. Cardinality(ahead) \in Nat BY <2>2, FS_CardinalityType
    <2>8. Cardinality(newer) < k BY <2>2, <2>3, <2>5, <2>6, <2>7
    <2> QED BY <2>8 DEF newer
<1>9. ASSUME NEW l \in DOMAIN listed, listed[l].last = Never, NEW i \in of, last(i) # Never
      PROVE  \E k \in DOMAIN listed : listed[k].last = last(i)
    <2>1. events[i] \in Range(its) BY <1>1, <1>3
    <2>2. PICK j \in 1 .. n : its[j] = events[i] BY <1>1, <2>1 DEF Range
    <2>3. PICK k \in 1 .. n : Ranked(all, k) = j BY <1>7
    <2>4. all[j].last = last(i) BY <1>1, <2>2
    <2>5. l \in 1 .. n /\ Ranked(all, l) \in 1 .. n /\ all[Ranked(all, l)].last = Never BY <1>6, <1>9
    <2>6. Precedes(all, j, Ranked(all, l))
        <3>1. Sooner(all[j].last, all[Ranked(all, l)].last) BY <1>9, <2>4, <2>5 DEF Sooner
        <3> QED BY <3>1 DEF Precedes
    <2>7. Cardinality(Before(all, j)) < Cardinality(Before(all, Ranked(all, l))) BY <1>7, <2>5, <2>6
    <2>8. Cardinality(Before(all, j)) = k - 1 /\ Cardinality(Before(all, Ranked(all, l))) = l - 1 BY <1>7, <2>3, <2>5
    <2>9. k < l BY <2>5, <2>7, <2>8
    <2>10. k \in DOMAIN listed
        <3> DEFINE m == Min({EventLimit, n})
        <3>1. l \in 1 .. m /\ m \in Nat
            <4>1. {EventLimit, n} \in SUBSET Nat /\ {EventLimit, n} # {} BY <1>1
            <4>2. m \in {EventLimit, n} BY <4>1, MinIsLeast
            <4> QED BY <1>1, <1>6, <4>2
        <3> HIDE DEF m
        <3>2. k \in 1 .. m BY <2>9, <3>1
        <3> QED BY <1>6, <3>2 DEF m
    <2>11. listed[k] = all[j] BY <1>6, <2>3, <2>10
    <2> QED BY <2>4, <2>10, <2>11
<1>10. Len(listed) = Min({EventLimit, Cardinality(of)}) BY <1>4, <1>6
<1> HIDE DEF listed, of, last
<1>11. \A k \in DOMAIN listed : listed[k].last # Never =>
           Cardinality({i \in of : last(i) # Never /\ last(i) < listed[k].last}) < k BY <1>8
<1>12. (\E k \in DOMAIN listed : listed[k].last = Never) =>
           \A i \in of : last(i) # Never => \E k \in DOMAIN listed : listed[k].last = last(i) BY <1>9
<1> QED BY <1>10, <1>11, <1>12 DEF listed, of, last, all, NewestAmong

\* What get_pvc_summaries tells of a claim.
LEMMA ClaimTold ==
    ASSUME NEW claims, NEW pods, NEW events, NEW access,
           \A c, d \in Range(claims) : c.name = d.name => c = d,
           NEW c \in Range(claims)
    PROVE  Claims(claims, pods, events, access)[c.name] =
               [bound |-> c.bound, mountedBy |-> MountedBy(c, pods, "pods" \in access),
                events |-> IF c.bound \/ "events" \notin access THEN <<>>
                           ELSE NewestEvents(ClaimSummaries(events, c.name))]
<1>1. (CHOOSE d \in Range(claims) : d.name = c.name) = c OBVIOUS
<1> QED BY <1>1 DEF Claims, ClaimSummaries

\* A claim's summary, aged; and its events not seen at the very instant listed.
AgedClaim(summary, elapsed) ==
    [summary EXCEPT !.events = [i \in DOMAIN summary.events |-> ReplayedEvent(summary.events[i], elapsed)]]
NoneJustSeen(events, name) ==
    \A i \in DOMAIN events :
        events[i].kind = "PersistentVolumeClaim" /\ events[i].object = name =>
            0 \notin {EventSummary(events[i]).last, EventSummary(events[i]).first}

\* The claims of a capture are replayed as they were listed, their events aged.
LEMMA ClaimReplayed ==
    ASSUME NEW S, NEW events \in Seq(S), Dated(events), NEW elapsed \in Nat,
           Never \notin Int, EventLimit \in Nat,
           NEW claims, NEW pods, NEW access,
           \A c, d \in Range(claims) : c.name = d.name => c = d,
           NEW c \in Range(claims), NoneJustSeen(events, c.name)
    PROVE  ReplayedClaims(claims, pods, events, access, elapsed)[c.name]
               = AgedClaim(Claims(claims, pods, events, access)[c.name], elapsed)
<1> DEFINE live == Claims(claims, pods, events, access)[c.name]
           known == IF "events" \in access THEN events ELSE <<>>
           again == IF c.bound THEN <<>> ELSE NewestEvents(ReplayedSummaries(known, c.name, elapsed))
<1>1. /\ live.bound = c.bound
      /\ live.events = IF c.bound \/ "events" \notin access THEN <<>> ELSE NewestEvents(ClaimSummaries(events, c.name))
    <2>1. live = [bound |-> c.bound, mountedBy |-> MountedBy(c, pods, "pods" \in access),
                  events |-> IF c.bound \/ "events" \notin access THEN <<>>
                             ELSE NewestEvents(ClaimSummaries(events, c.name))]
        BY ClaimTold
    <2> HIDE DEF live
    <2> QED BY <2>1
<1>2. ReplayedClaims(claims, pods, events, access, elapsed)[c.name] = [live EXCEPT !.events = again]
    <2>1. c.name \in DOMAIN Claims(claims, pods, events, access) BY DEF Claims
    <2>2. ReplayedClaims(claims, pods, events, access, elapsed)[c.name]
              = [live EXCEPT !.events = IF live.bound THEN <<>> ELSE NewestEvents(ReplayedSummaries(known, c.name, elapsed))]
        BY <2>1 DEF ReplayedClaims, ReplayedSummaries
    <2> HIDE DEF live
    <2> QED BY <1>1, <2>2
<1>3. again = [i \in DOMAIN live.events |-> ReplayedEvent(live.events[i], elapsed)]
    <2> HIDE DEF live
    <2>1. CASE c.bound BY <1>1, <2>1
    <2>2. CASE ~c.bound /\ "events" \notin access
        <3>1. EventsOf(known, c.name) = <<>> BY <2>2, ThoseNone DEF EventsOf
        <3>2. ReplayedSummaries(known, c.name, elapsed) = <<>> BY <3>1 DEF ReplayedSummaries
        <3>3. NewestEvents(<<>>) = <<>>
            <4>1. {EventLimit, 0} \in SUBSET Nat /\ {EventLimit, 0} # {} OBVIOUS
            <4>2. Min({EventLimit, 0}) \in Nat /\ Min({EventLimit, 0}) <= 0 BY <4>1, MinIsLeast
            <4> DEFINE none == <<>>
                       m == Min({EventLimit, 0})
            <4>3. m = 0 BY <4>2
            <4>4. Len(none) = 0 OBVIOUS
            <4> HIDE DEF none
            <4>5. NewestEvents(none) = [k \in 1 .. m |-> none[Ranked(none, k)]] BY <4>4 DEF NewestEvents
            <4> HIDE DEF m
            <4>6. NewestEvents(none) \in Seq(Int) /\ Len(NewestEvents(none)) = 0 BY <4>3, <4>5
            <4>7. NewestEvents(none) = <<>> BY <4>6, EmptySeq
            <4> QED BY <4>7 DEF none
        <3>4. again = <<>> BY <2>2, <3>2, <3>3
        <3>5. live.events = <<>> BY <1>1, <2>2
        <3> HIDE DEF again
        <3> QED BY <3>4, <3>5
    <2>3. CASE ~c.bound /\ "events" \in access
        <3>1. \A i \in DOMAIN EventsOf(events, c.name) :
                  0 \notin {EventSummary(EventsOf(events, c.name)[i]).last, EventSummary(EventsOf(events, c.name)[i]).first}
            <4> SUFFICES ASSUME NEW i \in DOMAIN EventsOf(events, c.name)
                         PROVE  0 \notin {EventSummary(EventsOf(events, c.name)[i]).last,
                                          EventSummary(EventsOf(events, c.name)[i]).first}
                OBVIOUS
            <4>1. Range(EventsOf(events, c.name))
                      = {e \in Range(events) : e.kind = "PersistentVolumeClaim" /\ e.object = c.name}
                BY EventsOfClaim
            <4>2. EventsOf(events, c.name)[i] \in Range(EventsOf(events, c.name)) BY DEF Range
            <4>3. PICK j \in DOMAIN events : events[j] = EventsOf(events, c.name)[i] BY <4>1, <4>2 DEF Range
            <4>4. events[j].kind = "PersistentVolumeClaim" /\ events[j].object = c.name BY <4>1, <4>2, <4>3
            <4> QED BY <4>3, <4>4 DEF NoneJustSeen
        <3>2. LET listed == NewestEvents(ClaimSummaries(events, c.name)) IN
              NewestEvents(ReplayedSummaries(events, c.name, elapsed))
                  = [i \in DOMAIN listed |-> ReplayedEvent(listed[i], elapsed)]
            BY <3>1, EventsReplayed
        <3> QED BY <1>1, <2>3, <3>2
    <2> QED BY <2>1, <2>2, <2>3
<1> HIDE DEF live, again
<1> QED BY <1>2, <1>3 DEF live, AgedClaim

\* An unscheduled pod that mounts a claim that isn't bound is shown it.
LEMMA UnboundShown ==
    ASSUME NEW S, NEW pods \in Seq(S), NEW claims, NEW events, NEW access, "pods" \in access,
           \A c, d \in Range(claims) : c.name = d.name => c = d,
           NEW p \in Range(pods), NEW c \in Range(claims), c.name \in p.mounts, ~c.bound
    PROVE  LET unbound == UnboundClaims(Claims(claims, pods, events, access)) IN
           p.name \in DOMAIN unbound /\ \E l \in unbound[p.name] : l.claim = c.name
<1> DEFINE live == Claims(claims, pods, events, access)
           of == Those(pods, {q \in Range(pods) : c.name \in q.mounts})
<1>1. /\ live[c.name].mountedBy = [i \in DOMAIN of |-> of[i].name]
      /\ live[c.name].bound = c.bound
    <2>1. live[c.name] = [bound |-> c.bound, mountedBy |-> MountedBy(c, pods, "pods" \in access),
                  events |-> IF c.bound \/ "events" \notin access THEN <<>>
                             ELSE NewestEvents(ClaimSummaries(events, c.name))]
        BY ClaimTold
    <2> HIDE DEF live
    <2>2. live[c.name].mountedBy = MountedBy(c, pods, "pods" \in access) /\ live[c.name].bound = c.bound BY <2>1
    <2>3. MountedBy(c, pods, "pods" \in access) = [i \in DOMAIN of |-> of[i].name] BY DEF MountedBy
    <2> QED BY <2>2, <2>3
<1>2. c.name \in DOMAIN live BY DEF Claims
<1>3. p \in Range(of)
    <2>1. Range(of) = Range(pods) \cap {q \in Range(pods) : c.name \in q.mounts} BY ThoseLemma
    <2> QED BY <2>1
<1> HIDE DEF live, of
<1>4. p.name \in Range(live[c.name].mountedBy)
    <2>1. PICK i \in DOMAIN of : of[i] = p BY <1>3 DEF Range
    <2> QED BY <1>1, <2>1 DEF Range
<1> DEFINE its(q) == {[claim |-> n, says |-> IF live[n].events = <<>> THEN Never ELSE live[n].events[1].says] :
                        n \in {n \in DOMAIN live : ~live[n].bound /\ q \in Range(live[n].mountedBy)}}
           line == [claim |-> c.name, says |-> IF live[c.name].events = <<>> THEN Never ELSE live[c.name].events[1].says]
<1>5. UnboundClaims(live) = [q \in UNION {Range(live[n].mountedBy) : n \in DOMAIN live} |-> its(q)] BY DEF UnboundClaims
<1>6. line \in its(p.name) /\ line.claim = c.name BY <1>1, <1>2, <1>4
<1>7. p.name \in UNION {Range(live[n].mountedBy) : n \in DOMAIN live} BY <1>2, <1>4
<1> HIDE DEF its, line
<1> QED BY <1>5, <1>6, <1>7 DEF live

\* The log of a Job or CronJob is of a pod none of its newest Job's is younger than, live
\* and replayed; an unbound claim lists its newest events, which a pod that waits for it is
\* shown, and a replay lists them too (get_logs_for_cronjob, get_pvc_summaries).
THEOREM JoinsSame == Spec => []JoinsReplayed
<1>1. ASSUME IInv, Told("jobs")
      PROVE  LET in == call.in
                 its(j) == {p \in Range(in.pods) : p.job = j}
                 runs == {j \in Range(in.jobs) : j.owner = in.cronjob}
                 last == {j \in runs : \A k \in runs : j.age <= k.age}
                 newest(some) == {p.name : p \in {p \in some : \A q \in some : p.age <= q.age}}
             IN  /\ IF its(in.job) = {} THEN answer.job = NoPodOf ELSE answer.job \in newest(its(in.job))
                 /\ IF last = {} THEN answer.cronjob = NoPodOf
                    ELSE \E j \in last : IF its(j.name) = {} THEN answer.cronjob = NoPodOf
                                         ELSE answer.cronjob \in newest(its(j.name))
                 /\ (\A p \in Range(in.pods) : p.labelled) =>
                     answer.replayedJob = answer.job /\ answer.replayedCronJob = answer.cronjob
    <2> DEFINE in == call.in
               its(j) == {p \in Range(in.pods) : p.job = j}
               runs == {j \in Range(in.jobs) : j.owner = in.cronjob}
               last == {j \in runs : \A k \in runs : j.age <= k.age}
               newest(some) == {p.name : p \in {p \in some : \A q \in some : p.age <= q.age}}
    <2>1. /\ in.pods \in Seq(Range(in.pods)) /\ \A p \in Range(in.pods) : p.age \in Nat
          /\ in.jobs \in Seq(Range(in.jobs)) /\ \A j \in Range(in.jobs) : j.age \in Nat /\ j.name # NoJob
        <3>1. call.in \in JobInputs BY <1>1, InputsOfTool DEF IInv, Told, Inputs
        <3> QED BY <3>1, JobAssumption
    <2>2. answer = JobAnswer(in) BY <1>1 DEF IInv, WorkedOut, Told
    <2>3. /\ answer.job = LatestPod(in.pods, in.job) /\ answer.cronjob = CronJobPod(in.jobs, in.pods, in.cronjob)
          /\ answer.replayedJob = ReplayedLatestPod(in.pods, in.job)
          /\ answer.replayedCronJob = ReplayedCronJobPod(in.jobs, in.pods, in.cronjob)
        <3> HIDE DEF in
        <3> QED BY <2>2 DEF JobAnswer
    <2> HIDE DEF in
    <2>4. \A job : IF its(job) = {} THEN LatestPod(in.pods, job) = NoPodOf ELSE LatestPod(in.pods, job) \in newest(its(job))
        <3> SUFFICES ASSUME NEW job
                     PROVE  IF its(job) = {} THEN LatestPod(in.pods, job) = NoPodOf
                            ELSE LatestPod(in.pods, job) \in newest(its(job))
            OBVIOUS
        <3>1. IF its(job) = {} THEN LatestPod(in.pods, job) = NoPodOf
              ELSE \E p \in its(job) : LatestPod(in.pods, job) = p.name /\ \A q \in its(job) : p.age <= q.age
            BY <2>1, LatestOf
        <3> HIDE DEF its
        <3> QED BY <3>1
    <2>5. IF runs = {} THEN LatestJob(in.jobs, in.cronjob) = NoJob
          ELSE \E j \in runs : LatestJob(in.jobs, in.cronjob) = j.name /\ \A k \in runs : j.age <= k.age
        BY <2>1, LatestJobOf
    <2>6. ASSUME runs = {} PROVE last = {} /\ answer.cronjob = NoPodOf
        <3>1. last = {} /\ answer.cronjob = NoPodOf BY <2>3, <2>5, <2>6 DEF CronJobPod
        <3> QED BY <3>1
    <2>7. ASSUME runs # {}
          PROVE  \E j \in last : IF its(j.name) = {} THEN answer.cronjob = NoPodOf
                                 ELSE answer.cronjob \in newest(its(j.name))
        <3>1. PICK j \in runs : LatestJob(in.jobs, in.cronjob) = j.name /\ \A k \in runs : j.age <= k.age BY <2>5, <2>7
        <3>2. j \in last /\ j.name # NoJob BY <2>1, <3>1
        <3>3. answer.cronjob = LatestPod(in.pods, j.name) BY <2>3, <3>1, <3>2 DEF CronJobPod
        <3> HIDE DEF its, newest, last, runs
        <3>4. IF its(j.name) = {} THEN answer.cronjob = NoPodOf ELSE answer.cronjob \in newest(its(j.name)) BY <2>4, <3>3
        <3> QED BY <3>2, <3>4
    <2>8. ASSUME \A p \in Range(in.pods) : p.labelled
          PROVE  answer.replayedJob = answer.job /\ answer.replayedCronJob = answer.cronjob
        <3>1. \A job : ReplayedLatestPod(in.pods, job) = LatestPod(in.pods, job) BY <2>8, LatestReplayed
        <3> QED BY <2>3, <3>1 DEF CronJobPod, ReplayedCronJobPod
    <2> HIDE DEF its, newest, last
    <2>9. IF its(in.job) = {} THEN answer.job = NoPodOf ELSE answer.job \in newest(its(in.job)) BY <2>3, <2>4
    <2>10. IF last = {} THEN answer.cronjob = NoPodOf
           ELSE \E j \in last : IF its(j.name) = {} THEN answer.cronjob = NoPodOf
                                ELSE answer.cronjob \in newest(its(j.name))
        BY <2>6, <2>7
    <2> QED BY <2>8, <2>9, <2>10 DEF its, newest, last, in
<1>2. ASSUME IInv, Told("claims")
      PROVE  LET in == call.in
                 of(n) == {i \in DOMAIN in.events : in.events[i].kind = "PersistentVolumeClaim" /\ in.events[i].object = n}
                 last(i) == EventSummary(in.events[i]).last
                 old == {n \in DOMAIN answer.live : \A i \in of(n) : 0 \notin {last(i), EventSummary(in.events[i]).first}}
                 aged(events) == [i \in DOMAIN events |-> ReplayedEvent(events[i], in.elapsed)]
             IN  /\ \A n \in old : answer.replayed[n] = [answer.live[n] EXCEPT !.events = aged(@)]
                 /\ \A n \in DOMAIN answer.live :
                     LET listed == answer.live[n].events IN
                     "events" \in in.access /\ ~answer.live[n].bound =>
                         /\ Len(listed) = Min({EventLimit, Cardinality(of(n))})
                         /\ \A k \in DOMAIN listed : listed[k].last # Never =>
                             Cardinality({i \in of(n) : last(i) # Never /\ last(i) < listed[k].last}) < k
                         /\ (\E k \in DOMAIN listed : listed[k].last = Never) =>
                             \A i \in of(n) : last(i) # Never => \E k \in DOMAIN listed : listed[k].last = last(i)
                 /\ "pods" \in in.access => \A p \in Range(in.pods) : \A c \in Range(in.claims) :
                     c.name \in p.mounts /\ ~c.bound =>
                         p.name \in DOMAIN answer.unbound /\ \E l \in answer.unbound[p.name] : l.claim = c.name
    <2> DEFINE in == call.in
               of(n) == {i \in DOMAIN in.events : in.events[i].kind = "PersistentVolumeClaim" /\ in.events[i].object = n}
               last(i) == EventSummary(in.events[i]).last
               old == {n \in DOMAIN answer.live : \A i \in of(n) : 0 \notin {last(i), EventSummary(in.events[i]).first}}
               aged(events) == [i \in DOMAIN events |-> ReplayedEvent(events[i], in.elapsed)]
               live == Claims(in.claims, in.pods, in.events, in.access)
    <2>1. /\ EventLimit \in Nat /\ Never \notin Int /\ in.elapsed \in Nat
          /\ in.pods \in Seq(Range(in.pods)) /\ in.events \in Seq(Range(in.events)) /\ Dated(in.events)
          /\ \A c, d \in Range(in.claims) : c.name = d.name => c = d
        <3>1. call.in \in ClaimInputs BY <1>2, InputsOfTool DEF IInv, Told, Inputs
        <3> QED BY <3>1, ClaimAssumption DEF Dated
    <2>2. answer = ClaimAnswer(in) BY <1>2 DEF IInv, WorkedOut, Told
    <2>3. /\ answer.live = live /\ answer.unbound = UnboundClaims(live)
          /\ answer.replayed = ReplayedClaims(in.claims, in.pods, in.events, in.access, in.elapsed)
        <3> HIDE DEF in
        <3> QED BY <2>2 DEF ClaimAnswer
    <2> HIDE DEF in
    <2>4. \A n \in DOMAIN live : \E c \in Range(in.claims) : c.name = n BY DEF Claims
    <2>5. ASSUME NEW n \in old PROVE answer.replayed[n] = [answer.live[n] EXCEPT !.events = aged(@)]
        <3>1. PICK c \in Range(in.claims) : c.name = n BY <2>3, <2>4
        <3>2. NoneJustSeen(in.events, c.name) BY <3>1 DEF NoneJustSeen
        <3>3. ReplayedClaims(in.claims, in.pods, in.events, in.access, in.elapsed)[c.name] = AgedClaim(live[c.name], in.elapsed)
            BY <2>1, <3>2, ClaimReplayed
        <3> HIDE DEF live, old
        <3> QED BY <2>3, <3>1, <3>3 DEF AgedClaim
    <2>6. ASSUME NEW n \in DOMAIN answer.live, "events" \in in.access, ~answer.live[n].bound
          PROVE  LET listed == answer.live[n].events IN
                 /\ Len(listed) = Min({EventLimit, Cardinality(of(n))})
                 /\ \A k \in DOMAIN listed : listed[k].last # Never =>
                     Cardinality({i \in of(n) : last(i) # Never /\ last(i) < listed[k].last}) < k
                 /\ (\E k \in DOMAIN listed : listed[k].last = Never) =>
                     \A i \in of(n) : last(i) # Never => \E k \in DOMAIN listed : listed[k].last = last(i)
        <3>1. PICK c \in Range(in.claims) : c.name = n BY <2>3, <2>4
        <3>2. live[c.name] = [bound |-> c.bound, mountedBy |-> MountedBy(c, in.pods, "pods" \in in.access),
                    events |-> IF c.bound \/ "events" \notin in.access THEN <<>>
                               ELSE NewestEvents(ClaimSummaries(in.events, c.name))]
            BY <2>1, ClaimTold
        <3> HIDE DEF live
        <3>3. answer.live[n].events = NewestEvents(ClaimSummaries(in.events, n)) BY <2>3, <2>6, <3>1, <3>2
        <3>4. NewestAmong(answer.live[n].events, in.events, n) BY <2>1, <3>3, NewestOfClaim
        <3> QED BY <3>4 DEF NewestAmong
    <2>7. ASSUME "pods" \in in.access, NEW p \in Range(in.pods), NEW c \in Range(in.claims), c.name \in p.mounts, ~c.bound
          PROVE  p.name \in DOMAIN answer.unbound /\ \E l \in answer.unbound[p.name] : l.claim = c.name
        <3>1. LET unbound == UnboundClaims(live) IN
              p.name \in DOMAIN unbound /\ \E l \in unbound[p.name] : l.claim = c.name
            BY <2>1, <2>7, UnboundShown
        <3> HIDE DEF live
        <3> QED BY <2>3, <3>1
    <2> HIDE DEF old, of, last, aged
    <2> QED BY <2>5, <2>6, <2>7 DEF in, of, last, old, aged
<1>3. IInv => JoinsReplayed BY <1>1, <1>2 DEF JoinsReplayed
<1> QED BY <1>3, WorkedFromCall, PTL

-----------------------------------------------------------------------------
(* A report's logs.                                                        *)

\* However many lines the focus pod's logs take, those of the other pods share what is
\* left of the report's, and no pod is passed over in silence (_logs).
THEOREM LogsShared == Spec => []LogsAccounted
<1>1. IInv => LogsAccounted
    <2> SUFFICES ASSUME IInv, Told("logs") PROVE LogsAccounted BY DEF LogsAccounted
    <2> DEFINE in == call.in
               focus == in.focus
               others == in.others
               m == in.lines
               pods == {focus} \cup Range(others)
               P == {p.name : p \in pods}
               C == {c.name : c \in UNION {Range(p.containers) : p \in pods}}
               r == Logs(focus, others, m, in.grep)
               logs == r.logs
               lines(those) == {x \in those \X (1 .. m) : x[2] <= logs[x[1]].lines}
               own == lines({i \in DOMAIN logs : logs[i].pod = focus.name})
    <2>1. in \in PodLogInputs BY InputsOfTool DEF Told, IInv, Inputs
    <2>2. answer = r BY DEF Told, IInv, WorkedOut
    <2>3. /\ Unread \notin Int /\ MaxLogLines \in Nat /\ OtherLogLines \in Nat \ {0} /\ OtherLogPods \in Nat
          /\ MaxGrepPods \in Nat \ {0} /\ m \in Nat \ {0} /\ in.grep \in BOOLEAN /\ others \in Seq(Range(others))
          /\ \A i, j \in DOMAIN others : others[i].name = others[j].name => i = j
          /\ \A p \in Range(others) : p.name # focus.name
        BY <2>1, PodLogAssumption
    <2>4. \A p \in pods : IsPod(p, P, C)
        <3>1. \A p \in pods : /\ p.containers \in Seq(Range(p.containers))
                              /\ \A c \in Range(p.containers) : {c.current, c.previous} \subseteq Nat \cup {Unread}
            BY <2>1, PodLogAssumption
        <3>2. \A p \in pods : p.name \in P /\ \A c \in Range(p.containers) : c.name \in C OBVIOUS
        <3> QED BY <3>1, <3>2 DEF IsPod
    <2>5. ArePods(focus, others, P, C) BY <2>3, <2>4 DEF ArePods
    <2>6. LogsShown(r, focus, others, m)
        <3> DEFINE g == in.grep
        <3>1. g \in BOOLEAN BY <2>3
        <3> HIDE DEF P, C, focus, others, m, g
        <3> QED BY <2>3, <2>5, <3>1, LogsKept DEF g
    <2>7. Total(logs, m) = Cardinality(lines(DOMAIN logs)) /\ OwnLines(logs, focus, m) = own BY DEF Total, Tails, OwnLines
    <2> HIDE DEF r
    <2> QED BY <2>2, <2>6, <2>7, Zenon DEF LogsAccounted, LogsShown, Silent
<1> QED BY <1>1, WorkedFromCall, PTL

-----------------------------------------------------------------------------
(* A report's events.                                                      *)

\* Each event told of in a report's named objects counts in one line, of what it says, and
\* the line tells of no other: how many, how often they were seen and since when
\* (_events, _event_summary, and a capture's replay of them).
THEOREM EventsAddUp == Spec => []EventsMerged
<1>1. IInv => EventsMerged
    <2> DEFINE in == call.in
               events == in.events
               names == in.names
               kinds == in.kinds
               elapsed == in.elapsed
               wanted == {i \in DOMAIN events : events[i].object \in Range(names) /\ events[i].kind \in kinds}
               r == EventLines(events, names, kinds, elapsed)
    <2> SUFFICES ASSUME IInv, Told("events"), \A i \in wanted : 0 \notin Seen(events[i]) PROVE EventsMerged
        BY DEF EventsMerged
    <2>1. in \in EventInputs BY InputsOfTool DEF Told, IInv, Inputs
    <2>2. answer = r BY DEF Told, IInv, WorkedOut
    <2>3. Apart BY EventAssumption DEF Apart
    <2>4. /\ elapsed \in Nat \cup {Never}
          /\ names \in Seq(Range(names)) /\ \A i, j \in DOMAIN names : names[i] = names[j] => i = j
          /\ events \in Seq(Range(events))
        BY <2>1, EventAssumption
    <2>5. /\ Len(events) \in Nat /\ DOMAIN events = 1 .. Len(events)
          /\ Len(names) \in Nat /\ DOMAIN names = 1 .. Len(names)
        BY <2>4, LenProperties
    <2>6. wanted = OfNames(events, names, kinds, Len(names))
        <3> HIDE DEF in, events, names, kinds
        <3>1. Range(names) = {names[k] : k \in 1 .. Len(names)} BY <2>5 DEF Range
        <3> QED BY <2>5, <3>1 DEF OfNames
    <2>7. \A j \in wanted : Sound(events[j])
        <3> SUFFICES ASSUME NEW j \in wanted PROVE Sound(events[j]) OBVIOUS
        <3> DEFINE e == events[j]
        <3>1. e \in Range(events) BY DEF Range
        <3>2. /\ {e.count, e.seriesCount} \subseteq (Nat \ {0}) \cup {NoCount}
              /\ {e.first, e.last, e.seriesLast, e.time} \subseteq Nat \cup {Never}
              /\ Seen(e) # {} => /\ OrElse(e.first, e.time) # Never
                                 /\ OrElse(e.last, OrElse(e.seriesLast, e.time)) # Never
                                 /\ \A t \in Seen(e) : /\ t <= OrElse(e.first, e.time)
                                                       /\ OrElse(e.last, OrElse(e.seriesLast, e.time)) <= t
            BY <2>1, <3>1, EventAssumption
        <3>3. 0 \notin Seen(e) OBVIOUS
        <3>4. \A t \in {e.first, e.last, e.seriesLast, e.time} : t \in Lives
            <4>1. \A t \in {e.first, e.last, e.seriesLast, e.time} : t # Never => t \in Seen(e) BY DEF Seen
            <4> HIDE DEF e
            <4> QED BY <3>2, <3>3, <4>1 DEF Lives
        <3> HIDE DEF e
        <3>5. Sound(e) BY <3>2, <3>4 DEF Sound, Counts
        <3> QED BY <3>5 DEF e
    <2>8. ~r.failed /\ LinesTell(r.lines, events, wanted, LaterBy(elapsed))
        <3>1. \A i, j \in 1 .. Len(names) : names[i] = names[j] => i = j BY <2>4, <2>5
        <3>2. \A j \in OfNames(events, names, kinds, Len(names)) : Sound(events[j]) BY <2>6, <2>7
        <3> HIDE DEF in, events, names, kinds, elapsed, wanted
        <3>3. /\ ~EventLines(events, names, kinds, elapsed).failed
              /\ LinesTell(EventLines(events, names, kinds, elapsed).lines, events,
                           OfNames(events, names, kinds, Len(names)), LaterBy(elapsed))
            BY <2>3, <2>4, <2>5, <3>1, <3>2, EventsTold
        <3> QED BY <2>6, <3>3
    <2> HIDE DEF r
    <2>9. ~answer.failed /\ LinesTell(answer.lines, events, wanted, LaterBy(elapsed)) BY <2>2, <2>8
    <2> QED BY <2>9 DEF EventsMerged, LinesTell, LaterBy
<1> QED BY <1>1, WorkedFromCall, PTL

-----------------------------------------------------------------------------
(* An import's pull of a snapshot.                                         *)

\* Pulls that may be a snapshot's, of which none is later than b.
ArePulls(pulls, b) ==
    /\ PullGap \in Nat /\ b \in Nat /\ pulls \in Seq(Range(pulls))
    /\ \A k \in DOMAIN pulls : Batched(pulls[k]) /\ Times(pulls[k]) \subseteq 0 .. b
    /\ \A k, l \in DOMAIN pulls : k < l => \A r \in pulls[k], s \in pulls[l] : s.time - r.time > PullGap

\* When a pull starts and ends.
FirstOf(pull) == Min(Times(pull))
LastOf(pull) == Max(Times(pull))

\* Its records are of those times, and those of the pulls before it and after it are not.
LEMMA PullTimes ==
    ASSUME NEW pulls, NEW b, ArePulls(pulls, b), NEW k \in DOMAIN pulls
    PROVE  /\ \A r \in pulls[k] : r.time \in Nat /\ FirstOf(pulls[k]) <= r.time /\ r.time <= LastOf(pulls[k])
           /\ \E r \in pulls[k] : r.time = FirstOf(pulls[k])
           /\ \E r \in pulls[k] : r.time = LastOf(pulls[k])
           /\ FirstOf(pulls[k]) \in Nat /\ LastOf(pulls[k]) \in 0 .. b
<1> DEFINE p == pulls[k]
<1>1. Times(p) \subseteq 0 .. b /\ b \in Nat /\ p # {} BY DEF ArePulls, Batched
<1>2. \A r \in p : r.time \in Times(p) BY DEF Times
<1>3. \A t \in Times(p) : \E r \in p : r.time = t BY DEF Times
<1>4. Times(p) # {} BY <1>1, <1>2
<1>5. FirstOf(p) \in Times(p) /\ \A t \in Times(p) : FirstOf(p) <= t BY <1>1, <1>4, MinIsLeast DEF FirstOf
<1>6. LastOf(p) \in Times(p) /\ \A t \in Times(p) : LastOf(p) >= t BY <1>1, <1>4, MaxIsGreatest DEF LastOf
<1>7. \A t \in Times(p) : t \in Nat BY <1>1
<1> HIDE DEF p
<1>8. \A r \in p : r.time \in Nat /\ FirstOf(p) <= r.time /\ r.time <= LastOf(p)
    BY <1>2, <1>5, <1>6, <1>7
<1> QED BY <1>1, <1>3, <1>5, <1>6, <1>7, <1>8 DEF p

LEMMA PullsApart ==
    ASSUME NEW pulls, NEW b, ArePulls(pulls, b),
           NEW k \in DOMAIN pulls, NEW l \in DOMAIN pulls, k < l
    PROVE  FirstOf(pulls[l]) - LastOf(pulls[k]) > PullGap
<1>1. PICK r \in pulls[k] : r.time = LastOf(pulls[k]) BY PullTimes
<1>2. PICK s \in pulls[l] : s.time = FirstOf(pulls[l]) BY PullTimes
<1> QED BY <1>1, <1>2 DEF ArePulls

\* A pull starts where one did (read_pulls).
LEMMA PullsStart ==
    ASSUME NEW pulls, NEW b, ArePulls(pulls, b), NEW all, all = UNION Range(pulls)
    PROVE  \A t : t \in Starts(all) <=> \E k \in DOMAIN pulls : t = FirstOf(pulls[k])
<1>0. /\ PullGap \in Nat /\ DOMAIN pulls = 1 .. Len(pulls) /\ Len(pulls) \in Nat
    BY LenProperties DEF ArePulls
<1>1. \A r : r \in all <=> \E k \in DOMAIN pulls : r \in pulls[k] BY DEF Range
<1>2. \A t : t \in Starts(all) <=> /\ \E r \in all : r.time = t
                                   /\ \A s \in all : s.time < t => t - s.time > PullGap
    BY DEF Starts, Times
<1>3. ASSUME NEW t \in Starts(all) PROVE \E k \in DOMAIN pulls : t = FirstOf(pulls[k])
    <2>1. PICK r \in all : r.time = t BY <1>2, <1>3
    <2>2. PICK k \in DOMAIN pulls : r \in pulls[k] BY <1>1, <2>1
    <2>3. ~\E s \in pulls[k] : s.time < r.time /\ r.time - s.time <= PullGap
        <3> SUFFICES ASSUME NEW s \in pulls[k], s.time < r.time, r.time - s.time <= PullGap PROVE FALSE OBVIOUS
        <3>1. s \in all BY <1>1
        <3>2. r.time - s.time > PullGap BY <1>2, <1>3, <2>1, <3>1
        <3>3. r.time \in Nat /\ s.time \in Nat BY <2>2, PullTimes
        <3> QED BY <1>0, <3>2, <3>3
    <2>4. \A s \in pulls[k] : r.time <= s.time BY <2>2, <2>3 DEF ArePulls, Batched
    <2>5. PICK s \in pulls[k] : s.time = FirstOf(pulls[k]) BY PullTimes
    <2>6. /\ FirstOf(pulls[k]) \in Nat /\ r.time \in Nat
          /\ FirstOf(pulls[k]) <= r.time
        BY <2>2, PullTimes
    <2>7. r.time <= FirstOf(pulls[k]) BY <2>4, <2>5
    <2> QED BY <2>1, <2>6, <2>7
<1>4. ASSUME NEW k \in DOMAIN pulls PROVE FirstOf(pulls[k]) \in Starts(all)
    <2> DEFINE t == FirstOf(pulls[k])
    <2>1. \E r \in all : r.time = t BY <1>1, PullTimes
    <2>2. ASSUME NEW s \in all, s.time < t PROVE t - s.time > PullGap
        <3>1. PICK l \in DOMAIN pulls : s \in pulls[l] BY <1>1
        <3>2. t \in Nat /\ LastOf(pulls[k]) \in Nat /\ t <= LastOf(pulls[k]) BY PullTimes
        <3>3. /\ s.time \in Nat /\ FirstOf(pulls[l]) \in Nat /\ LastOf(pulls[l]) \in Nat
              /\ FirstOf(pulls[l]) <= s.time /\ s.time <= LastOf(pulls[l])
            BY <3>1, PullTimes
        <3>4. CASE l < k
            <4>1. t - LastOf(pulls[l]) > PullGap BY <3>4, PullsApart
            <4> QED BY <1>0, <3>2, <3>3, <4>1
        <3>5. CASE k < l
            <4>1. FirstOf(pulls[l]) - LastOf(pulls[k]) > PullGap BY <3>5, PullsApart
            <4> QED BY <1>0, <2>2, <3>2, <3>3, <4>1
        <3>6. CASE k = l BY <2>2, <3>2, <3>3, <3>6
        <3> QED BY <1>0, <3>4, <3>5, <3>6
    <2> QED BY <1>2, <2>1, <2>2
<1> QED BY <1>3, <1>4

\* The pulls read are those there are: each with its own records (read_pulls, import_snapshot).
LEMMA PullsRead ==
    ASSUME NEW pulls, NEW b, ArePulls(pulls, b), NEW all, all = UNION Range(pulls)
    PROVE  /\ Len(Pulls(all)) = Len(pulls) /\ DOMAIN Pulls(all) = DOMAIN pulls
           /\ \A k \in DOMAIN pulls : /\ Pulls(all)[k].ended = LastOf(pulls[k])
                                      /\ Pulls(all)[k].kinds = {r.kind : r \in pulls[k]}
                                      /\ Objects(all, Pulls(all)[k]) = pulls[k]
<1> DEFINE n == Len(pulls)
           m == [k \in 1 .. n |-> FirstOf(pulls[k])]
<1>0. PullGap \in Nat /\ DOMAIN pulls = 1 .. n /\ n \in Nat
    BY LenProperties DEF ArePulls
<1>1. \A r : r \in all <=> \E k \in DOMAIN pulls : r \in pulls[k] BY DEF Range
<1> HIDE DEF n
<1>2. \A k, l \in 1 .. n : k < l => LastOf(pulls[k]) < FirstOf(pulls[l])
    <2> SUFFICES ASSUME NEW k \in 1 .. n, NEW l \in 1 .. n, k < l PROVE LastOf(pulls[k]) < FirstOf(pulls[l]) OBVIOUS
    <2>1. FirstOf(pulls[l]) - LastOf(pulls[k]) > PullGap BY <1>0, PullsApart
    <2>2. FirstOf(pulls[l]) \in Nat /\ LastOf(pulls[k]) \in Nat BY <1>0, PullTimes
    <2> QED BY <1>0, <2>1, <2>2
<1>3. \A k \in 1 .. n : /\ FirstOf(pulls[k]) \in Nat /\ LastOf(pulls[k]) \in Nat
                        /\ FirstOf(pulls[k]) <= LastOf(pulls[k])
                        /\ \A r \in pulls[k] : r.time \in Nat /\ FirstOf(pulls[k]) <= r.time /\ r.time <= LastOf(pulls[k])
    <2> SUFFICES ASSUME NEW k \in 1 .. n
                 PROVE  /\ FirstOf(pulls[k]) \in Nat /\ LastOf(pulls[k]) \in Nat
                        /\ FirstOf(pulls[k]) <= LastOf(pulls[k])
                        /\ \A r \in pulls[k] : r.time \in Nat /\ FirstOf(pulls[k]) <= r.time /\ r.time <= LastOf(pulls[k])
        OBVIOUS
    <2>1. /\ \A r \in pulls[k] : r.time \in Nat /\ FirstOf(pulls[k]) <= r.time /\ r.time <= LastOf(pulls[k])
          /\ \E r \in pulls[k] : r.time = FirstOf(pulls[k])
          /\ FirstOf(pulls[k]) \in Nat /\ LastOf(pulls[k]) \in 0 .. b
        BY <1>0, PullTimes
    <2>2. b \in Nat BY DEF ArePulls
    <2> QED BY <2>1, <2>2
<1>4. \A k, l \in 1 .. n : k < l => m[k] < m[l]
    <2> SUFFICES ASSUME NEW k \in 1 .. n, NEW l \in 1 .. n, k < l PROVE m[k] < m[l] OBVIOUS
    <2>1. LastOf(pulls[k]) < FirstOf(pulls[l]) /\ FirstOf(pulls[k]) <= LastOf(pulls[k]) BY <1>2, <1>3
    <2>2. FirstOf(pulls[k]) \in Nat /\ LastOf(pulls[k]) \in Nat /\ FirstOf(pulls[l]) \in Nat BY <1>3
    <2> QED BY <2>1, <2>2
<1>5. m \in [1 .. n -> Int] BY <1>3
<1>6. Starts(all) = Range(m) BY <1>0, PullsStart DEF Range
<1> HIDE DEF m
<1>7. Sorted(Starts(all)) = m BY <1>0, <1>4, <1>5, <1>6, SortedAsListed
<1>8. Pulls(all) = [k \in 1 .. n |-> PullFrom(all, m[k])]
    <2>1. DOMAIN m = 1 .. n BY DEF m
    <2> QED BY <1>7, <2>1 DEF Pulls
<1>9. Len(Pulls(all)) = n /\ DOMAIN Pulls(all) = 1 .. n BY <1>0, <1>8
<1>10. ASSUME NEW k \in 1 .. n
       PROVE  /\ Pulls(all)[k].started = FirstOf(pulls[k])
              /\ Pulls(all)[k].ended = LastOf(pulls[k])
              /\ Pulls(all)[k].kinds = {r.kind : r \in pulls[k]}
    <2> DEFINE its == {r \in all : /\ r.time >= m[k]
                                   /\ \A t \in Starts(all) : t > m[k] => r.time < t}
    <2>1. m[k] = FirstOf(pulls[k]) BY DEF m
    <2>2. \A r : r \in its <=> r \in pulls[k]
        <3>1. ASSUME NEW r \in its PROVE r \in pulls[k]
            <4>1. PICK l \in 1 .. n : r \in pulls[l] BY <1>0, <1>1
            <4>2. CASE l < k
                <5>1. LastOf(pulls[l]) < FirstOf(pulls[k]) BY <1>2, <4>2
                <5>2. r.time <= LastOf(pulls[l]) /\ r.time >= FirstOf(pulls[k]) BY <1>3, <2>1, <4>1
                <5>3. r.time \in Nat /\ LastOf(pulls[l]) \in Nat /\ FirstOf(pulls[k]) \in Nat BY <1>3, <4>1
                <5> QED BY <5>1, <5>2, <5>3
            <4>3. CASE k < l
                <5>1. FirstOf(pulls[l]) \in Starts(all) BY <1>0, PullsStart
                <5>2. FirstOf(pulls[l]) > m[k] BY <1>4, <4>3, <2>1 DEF m
                <5>3. r.time < FirstOf(pulls[l]) BY <5>1, <5>2
                <5>4. FirstOf(pulls[l]) <= r.time /\ FirstOf(pulls[l]) \in Nat /\ r.time \in Nat BY <1>3, <4>1
                <5> QED BY <5>3, <5>4
            <4> QED BY <1>0, <4>1, <4>2, <4>3
        <3>2. ASSUME NEW r \in pulls[k] PROVE r \in its
            <4>1. r \in all BY <1>0, <1>1
            <4>2. r.time >= m[k] BY <1>3, <2>1
            <4>3. ASSUME NEW t \in Starts(all), t > m[k] PROVE r.time < t
                <5>1. PICK l \in 1 .. n : t = FirstOf(pulls[l]) BY <1>0, PullsStart
                <5>2. k < l
                    <6>1. m[l] = t BY <5>1 DEF m
                    <6>2. l < k => m[l] < m[k] BY <1>4
                    <6>3. m[l] \in Int /\ m[k] \in Int BY <1>5
                    <6> QED BY <1>0, <4>3, <6>1, <6>2, <6>3
                <5>3. LastOf(pulls[k]) < t BY <1>2, <5>1, <5>2
                <5>4. r.time <= LastOf(pulls[k]) /\ r.time \in Nat /\ LastOf(pulls[k]) \in Nat /\ t \in Nat BY <1>3, <5>1
                <5> QED BY <5>3, <5>4
            <4> QED BY <4>1, <4>2, <4>3
        <3> QED BY <3>1, <3>2
    <2>3. PullFrom(all, m[k]) = [started |-> m[k], ended |-> Max(Times(its)), kinds |-> {r.kind : r \in its}]
        BY DEF PullFrom
    <2> HIDE DEF its
    <2>4. its = pulls[k] BY <2>2
    <2> DEFINE kinds == {r.kind : r \in pulls[k]}
    <2>5. Pulls(all)[k] = [started |-> m[k], ended |-> LastOf(pulls[k]), kinds |-> kinds]
        BY <1>8, <2>3, <2>4 DEF LastOf
    <2> HIDE DEF kinds
    <2>6. Pulls(all)[k].kinds = kinds /\ Pulls(all)[k].ended = LastOf(pulls[k]) /\ Pulls(all)[k].started = m[k] BY <2>5
    <2> QED BY <2>1, <2>6 DEF kinds
<1>11. ASSUME NEW k \in 1 .. n PROVE Objects(all, Pulls(all)[k]) = pulls[k]
    <2> DEFINE o == Objects(all, Pulls(all)[k])
    <2>1. \A r : r \in o <=> r \in all /\ FirstOf(pulls[k]) <= r.time /\ r.time <= LastOf(pulls[k])
        BY <1>10 DEF Objects
    <2> HIDE DEF o
    <2>2. \A r \in o : r \in pulls[k]
        <3> SUFFICES ASSUME NEW r \in o PROVE r \in pulls[k] OBVIOUS
        <3>1. r \in all /\ FirstOf(pulls[k]) <= r.time /\ r.time <= LastOf(pulls[k]) BY <2>1
        <3>2. PICK l \in 1 .. n : r \in pulls[l] BY <1>0, <1>1, <3>1
        <3>3. r.time \in Nat /\ FirstOf(pulls[l]) <= r.time /\ r.time <= LastOf(pulls[l]) BY <1>3, <3>2
        <3>4. /\ FirstOf(pulls[l]) \in Nat /\ LastOf(pulls[l]) \in Nat
              /\ FirstOf(pulls[k]) \in Nat /\ LastOf(pulls[k]) \in Nat
            BY <1>3
        <3>5. CASE l < k
            <4>1. LastOf(pulls[l]) < FirstOf(pulls[k]) BY <1>2, <3>5
            <4> QED BY <3>1, <3>3, <3>4, <4>1
        <3>6. CASE k < l
            <4>1. LastOf(pulls[k]) < FirstOf(pulls[l]) BY <1>2, <3>6
            <4> QED BY <3>1, <3>3, <3>4, <4>1
        <3> QED BY <1>0, <3>2, <3>5, <3>6
    <2>3. \A r \in pulls[k] : r \in o BY <1>0, <1>1, <1>3, <2>1
    <2>4. o = pulls[k] BY <2>2, <2>3
    <2> QED BY <2>4 DEF o
<1> QED BY <1>0, <1>9, <1>10, <1>11 DEF n

-----------------------------------------------------------------------------
(* The events there were at a pull's time.                                 *)

\* What a life is, and of one: its states' times, whether it is on, whether the watch
\* records anything of it, and whether what it records tells how it was.
IsLife(l) ==
    /\ l.born \in Nat /\ l.gone \in Nat /\ l.born < l.gone /\ l.dated \in BOOLEAN
    /\ \A t \in l.changes : t \in Nat /\ l.born < t /\ t < l.gone
Changed(l) == {l.born} \cup l.changes
IsThere(l, at) == l.born <= at /\ at < l.gone
Recorded(l, began, ended) == \E t \in {l.born, l.gone} \cup l.changes : began <= t /\ t <= ended
Certain(l, began, at) ==
    \/ \E t \in Changed(l) : began <= t /\ t <= at
    \/ l.dated /\ \A t \in l.changes : t <= at

\* Values that aren't those of times.
NamedValues == {NoEvent, Uncertain, NotKnown} \cap Int = {} /\ NoEvent # Uncertain

\* The state at a time is the last before it.
LEMMA StateIs ==
    ASSUME NEW l, IsLife(l), NEW t \in Nat, l.born <= t
    PROVE  /\ StateAt(l, t) \in Changed(l) /\ StateAt(l, t) \in Nat /\ StateAt(l, t) <= t
           /\ \A c \in Changed(l) : c <= t => c <= StateAt(l, t)
<1> DEFINE C == {c \in Changed(l) : c <= t}
<1>1. \A c \in Changed(l) : c \in Nat BY DEF Changed, IsLife
<1>2. C \subseteq 0 .. t BY <1>1
<1>3. l.born \in C BY DEF Changed
<1>4. StateAt(l, t) = Max(C) BY DEF StateAt, Changed
<1>5. \A c : c \in C <=> c \in Changed(l) /\ c <= t OBVIOUS
<1> HIDE DEF C
<1>6. Max(C) \in C /\ \A c \in C : Max(C) >= c BY <1>2, <1>3, MaxIsGreatest
<1>7. Max(C) \in Nat /\ \A c \in C : c \in Nat BY <1>1, <1>5, <1>6
<1> QED BY <1>4, <1>5, <1>6, <1>7

\* It is the same at another time if it didn't change between the two.
LEMMA StateSame ==
    ASSUME NEW l, NEW t, NEW u, \A c \in Changed(l) : c <= t <=> c <= u
    PROVE  StateAt(l, t) = StateAt(l, u)
<1>1. {c \in Changed(l) : c <= t} = {c \in Changed(l) : c <= u} OBVIOUS
<1> QED BY <1>1 DEF StateAt, Changed

\* Newest and Oldest return a record that none is newer or older than.
LEMMA NewestIs ==
    ASSUME NEW S, NEW s \in Seq(S), s # <<>>, NEW b \in Nat, \A r \in Range(s) : r.time \in 0 .. b
    PROVE  /\ Newest(s) \in Range(s) /\ \A r \in Range(s) : r.time <= Newest(s).time
           /\ Oldest(s) \in Range(s) /\ \A r \in Range(s) : Oldest(s).time <= r.time
<1> DEFINE D == DOMAIN s
           last == {i \in D : \A j \in D : s[j].time <= s[i].time}
           first == {i \in D : \A j \in D : s[i].time <= s[j].time}
           T == {s[i].time : i \in D}
<1>1. /\ Len(s) \in Nat /\ D = 1 .. Len(s)
      /\ \A i \in D : s[i] \in Range(s)
      /\ \A r \in Range(s) : \E i \in D : r = s[i]
    BY LenProperties DEF Range
<1>2. D # {} BY <1>1, EmptySeq
<1>3. Newest(s) = s[Max(last)] /\ Oldest(s) = s[Min(first)] BY DEF Newest, Oldest
<1>4. T \subseteq 0 .. b /\ T # {} BY <1>1, <1>2
<1>5. \A i \in D : s[i].time \in T OBVIOUS
<1>6. \A t \in T : \E i \in D : t = s[i].time OBVIOUS
<1>7. /\ Max(T) \in T /\ \A t \in T : Max(T) >= t
      /\ Min(T) \in T /\ \A t \in T : Min(T) <= t
    <2> HIDE DEF T
    <2>1. T \in SUBSET Nat BY <1>4
    <2> QED BY <1>4, <2>1, MaxIsGreatest, MinIsLeast
<1>8. \A t \in T : t \in Nat BY <1>4
<1> HIDE DEF D, T
<1>9. last # {} /\ first # {}
    <2>1. PICK i \in D : Max(T) = s[i].time BY <1>6, <1>7
    <2>2. PICK j \in D : Min(T) = s[j].time BY <1>6, <1>7
    <2>3. i \in last /\ j \in first BY <1>5, <1>7, <1>8, <2>1, <2>2
    <2> QED BY <2>3
<1>10. last \in SUBSET (0 .. Len(s)) /\ first \in SUBSET Nat BY <1>1
<1>11. Max(last) \in last /\ Min(first) \in first
    <2> HIDE DEF last, first
    <2> QED BY <1>1, <1>9, <1>10, MaxIsGreatest, MinIsLeast
<1>12. Max(last) \in D /\ \A j \in D : s[j].time <= s[Max(last)].time BY <1>11
<1>13. Min(first) \in D /\ \A j \in D : s[Min(first)].time <= s[j].time BY <1>11
<1> HIDE DEF last, first
<1> QED BY <1>1, <1>3, <1>12, <1>13

\* The file holds a record of each time of the watch, twice.
FileOf(w, l, began, ended) ==
    /\ w \in Seq(Range(w))
    /\ \A x : x \in Range(w) <=> \E t \in WatchTimes(l, began, ended), c \in BOOLEAN : x = WatchRecord(l, t, c)

LEMMA WatchIsFile ==
    ASSUME NEW l, IsLife(l), NEW began \in Nat, NEW ended \in Nat
    PROVE  LET w == Watched(l, began, ended) IN
           FileOf(w, l, began, ended) /\ FileOf(Reverse(w), l, began, ended)
<1> DEFINE W == WatchTimes(l, began, ended)
           times == Sorted(W)
           n == Len(times)
           w == Watched(l, began, ended)
<1>1. W \in SUBSET (0 .. ended)
    <2>1. \A t \in {l.born} \cup l.changes \cup {l.gone} : t \in Nat BY DEF IsLife
    <2> QED BY <2>1 DEF WatchTimes
<1>2. IsFiniteSet(W) /\ W \in SUBSET Int
    <2>1. IsFiniteSet(0 .. ended) /\ 0 .. ended \subseteq Int BY FS_Interval
    <2> HIDE DEF W
    <2>2. IsFiniteSet(W) BY <1>1, <2>1, FS_Subset
    <2> QED BY <1>1, <2>1, <2>2
<1>3. /\ times \in Seq(W) /\ Range(times) = W
    <2> HIDE DEF W
    <2> QED BY <1>2, SortedLemma
<1>4. w = [i \in 1 .. 2 * n |-> WatchRecord(l, times[(i + 1) \div 2], i % 2 = 1)] BY DEF Watched
<1>5. n \in Nat /\ DOMAIN times = 1 .. n
    <2> HIDE DEF W
    <2> QED BY <1>3, LenProperties
<1>6. \A x : x \in Range(times) <=> \E k \in 1 .. n : x = times[k] BY <1>5 DEF Range
<1> HIDE DEF W, times, n, w
<1>7. DOMAIN w = 1 .. 2 * n /\ 2 * n \in Nat /\ Len(w) = 2 * n BY <1>4, <1>5
<1>8. ASSUME NEW x, NEW t \in W, NEW c \in BOOLEAN, x = WatchRecord(l, t, c) PROVE x \in Range(w)
    <2>1. PICK k \in 1 .. n : t = times[k] BY <1>3, <1>6
    <2>2. CASE c
        <3>1. 2 * k - 1 \in 1 .. 2 * n /\ ((2 * k - 1) + 1) \div 2 = k /\ (2 * k - 1) % 2 = 1 BY <1>5
        <3>2. w[2 * k - 1] = WatchRecord(l, times[k], TRUE) BY <1>4, <3>1
        <3>3. c = TRUE BY <2>2
        <3> QED BY <1>7, <1>8, <2>1, <3>1, <3>2, <3>3 DEF Range
    <2>3. CASE ~c
        <3>1. 2 * k \in 1 .. 2 * n /\ (2 * k + 1) \div 2 = k /\ (2 * k) % 2 = 0 BY <1>5
        <3>2. w[2 * k] = WatchRecord(l, times[(2 * k + 1) \div 2], (2 * k) % 2 = 1) BY <1>4, <3>1
        <3>3. c = ((2 * k) % 2 = 1) BY <2>3, <3>1
        <3> QED BY <1>7, <1>8, <2>1, <3>1, <3>2, <3>3 DEF Range
    <2> QED BY <2>2, <2>3
<1>9. ASSUME NEW x \in Range(w) PROVE \E t \in W, c \in BOOLEAN : x = WatchRecord(l, t, c)
    <2>1. PICK i \in 1 .. 2 * n : x = w[i] BY <1>7 DEF Range
    <2>2. (i + 1) \div 2 \in 1 .. n BY <1>5
    <2>3. times[(i + 1) \div 2] \in W BY <1>3, <1>6, <2>2
    <2>4. (i % 2 = 1) \in BOOLEAN OBVIOUS
    <2>5. x = WatchRecord(l, times[(i + 1) \div 2], i % 2 = 1) BY <1>4, <2>1
    <2> QED BY <2>3, <2>4, <2>5
<1>10. \A x : x \in Range(w) <=> \E t \in W, c \in BOOLEAN : x = WatchRecord(l, t, c) BY <1>8, <1>9
<1>11. w \in Seq(Range(w))
    <2>1. \A i \in 1 .. 2 * n : w[i] \in Range(w) BY <1>7 DEF Range
    <2>2. w = [i \in 1 .. 2 * n |-> w[i]] BY <1>4
    <2> QED BY <1>7, <2>1, <2>2
<1> DEFINE r == Reverse(w)
<1>12. r = [i \in 1 .. 2 * n |-> w[(2 * n - i) + 1]] BY <1>7 DEF Reverse
<1>13. Range(r) = Range(w)
    <2> HIDE DEF r
    <2>1. DOMAIN r = 1 .. 2 * n BY <1>12
    <2>2. \A i \in 1 .. 2 * n : r[i] \in Range(w)
        <3> SUFFICES ASSUME NEW i \in 1 .. 2 * n PROVE r[i] \in Range(w) OBVIOUS
        <3>1. (2 * n - i) + 1 \in 1 .. 2 * n BY <1>7
        <3>2. r[i] = w[(2 * n - i) + 1] BY <1>12
        <3> QED BY <1>7, <3>1, <3>2 DEF Range
    <2>3. \A i \in 1 .. 2 * n : w[i] \in Range(r)
        <3> SUFFICES ASSUME NEW i \in 1 .. 2 * n PROVE w[i] \in Range(r) OBVIOUS
        <3> DEFINE j == (2 * n - i) + 1
        <3>1. j \in 1 .. 2 * n /\ (2 * n - j) + 1 = i BY <1>7
        <3> HIDE DEF j
        <3>2. r[j] = w[i] BY <1>12, <3>1
        <3> QED BY <2>1, <3>1, <3>2 DEF Range
    <2>4. \A x : x \in Range(r) <=> \E i \in 1 .. 2 * n : x = r[i] BY <2>1 DEF Range
    <2>5. \A x : x \in Range(w) <=> \E i \in 1 .. 2 * n : x = w[i] BY <1>7 DEF Range
    <2>6. \A x : x \in Range(r) <=> x \in Range(w) BY <2>2, <2>3, <2>4, <2>5
    <2> QED BY <2>6
<1>14. r \in Seq(Range(r))
    <2> HIDE DEF r
    <2>1. DOMAIN r = 1 .. 2 * n BY <1>12
    <2>2. \A i \in 1 .. 2 * n : r[i] \in Range(r) BY <2>1 DEF Range
    <2>3. r = [i \in 1 .. 2 * n |-> r[i]] BY <1>12
    <2> QED BY <1>7, <2>2, <2>3
<1> HIDE DEF r
<1> QED BY <1>10, <1>11, <1>13, <1>14 DEF FileOf, W, w, r

\* What the watch's files tell of an event at a time of the watch: its state then, if
\* it was there and that can be told, and else whether it was (_events).
EventAtTold(e, l, began, ended, at) ==
    /\ e \notin {NoEvent, Uncertain} => IsThere(l, at) /\ Recorded(l, began, ended) /\ e = StateAt(l, at)
    /\ e = NoEvent => ~(IsThere(l, at) /\ Recorded(l, began, ended))
    /\ e = Uncertain => IsThere(l, at) /\ Recorded(l, began, ended) /\ ~Certain(l, began, at)

LEMMA EventOfFile ==
    ASSUME NamedValues, NEW l, IsLife(l), NEW began \in Nat, NEW ended \in Nat,
           NEW at \in Nat, began <= at, at <= ended, NEW w, FileOf(w, l, began, ended)
    PROVE  EventAtTold(EventAt(w, at), l, began, ended, at)
<1> DEFINE W == WatchTimes(l, began, ended)
           core == {r \in Range(w) : r.core}
           history == Those(w, core)
           old == {r \in Range(history) : r.time <= at}
           before == Those(history, old)
           first == Oldest(history)
           e == EventAt(w, at)
           rec(t) == WatchRecord(l, t, TRUE)
<1>12. e = IF history = <<>> THEN NoEvent
           ELSE IF before # <<>>
                THEN IF Newest(before).type = "DELETED" THEN NoEvent ELSE Newest(before).state
           ELSE IF first.type = "ADDED" THEN NoEvent
           ELSE IF first.type = "DELETED" /\ first.last # NotKnown /\ first.last <= at
                THEN first.state
           ELSE Uncertain
    BY DEF EventAt
<1>1. \A t : t \in W <=> t \in Changed(l) \cup {l.gone} /\ began <= t /\ t <= ended
    BY DEF WatchTimes, Changed
<1>2. /\ l.born \in Nat /\ l.gone \in Nat /\ l.born < l.gone /\ l.dated \in BOOLEAN
      /\ \A t \in Changed(l) : t \in Nat /\ l.born <= t /\ t < l.gone
      /\ \A t \in Changed(l) : t = l.born \/ t \in l.changes
    BY DEF IsLife, Changed
<1>3. \A t \in W : t \in Nat /\ t \in 0 .. ended /\ began <= t /\ (t \in Changed(l) \/ t = l.gone) BY <1>1, <1>2
<1>4. \A t, c : /\ WatchRecord(l, t, c).core = c /\ WatchRecord(l, t, c).time = t
                /\ WatchRecord(l, t, c).state = StateAt(l, t)
    BY DEF WatchRecord
<1>5. \A t : /\ rec(t).type = (IF t = l.gone THEN "DELETED" ELSE IF t = l.born THEN "ADDED" ELSE "MODIFIED")
             /\ rec(t).last = (IF l.dated THEN StateAt(l, t) ELSE NotKnown)
    BY DEF WatchRecord
<1>6. \A x : x \in Range(w) <=> \E t \in W, c \in BOOLEAN : x = WatchRecord(l, t, c) BY DEF FileOf
<1>7. \A x : x \in core <=> \E t \in W : x = rec(t)
    <2>1. \A x : x \in core <=> x \in Range(w) /\ x.core OBVIOUS
    <2>2. \A t : WatchRecord(l, t, TRUE).core /\ ~WatchRecord(l, t, FALSE).core BY DEF WatchRecord
    <2> HIDE DEF core, W
    <2>3. ASSUME NEW x \in core PROVE \E t \in W : x = rec(t)
        <3>1. PICK t \in W, c \in BOOLEAN : x = WatchRecord(l, t, c) BY <1>6, <2>1
        <3>2. c # FALSE BY <2>1, <2>2, <3>1
        <3>3. c = TRUE BY <3>2
        <3> QED BY <3>1, <3>3
    <2>4. ASSUME NEW t \in W PROVE rec(t) \in core
        <3>1. rec(t) \in Range(w) BY <1>6
        <3> QED BY <2>1, <2>2, <3>1
    <2> QED BY <2>3, <2>4
<1>8. history \in Seq(Range(w)) /\ Range(history) = core
    <2>1. w \in Seq(Range(w)) BY DEF FileOf
    <2>2. core \subseteq Range(w) OBVIOUS
    <2> HIDE DEF core
    <2>3. Those(w, core) \in Seq(Range(w)) /\ Range(Those(w, core)) = Range(w) \cap core BY <2>1, ThoseLemma
    <2> QED BY <2>2, <2>3
<1> HIDE DEF core
<1>9. \A x : x \in Range(history) <=> \E t \in W : x = rec(t) BY <1>7, <1>8
<1>10. before \in Seq(Range(w)) /\ Range(before) = old
    <2>1. old \subseteq Range(history) OBVIOUS
    <2> HIDE DEF old, history
    <2>2. Those(history, old) \in Seq(Range(w)) /\ Range(Those(history, old)) = Range(history) \cap old
        BY <1>8, ThoseLemma
    <2> QED BY <2>1, <2>2
<1>11. \A x : x \in Range(before) <=> \E t \in W : t <= at /\ x = rec(t)
    <2>1. \A x : x \in old <=> x \in Range(history) /\ x.time <= at OBVIOUS
    <2> HIDE DEF old, history, W
    <2>2. \A t : rec(t).time = t BY <1>4
    <2> HIDE DEF rec
    <2> QED BY <1>9, <1>10, <2>1, <2>2
<1>13. (history = <<>> <=> W = {}) /\ (before = <<>> <=> ~\E t \in W : t <= at)
    <2>1. history = <<>> <=> Range(history) = {} BY <1>8, RangeOfNone
    <2>2. before = <<>> <=> Range(before) = {} BY <1>10, RangeOfNone
    <2> HIDE DEF history, before, W
    <2> QED BY <1>9, <1>11, <2>1, <2>2
<1>14. Recorded(l, began, ended) <=> W # {}
    <2>1. \A t : t \in {l.born, l.gone} \cup l.changes <=> t \in Changed(l) \cup {l.gone} BY DEF Changed
    <2> HIDE DEF W
    <2> QED BY <1>1, <2>1 DEF Recorded
<1>15. before # <<>> => \E t \in W : /\ t <= at /\ Newest(before) = rec(t)
                                     /\ \A u \in W : u <= at => u <= t
    <2> SUFFICES ASSUME before # <<>> PROVE \E t \in W : /\ t <= at /\ Newest(before) = rec(t)
                                                         /\ \A u \in W : u <= at => u <= t
        OBVIOUS
    <2> HIDE DEF before, history, W, old
    <2>1. \A r \in Range(before) : r.time \in 0 .. ended
        <3> SUFFICES ASSUME NEW r \in Range(before) PROVE r.time \in 0 .. ended OBVIOUS
        <3>1. PICK t \in W : r = rec(t) BY <1>11
        <3> QED BY <1>3, <1>4, <3>1
    <2>2. Newest(before) \in Range(before) /\ \A r \in Range(before) : r.time <= Newest(before).time
        BY <1>10, <2>1, NewestIs
    <2>3. PICK t \in W : t <= at /\ Newest(before) = rec(t) BY <1>11, <2>2
    <2>4. \A u \in W : u <= at => rec(u) \in Range(before) /\ rec(u).time = u BY <1>4, <1>11
    <2>5. Newest(before).time = t BY <1>4, <2>3
    <2>6. \A u \in W : u <= at => u <= t BY <2>2, <2>4, <2>5
    <2> QED BY <2>3, <2>6
<1>16. history # <<>> => \E t \in W : first = rec(t) /\ \A u \in W : t <= u
    <2> SUFFICES ASSUME history # <<>> PROVE \E t \in W : first = rec(t) /\ \A u \in W : t <= u OBVIOUS
    <2> HIDE DEF history, W
    <2>1. \A r \in Range(history) : r.time \in 0 .. ended
        <3> SUFFICES ASSUME NEW r \in Range(history) PROVE r.time \in 0 .. ended OBVIOUS
        <3>1. PICK t \in W : r = rec(t) BY <1>9
        <3> QED BY <1>3, <1>4, <3>1
    <2>2. first \in Range(history) /\ \A r \in Range(history) : first.time <= r.time
        BY <1>8, <2>1, NewestIs
    <2>3. PICK t \in W : first = rec(t) BY <1>9, <2>2
    <2>4. \A u \in W : rec(u) \in Range(history) /\ rec(u).time = u BY <1>4, <1>9
    <2>5. first.time = t BY <1>4, <2>3
    <2> HIDE DEF first, rec
    <2>6. \A u \in W : t <= u BY <2>2, <2>4, <2>5
    <2> QED BY <2>3, <2>6
<1>17. \A t \in Nat : l.born <= t => /\ StateAt(l, t) \in Changed(l) /\ StateAt(l, t) \in Nat
                                     /\ \A c \in Changed(l) : c <= t => c <= StateAt(l, t)
    BY StateIs
<1>18. \A t, u : (\A c \in Changed(l) : c <= t <=> c <= u) => StateAt(l, t) = StateAt(l, u) BY StateSame
<1>19. \A t, u : StateAt(l, t) \in Nat => StateAt(l, t) \notin {NoEvent, Uncertain, NotKnown} BY DEF NamedValues
<1> HIDE DEF W, history, before, first, e, old
<1>20. CASE history = <<>>
    <2>1. e = NoEvent /\ ~Recorded(l, began, ended) BY <1>12, <1>13, <1>14, <1>20
    <2> QED BY <2>1 DEF EventAtTold, NamedValues, e
<1>21. CASE history # <<>> /\ before # <<>>
    <2>1. PICK t \in W : t <= at /\ Newest(before) = rec(t) /\ \A u \in W : u <= at => u <= t BY <1>15, <1>21
    <2>2. t \in Nat /\ began <= t BY <1>3
    <2>3. CASE t = l.gone
        <3>1. e = NoEvent BY <1>5, <1>12, <1>21, <2>1, <2>3
        <3>2. ~IsThere(l, at) BY <1>2, <2>1, <2>3 DEF IsThere
        <3> QED BY <3>1, <3>2 DEF EventAtTold, NamedValues, e
    <2>4. CASE t # l.gone
        <3>1. t \in Changed(l) /\ l.born <= t BY <1>2, <1>3, <2>4
        <3>2. e = StateAt(l, t)
            <4>1. rec(t).type # "DELETED" /\ rec(t).state = StateAt(l, t) BY <1>4, <1>5, <2>4
            <4> HIDE DEF rec
            <4> QED BY <1>12, <1>21, <2>1, <4>1
        <3>3. \A c \in Changed(l) : c <= t <=> c <= at
            <4> SUFFICES ASSUME NEW c \in Changed(l) PROVE c <= t <=> c <= at OBVIOUS
            <4>1. c \in Nat BY <1>2
            <4>2. c <= at /\ ~(c <= t) => c \in W BY <1>1, <2>2, <4>1
            <4> QED BY <2>1, <2>2, <4>1, <4>2
        <3>4. StateAt(l, t) = StateAt(l, at) BY <1>18, <3>3
        <3>5. StateAt(l, t) \notin {NoEvent, Uncertain} BY <1>17, <1>19, <2>2, <3>1
        <3>6. at < l.gone
            <4>1. l.gone <= at => l.gone \in W BY <1>1, <1>2, <2>2, <3>1
            <4>2. t < l.gone BY <1>2, <3>1
            <4> QED BY <1>2, <2>1, <2>2, <4>1, <4>2
        <3>7. IsThere(l, at) BY <1>2, <2>1, <2>2, <3>1, <3>6 DEF IsThere
        <3>8. Recorded(l, began, ended) BY <1>14
        <3> QED BY <3>2, <3>4, <3>5, <3>7, <3>8 DEF EventAtTold, e
    <2> QED BY <2>3, <2>4
<1>22. CASE history # <<>> /\ before = <<>>
    <2>1. PICK t \in W : first = rec(t) /\ \A u \in W : t <= u BY <1>16, <1>22
    <2>2. t \in Nat /\ began <= t /\ at < t /\ t <= ended BY <1>1, <1>3, <1>13, <1>22
    <2>3. \A c \in Changed(l) : began <= c => ~(c <= at) BY <1>1, <1>2, <1>13, <1>22
    <2>4. Recorded(l, began, ended) BY <1>14
    <2>5. CASE t = l.born
        <3>1. e = NoEvent
            <4>0. t # l.gone BY <1>2, <2>5
            <4>1. rec(t).type = "ADDED" BY <1>5, <2>5, <4>0
            <4> HIDE DEF rec
            <4> QED BY <1>12, <1>22, <2>1, <4>1
        <3>2. ~IsThere(l, at) BY <2>2, <2>5 DEF IsThere
        <3> QED BY <3>1, <3>2 DEF EventAtTold, NamedValues, e
    <2>6. CASE t # l.born
        <3>1. l.born <= at
            <4>1. ~(l.born <= at) => l.born \in W
                <5>1. t <= l.gone BY <1>2, <1>3
                <5>2. l.born \in Changed(l) BY DEF Changed
                <5>3. t \in Changed(l) => l.born <= t BY <1>2
                <5>4. l.born <= t BY <1>2, <1>3, <5>3
                <5> QED BY <1>1, <1>2, <2>2, <5>2, <5>4
            <4>2. l.born \in W => t <= l.born BY <2>1
            <4>3. l.born <= t BY <1>2, <1>3
            <4> QED BY <1>2, <2>2, <2>6, <4>1, <4>2, <4>3
        <3>2. at < l.gone
            <4>1. t <= l.gone BY <1>2, <1>3
            <4> QED BY <1>2, <2>2, <4>1
        <3>3. IsThere(l, at) BY <3>1, <3>2 DEF IsThere
        <3>4. e = IF t = l.gone /\ l.dated /\ StateAt(l, t) <= at THEN StateAt(l, t) ELSE Uncertain
            <4>1. rec(t).type # "ADDED" BY <1>5, <2>6
            <4>2. rec(t).type = "DELETED" <=> t = l.gone BY <1>5
            <4>3. l.born <= t BY <1>2, <2>2, <3>1
            <4>4. StateAt(l, t) # NotKnown BY <1>17, <1>19, <2>2, <4>3
            <4>5. rec(t).last # NotKnown <=> l.dated BY <1>5, <4>4
            <4>6. l.dated => rec(t).last = StateAt(l, t) BY <1>5
            <4>7. rec(t).state = StateAt(l, t) BY <1>4
            <4> HIDE DEF rec
            <4> QED BY <1>12, <1>22, <2>1, <4>1, <4>2, <4>5, <4>6, <4>7
        <3>5. CASE t = l.gone /\ l.dated /\ StateAt(l, t) <= at
            <4>1. \A c \in Changed(l) : c <= t <=> c <= at
                <5> SUFFICES ASSUME NEW c \in Changed(l) PROVE c <= t /\ c <= at OBVIOUS
                <5>1. c \in Nat /\ c <= t BY <1>2, <3>5
                <5>2. c <= StateAt(l, t) /\ StateAt(l, t) \in Nat BY <1>2, <1>17, <2>2, <3>5, <5>1
                <5> QED BY <3>5, <5>1, <5>2
            <4>2. StateAt(l, t) = StateAt(l, at) BY <1>18, <4>1
            <4>3. StateAt(l, t) \notin {NoEvent, Uncertain} BY <1>2, <1>17, <1>19, <2>2, <3>5
            <4> QED BY <2>4, <3>3, <3>4, <3>5, <4>2, <4>3 DEF EventAtTold, e
        <3>6. CASE ~(t = l.gone /\ l.dated /\ StateAt(l, t) <= at)
            <4>1. e = Uncertain BY <3>4, <3>6
            <4>2. ~\E u \in Changed(l) : began <= u /\ u <= at BY <2>3
            <4>3. ~(l.dated /\ \A c \in l.changes : c <= at)
                <5> SUFFICES ASSUME l.dated, \A c \in l.changes : c <= at PROVE FALSE OBVIOUS
                <5>1. \A c \in Changed(l) : c <= at BY <1>2, <3>1
                <5>2. t = l.gone BY <1>3, <2>2, <5>1
                <5>3. StateAt(l, t) \in Changed(l) BY <1>2, <1>17, <2>2, <5>2
                <5> QED BY <3>6, <5>1, <5>2, <5>3
            <4>4. ~Certain(l, began, at) BY <4>2, <4>3 DEF Certain
            <4> QED BY <2>4, <3>3, <4>1, <4>4 DEF EventAtTold, NamedValues, e
        <3> QED BY <3>5, <3>6
    <2> QED BY <2>5, <2>6
<1> QED BY <1>20, <1>21, <1>22

\* The events of which the watch recorded anything that were there, and what an import
\* tells of them.
PresentOf(lives, began, ended, at) ==
    {i \in DOMAIN lives : IsThere(lives[i], at) /\ Recorded(lives[i], began, ended)}
EventsTrue(got, lives, began, ended, at) ==
    LET present == PresentOf(lives, began, ended, at) IN
    /\ \A i \in DOMAIN got.events : i \in present /\ got.events[i] = StateAt(lives[i], at)
    /\ got.unknown = Cardinality({i \in present : i \notin DOMAIN got.events})
    /\ \A i \in present : Certain(lives[i], began, at) => i \in DOMAIN got.events

\* The events imported were there, in the state told, and those that were there but
\* aren't imported are counted (_events, import_snapshot).
LEMMA EventsImported ==
    ASSUME NamedValues, NEW lives, \A i \in DOMAIN lives : IsLife(lives[i]),
           NEW began \in Nat, NEW ended \in Nat, NEW at \in Nat, began <= at, at <= ended,
           NEW watched, DOMAIN watched = DOMAIN lives,
           \A i \in DOMAIN lives : FileOf(watched[i], lives[i], began, ended)
    PROVE  EventsTrue(EventsAt(watched, at), lives, began, ended, at)
<1> DEFINE was == [i \in DOMAIN watched |-> EventAt(watched[i], at)]
           D == DOMAIN lives
           told == {i \in DOMAIN was : was[i] \notin {NoEvent, Uncertain}}
           got == EventsAt(watched, at)
           present == PresentOf(lives, began, ended, at)
<1>1. \A i \in D : EventAtTold(was[i], lives[i], began, ended, at) BY EventOfFile
<1>2. DOMAIN was = D OBVIOUS
<1>3. got.events = [i \in told |-> was[i]] /\ got.unknown = Cardinality({i \in DOMAIN was : was[i] = Uncertain})
    BY DEF EventsAt
<1> HIDE DEF was, got
<1>4. \A i : i \in told <=> i \in D /\ was[i] # NoEvent /\ was[i] # Uncertain BY <1>2
<1>5. \A i : i \in present <=> i \in D /\ IsThere(lives[i], at) /\ Recorded(lives[i], began, ended)
    BY DEF PresentOf
<1> HIDE DEF told, D, present
<1>6. DOMAIN got.events = told /\ \A i \in told : got.events[i] = was[i] BY <1>3
<1>7. \A i \in D : /\ was[i] \notin {NoEvent, Uncertain} =>
                        /\ IsThere(lives[i], at) /\ Recorded(lives[i], began, ended)
                        /\ was[i] = StateAt(lives[i], at)
                   /\ was[i] = NoEvent => ~(IsThere(lives[i], at) /\ Recorded(lives[i], began, ended))
                   /\ was[i] = Uncertain => /\ IsThere(lives[i], at) /\ Recorded(lives[i], began, ended)
                                            /\ ~Certain(lives[i], began, at)
    BY <1>1 DEF EventAtTold
<1>8. \A i : i \in D /\ was[i] = Uncertain <=> i \in present /\ i \notin told
    <2>1. NoEvent # Uncertain BY DEF NamedValues
    <2> QED BY <1>4, <1>5, <1>7, <2>1
<1>9. {i \in DOMAIN was : was[i] = Uncertain} = {i \in present : i \notin told} BY <1>2, <1>8
<1>10. \A i \in told : i \in present /\ was[i] = StateAt(lives[i], at) BY <1>4, <1>5, <1>7
<1>11. \A i \in present : Certain(lives[i], began, at) => i \in told BY <1>4, <1>5, <1>7
<1> QED BY <1>3, <1>6, <1>9, <1>10, <1>11 DEF EventsTrue, got, present

-----------------------------------------------------------------------------
(* The logs of a snapshot's containers.                                    *)

\* The order of a file's records: that of their times, or else of their places.
RecordBefore(records, i, j) ==
    records[i].time < records[j].time \/ (records[i].time = records[j].time /\ i < j)

RecordsOf(records, its) ==
    [k \in 1 .. Cardinality(its) |->
        records[CHOOSE i \in its : Cardinality({j \in its : RecordBefore(records, j, i)}) = k - 1]]

\* Records listed by how many are before them are all there, in order.
LEMMA RecordsListed ==
    ASSUME NEW n \in Nat, NEW records, DOMAIN records = 1 .. n, \A i \in 1 .. n : records[i].time \in Nat,
           NEW its \in SUBSET (1 .. n)
    PROVE  LET log == RecordsOf(records, its) IN
           /\ \A x : x \in Range(log) <=> \E i \in its : x = records[i]
           /\ \A k, l \in DOMAIN log : k < l => \E i, j \in its :
                log[k] = records[i] /\ log[l] = records[j] /\ RecordBefore(records, i, j)
<1> DEFINE R == {p \in its \X its : RecordBefore(records, p[1], p[2])}
           nth(k) == CHOOSE i \in its : Cardinality({j \in its : RecordBefore(records, j, i)}) = k - 1
           c == Cardinality(its)
           log == RecordsOf(records, its)
<1>1. \A i, j \in its : <<i, j>> \in R <=> RecordBefore(records, i, j) OBVIOUS
<1>2. \A i \in its : Earlier(R, its, i) = {j \in its : RecordBefore(records, j, i)} BY <1>1 DEF Earlier
<1>3. IsFiniteSet(its)
    <2>1. IsFiniteSet(1 .. n) BY FS_Interval
    <2> QED BY <2>1, FS_Subset
<1> HIDE DEF R
<1>4. \A i \in its : i \in Nat /\ records[i].time \in Nat OBVIOUS
<1>5. /\ \A i \in its : <<i, i>> \notin R
      /\ \A i, j, k \in its : <<i, j>> \in R /\ <<j, k>> \in R => <<i, k>> \in R
      /\ \A i, j \in its : i = j \/ <<i, j>> \in R \/ <<j, i>> \in R
    <2>1. \A i \in its : ~RecordBefore(records, i, i) BY <1>4 DEF RecordBefore
    <2>2. \A i, j, k \in its : RecordBefore(records, i, j) /\ RecordBefore(records, j, k) => RecordBefore(records, i, k)
        BY <1>4 DEF RecordBefore
    <2>3. \A i, j \in its : i = j \/ RecordBefore(records, i, j) \/ RecordBefore(records, j, i)
        <3> SUFFICES ASSUME NEW i \in its, NEW j \in its, i # j
                     PROVE  RecordBefore(records, i, j) \/ RecordBefore(records, j, i) OBVIOUS
        <3> DEFINE t == records[i].time
                   u == records[j].time
        <3>1. i \in Nat /\ j \in Nat /\ t \in Nat /\ u \in Nat BY <1>4
        <3> HIDE DEF t, u
        <3>2. t < u \/ u < t \/ (t = u /\ i < j) \/ (u = t /\ j < i) BY <3>1
        <3> QED BY <3>2 DEF RecordBefore, t, u
    <2> QED BY <1>1, <2>1, <2>2, <2>3
<1>6. /\ c \in Nat
      /\ \A k \in 1 .. c : InPlace(R, its, k) \in its
      /\ \A i \in its : \E k \in 1 .. c : InPlace(R, its, k) = i
      /\ \A k, l \in 1 .. c : k < l => <<InPlace(R, its, k), InPlace(R, its, l)>> \in R
    <2>1. /\ c \in Nat
          /\ \A k \in 1 .. c : InPlace(R, its, k) \in its /\ Cardinality(Earlier(R, its, InPlace(R, its, k))) = k - 1
          /\ \A i \in its : /\ Cardinality(Earlier(R, its, i)) + 1 \in 1 .. c
                            /\ InPlace(R, its, Cardinality(Earlier(R, its, i)) + 1) = i
          /\ \A k, l \in 1 .. c : k < l => <<InPlace(R, its, k), InPlace(R, its, l)>> \in R
        BY <1>3, <1>5, RankedLemma
    <2> HIDE DEF c
    <2> QED BY <2>1
<1>7. \A k : InPlace(R, its, k) = nth(k) BY <1>2 DEF InPlace
<1>8. log = [k \in 1 .. c |-> records[nth(k)]] BY DEF RecordsOf
<1> HIDE DEF nth, c, log
<1>9. DOMAIN log = 1 .. c /\ \A k \in 1 .. c : log[k] = records[InPlace(R, its, k)] BY <1>7, <1>8
<1>10. \A x : x \in Range(log) <=> \E i \in its : x = records[i]
    <2>1. \A x : x \in Range(log) <=> \E k \in 1 .. c : x = log[k] BY <1>9 DEF Range
    <2>2. \A k \in 1 .. c : \E i \in its : log[k] = records[i] BY <1>6, <1>9
    <2>3. \A i \in its : \E k \in 1 .. c : log[k] = records[i]
        <3> SUFFICES ASSUME NEW i \in its PROVE \E k \in 1 .. c : log[k] = records[i] OBVIOUS
        <3>1. PICK k \in 1 .. c : InPlace(R, its, k) = i BY <1>6
        <3> QED BY <1>9, <3>1
    <2>4. ASSUME NEW x \in Range(log) PROVE \E i \in its : x = records[i] BY <2>1, <2>2
    <2>5. ASSUME NEW i \in its PROVE records[i] \in Range(log) BY <2>1, <2>3
    <2> QED BY <2>4, <2>5
<1>11. \A k, l \in DOMAIN log : k < l => \E i, j \in its :
         log[k] = records[i] /\ log[l] = records[j] /\ RecordBefore(records, i, j)
    <2> SUFFICES ASSUME NEW k \in 1 .. c, NEW l \in 1 .. c, k < l
                 PROVE  \E i, j \in its :
                            log[k] = records[i] /\ log[l] = records[j] /\ RecordBefore(records, i, j)
        BY <1>9
    <2>1. InPlace(R, its, k) \in its /\ InPlace(R, its, l) \in its /\ <<InPlace(R, its, k), InPlace(R, its, l)>> \in R
        BY <1>6
    <2>2. RecordBefore(records, InPlace(R, its, k), InPlace(R, its, l)) BY <1>1, <2>1
    <2> QED BY <1>9, <2>1, <2>2
<1> QED BY <1>10, <1>11 DEF log

\* Records in different places are counted once each.
AtPlaces(records, its) == {records[i] : i \in its}
AllApart(records) == \A i, j \in DOMAIN records : records[i] = records[j] => i = j
LEMMA RecordsCounted ==
    ASSUME NEW records, IsFiniteSet(DOMAIN records), AllApart(records), NEW its, its \subseteq DOMAIN records
    PROVE  /\ IsFiniteSet(its) /\ IsFiniteSet(AtPlaces(records, its))
           /\ Cardinality(AtPlaces(records, its)) = Cardinality(its)
<1> DEFINE f == [i \in its |-> records[i]]
<1>1. IsFiniteSet(its) BY FS_Subset
<1> DEFINE found == AtPlaces(records, its)
<1>3. f \in [its -> found] /\ (\A x \in found : \E i \in its : f[i] = x) /\ DOMAIN f = its BY DEF AtPlaces
<1>4. \A i, j \in its : f[i] = f[j] => i = j BY DEF AllApart
<1> HIDE DEF f, found
<1>5. f \in Bijection(its, found) BY <1>3, <1>4 DEF Bijection, Injection, Surjection, IsInjective
<1>6. IsFiniteSet(found) /\ Cardinality(found) = Cardinality(its) BY <1>1, <1>5, FS_Bijection DEF ExistsBijection
<1> QED BY <1>1, <1>6 DEF found

\* Records and pods that may be a snapshot's.
LogsKnown(records, pods) ==
    /\ records \in Seq(Range(records))
    /\ \A i, j \in DOMAIN records : records[i] = records[j] => i = j
    /\ \A r \in Range(records) : r.time \in Nat /\ EndOfTime \in Nat /\ r.time < EndOfTime
    /\ \A p, q \in pods : p.name = q.name => p = q
    /\ \A p \in pods :
        /\ p.containers \in Seq(Range(p.containers)) /\ NoContainer \notin Range(p.containers)
        /\ \A c \in DOMAIN p.status : LET status == p.status[c] IN
            IF status.state = "waiting" THEN status.last \in Nat \cup {NotKnown} ELSE status.started \in Nat
        /\ \A r \in Range(records) : r.pod = p.name =>
            /\ r.by \in Range(p.containers) /\ (r.service \in Range(p.containers) => r.service = r.by)
            /\ r.instance = "latest" <=> r.by \in DOMAIN p.status /\ HadStarted(p.status[r.by], r.time)

\* Of a record, whether its pod is one of those imported, and whether it tells its container.
IsOurs(r, pods, at) == r.time <= at /\ \E p \in pods : p.name = r.pod
IsNamed(r, pods) == \A p \in pods : p.name = r.pod => Len(p.containers) = 1 \/ r.service = r.by

\* The container a record is taken to be of is the one it is of, if it tells.
LEMMA ContainerTold ==
    ASSUME NEW records, NEW pods, LogsKnown(records, pods),
           NEW r \in Range(records), NEW p \in pods, p.name = r.pod
    PROVE  /\ ContainerOf(p, r) # NoContainer <=> IsNamed(r, pods)
           /\ IsNamed(r, pods) => ContainerOf(p, r) = r.by
<1> DEFINE cs == p.containers
<1>1. /\ cs \in Seq(Range(cs)) /\ NoContainer \notin Range(cs)
      /\ r.by \in Range(cs) /\ (r.service \in Range(cs) => r.service = r.by)
      /\ \A q \in pods : q.name = r.pod => q = p
    BY DEF LogsKnown
<1>2. IsNamed(r, pods) <=> Len(cs) = 1 \/ r.service = r.by BY <1>1 DEF IsNamed
<1>3. ContainerOf(p, r) = IF Len(cs) = 1 THEN cs[1] ELSE IF r.service \in Range(cs) THEN r.service ELSE NoContainer
    BY DEF ContainerOf
<1> HIDE DEF cs
<1>4. Len(cs) = 1 => Range(cs) = {cs[1]}
    <2>1. DOMAIN cs = 1 .. Len(cs) BY <1>1, LenProperties
    <2> QED BY <2>1 DEF Range
<1> QED BY <1>1, <1>2, <1>3, <1>4

\* A record is taken to be of the latest instance exactly when it is (_instance_started).
LEMMA InstanceTold ==
    ASSUME NamedValues, NEW records, NEW pods, LogsKnown(records, pods),
           NEW r \in Range(records), NEW p \in pods, p.name = r.pod
    PROVE  (/\ r.by \in DOMAIN p.status /\ InstanceStarted(p.status[r.by]) # NotKnown
            /\ r.time >= InstanceStarted(p.status[r.by]))
           <=> r.instance = "latest"
<1>1. /\ r.time \in Nat /\ EndOfTime \in Nat /\ r.time < EndOfTime
      /\ r.instance = "latest" <=> r.by \in DOMAIN p.status /\ HadStarted(p.status[r.by], r.time)
    BY DEF LogsKnown
<1>2. CASE r.by \notin DOMAIN p.status BY <1>1, <1>2
<1>3. CASE r.by \in DOMAIN p.status
    <2> DEFINE s == p.status[r.by]
               t == IF s.state = "waiting" THEN s.last ELSE s.started
    <2>1. IF s.state = "waiting" THEN s.last \in Nat \cup {NotKnown} ELSE s.started \in Nat BY <1>3 DEF LogsKnown
    <2>2. t \in Nat \/ t = NotKnown BY <2>1
    <2>3. InstanceStarted(s) = IF t = 0 THEN EndOfTime ELSE t BY DEF InstanceStarted
    <2>4. HadStarted(s, r.time) <=> t \in 1 .. r.time BY DEF HadStarted
    <2>5. NotKnown \notin Int BY DEF NamedValues
    <2> HIDE DEF s, t
    <2>6. InstanceStarted(s) # NotKnown /\ r.time >= InstanceStarted(s) <=> t \in 1 .. r.time
        <3>1. CASE t = NotKnown
            <4>1. t # 0 /\ t \notin 1 .. r.time BY <2>5, <3>1
            <4> QED BY <2>3, <3>1, <4>1
        <3>2. CASE t = 0 BY <1>1, <2>3, <3>2
        <3>3. CASE t \in Nat /\ t # 0
            <4>1. t # NotKnown BY <2>5, <3>3
            <4> QED BY <1>1, <2>3, <3>3, <4>1
        <3> QED BY <2>2, <3>1, <3>2, <3>3
    <2> QED BY <1>1, <1>3, <2>4, <2>6 DEF s
<1> QED BY <1>2, <1>3

\* The records of the pods imported, and what an import makes of them.
OursOf(records, pods, at) == {r \in Range(records) : IsOurs(r, pods, at)}
LogsTrue(got, records, pods, at) ==
    LET ours == OursOf(records, pods, at) IN
    /\ \A k : k \in DOMAIN got.logs <=> \E r \in ours : IsNamed(r, pods) /\ k = <<r.pod, r.by>>
    /\ \A k \in DOMAIN got.logs :
         /\ \A r : r \in Range(got.logs[k]) <=>
                 r \in ours /\ <<r.pod, r.by>> = k /\ IsNamed(r, pods) /\ r.instance = "latest"
         /\ \A m, n \in DOMAIN got.logs[k] : m < n => \E i, j \in DOMAIN records :
                 got.logs[k][m] = records[i] /\ got.logs[k][n] = records[j] /\ RecordBefore(records, i, j)
    /\ got.used + got.others = Cardinality({r \in ours : IsNamed(r, pods)})
    /\ got.unassigned = Cardinality({r \in ours : ~IsNamed(r, pods)})

\* A container's log is what its latest instance wrote, as far as its records tell, and
\* each of the pods' records is counted (_logs).
LEMMA LogsTold ==
    ASSUME NamedValues, NEW records, NEW pods, LogsKnown(records, pods), NEW at
    PROVE  LogsTrue(ImportedLogs(records, pods, at), records, pods, at)
<1> DEFINE D == DOMAIN records
           got == ImportedLogs(records, pods, at)
           ours == OursOf(records, pods, at)
           podOf(r) == CHOOSE p \in pods : p.name = r.pod
           mine == {i \in DOMAIN records : records[i].time <= at /\ \E p \in pods : p.name = records[i].pod}
           of(i) == ContainerOf(podOf(records[i]), records[i])
           assigned == {i \in mine : of(i) # NoContainer}
           current(i) ==
               LET status == podOf(records[i]).status IN
               /\ of(i) \in DOMAIN status /\ InstanceStarted(status[of(i)]) # NotKnown
               /\ records[i].time >= InstanceStarted(status[of(i)])
           used == {i \in assigned : current(i)}
           its(k) == {i \in used : <<records[i].pod, of(i)>> = k}
           keys == {<<records[i].pod, of(i)>> : i \in assigned}
           left == mine \ assigned
           named == {r \in ours : IsNamed(r, pods)}
           unnamed == {r \in ours : ~IsNamed(r, pods)}
           size == Len(records)
<1>1. /\ got.logs = [k \in keys |-> RecordsOf(records, its(k))]
      /\ got.used = Cardinality(used) /\ got.others = Cardinality(assigned \ used)
      /\ got.unassigned = Cardinality(left)
    BY DEF ImportedLogs, RecordsOf, RecordBefore
<1> HIDE DEF got
<1>2. /\ size \in Nat /\ D = 1 .. size
      /\ \A i \in D : records[i] \in Range(records) /\ records[i].time \in Nat
      /\ \A x \in Range(records) : \E i \in D : x = records[i]
      /\ \A i, j \in D : records[i] = records[j] => i = j
    <2>1. /\ records \in Seq(Range(records))
          /\ \A i, j \in DOMAIN records : records[i] = records[j] => i = j
          /\ \A r \in Range(records) : r.time \in Nat
        BY DEF LogsKnown
    <2>2. size \in Nat /\ D = 1 .. size BY <2>1, LenProperties
    <2>3. \A i \in D : records[i] \in Range(records) BY DEF Range
    <2>4. \A x \in Range(records) : \E i \in D : x = records[i] BY DEF Range
    <2> QED BY <2>1, <2>2, <2>3, <2>4
<1>3. \A i : i \in mine <=> i \in D /\ IsOurs(records[i], pods, at) BY DEF IsOurs
<1>4. \A i \in mine : podOf(records[i]) \in pods /\ podOf(records[i]).name = records[i].pod OBVIOUS
<1>5. \A x : x \in ours <=> \E i \in mine : x = records[i]
    <2> HIDE DEF mine, D
    <2> QED BY <1>2, <1>3 DEF OursOf
<1>6. \A i : i \in assigned <=> i \in mine /\ of(i) # NoContainer OBVIOUS
<1>7. \A i : i \in used <=> i \in assigned /\ current(i) OBVIOUS
<1>8. \A i, k : i \in its(k) <=> i \in used /\ <<records[i].pod, of(i)>> = k OBVIOUS
<1>9. \A k : k \in keys <=> \E i \in assigned : k = <<records[i].pod, of(i)>> OBVIOUS
<1>10. \A i \in mine : /\ i \in assigned <=> IsNamed(records[i], pods)
                       /\ i \in assigned => of(i) = records[i].by
    <2> SUFFICES ASSUME NEW i \in mine
                 PROVE  /\ i \in assigned <=> IsNamed(records[i], pods)
                        /\ i \in assigned => of(i) = records[i].by
        OBVIOUS
    <2>1. i \in D /\ podOf(records[i]) \in pods /\ podOf(records[i]).name = records[i].pod BY <1>3, <1>4
    <2>2. records[i] \in Range(records) BY <1>2, <2>1
    <2> HIDE DEF podOf, mine, assigned, D
    <2>3. /\ of(i) # NoContainer <=> IsNamed(records[i], pods)
          /\ IsNamed(records[i], pods) => of(i) = records[i].by
        BY <2>1, <2>2, ContainerTold
    <2> QED BY <1>6, <2>3
<1>11. \A i \in assigned : i \in used <=> records[i].instance = "latest"
    <2> SUFFICES ASSUME NEW i \in assigned PROVE i \in used <=> records[i].instance = "latest" OBVIOUS
    <2> DEFINE p == podOf(records[i])
               r == records[i]
    <2>1. i \in mine /\ of(i) = r.by BY <1>6, <1>10
    <2>2. i \in D /\ p \in pods /\ p.name = r.pod BY <1>3, <1>4, <2>1
    <2>3. r \in Range(records) BY <1>2, <2>2
    <2>4. current(i) <=> /\ of(i) \in DOMAIN p.status /\ InstanceStarted(p.status[of(i)]) # NotKnown
                         /\ r.time >= InstanceStarted(p.status[of(i)])
        OBVIOUS
    <2> HIDE DEF p, r, of, current, podOf, mine, assigned, used
    <2>5. (/\ r.by \in DOMAIN p.status /\ InstanceStarted(p.status[r.by]) # NotKnown
           /\ r.time >= InstanceStarted(p.status[r.by])) <=> r.instance = "latest"
        BY <2>2, <2>3, InstanceTold
    <2> QED BY <1>7, <2>1, <2>4, <2>5 DEF r
<1> HIDE DEF mine, of, podOf, assigned, current, used, its, keys, left, D, ours
<1>12. DOMAIN got.logs = keys /\ \A k \in keys : got.logs[k] = RecordsOf(records, its(k)) BY <1>1
<1>13. \A k : k \in keys <=> \E r \in ours : IsNamed(r, pods) /\ k = <<r.pod, r.by>>
    <2>1. ASSUME NEW k \in keys PROVE \E r \in ours : IsNamed(r, pods) /\ k = <<r.pod, r.by>>
        <3>1. PICK i \in assigned : k = <<records[i].pod, of(i)>> BY <1>9
        <3>2. i \in mine /\ IsNamed(records[i], pods) /\ of(i) = records[i].by BY <1>6, <1>10
        <3>3. records[i] \in ours BY <1>5, <3>2
        <3> QED BY <3>1, <3>2, <3>3
    <2>2. ASSUME NEW r \in ours, IsNamed(r, pods) PROVE <<r.pod, r.by>> \in keys
        <3>1. PICK i \in mine : r = records[i] BY <1>5
        <3>2. i \in assigned /\ of(i) = r.by BY <1>10, <2>2, <3>1
        <3> QED BY <1>9, <3>1, <3>2
    <2> QED BY <2>1, <2>2
<1>14. ASSUME NEW k \in keys
       PROVE  /\ \A r : r \in Range(got.logs[k]) <=>
                      r \in ours /\ <<r.pod, r.by>> = k /\ IsNamed(r, pods) /\ r.instance = "latest"
              /\ \A m, n \in DOMAIN got.logs[k] : m < n => \E i, j \in DOMAIN records :
                      got.logs[k][m] = records[i] /\ got.logs[k][n] = records[j] /\ RecordBefore(records, i, j)
    <2> DEFINE log == got.logs[k]
               I == its(k)
    <2>1. log = RecordsOf(records, I) BY <1>12
    <2>2. I \in SUBSET (1 .. size)
        <3>1. \A i \in I : i \in mine BY <1>6, <1>7, <1>8
        <3> QED BY <1>2, <1>3, <3>1
    <2> HIDE DEF I
    <2>3. /\ \A x : x \in Range(log) <=> \E i \in I : x = records[i]
          /\ \A m, n \in DOMAIN log : m < n => \E i, j \in I :
               log[m] = records[i] /\ log[n] = records[j] /\ RecordBefore(records, i, j)
        <3> HIDE DEF log, size
        <3>1. \A i \in 1 .. size : records[i].time \in Nat BY <1>2
        <3>2. size \in Nat /\ DOMAIN records = 1 .. size BY <1>2 DEF D
        <3>3. LET l == RecordsOf(records, I) IN
              /\ \A x : x \in Range(l) <=> \E i \in I : x = records[i]
              /\ \A m, n \in DOMAIN l : m < n => \E i, j \in I :
                   l[m] = records[i] /\ l[n] = records[j] /\ RecordBefore(records, i, j)
            BY <2>2, <3>1, <3>2, RecordsListed
        <3> QED BY <2>1, <3>3
    <2> HIDE DEF log
    <2>4. ASSUME NEW r \in Range(log)
          PROVE  r \in ours /\ <<r.pod, r.by>> = k /\ IsNamed(r, pods) /\ r.instance = "latest"
        <3>1. PICK i \in I : r = records[i] BY <2>3
        <3>2. i \in used /\ <<records[i].pod, of(i)>> = k BY <1>8, <3>1 DEF I
        <3>3. i \in assigned /\ i \in mine BY <1>6, <1>7, <3>2
        <3>4. IsNamed(r, pods) /\ of(i) = r.by /\ r.instance = "latest" BY <1>10, <1>11, <3>1, <3>2, <3>3
        <3> QED BY <1>5, <3>1, <3>2, <3>3, <3>4
    <2>5. ASSUME NEW r \in ours, <<r.pod, r.by>> = k, IsNamed(r, pods), r.instance = "latest" PROVE r \in Range(log)
        <3>1. PICK i \in mine : r = records[i] BY <1>5
        <3>2. i \in assigned /\ of(i) = r.by BY <1>10, <2>5, <3>1
        <3>3. i \in used BY <1>11, <2>5, <3>1, <3>2
        <3>4. i \in I BY <1>8, <2>5, <3>1, <3>2, <3>3 DEF I
        <3> QED BY <2>3, <3>1, <3>4
    <2>6. \A i \in I : i \in DOMAIN records BY <1>2, <2>2 DEF D
    <2>7. \A r : r \in Range(log) <=>
              r \in ours /\ <<r.pod, r.by>> = k /\ IsNamed(r, pods) /\ r.instance = "latest"
        BY <2>4, <2>5
    <2>8. \A m, n \in DOMAIN log : m < n => \E i, j \in DOMAIN records :
              log[m] = records[i] /\ log[n] = records[j] /\ RecordBefore(records, i, j)
        BY <2>3, <2>6
    <2> QED BY <2>7, <2>8 DEF log
<1>15. \A x : x \in named <=> \E i \in assigned : x = records[i]
    <2>1. \A x : x \in named <=> x \in ours /\ IsNamed(x, pods) OBVIOUS
    <2> HIDE DEF named
    <2> QED BY <1>5, <1>6, <1>10, <2>1
<1>16. \A x : x \in unnamed <=> \E i \in left : x = records[i]
    <2>1. \A x : x \in unnamed <=> x \in ours /\ ~IsNamed(x, pods) OBVIOUS
    <2>2. \A i : i \in left <=> i \in mine /\ i \notin assigned BY DEF left
    <2> HIDE DEF unnamed
    <2> QED BY <1>5, <1>10, <2>1, <2>2
<1> HIDE DEF named, unnamed
<1>17. /\ IsFiniteSet(assigned) /\ Cardinality(named) = Cardinality(assigned)
       /\ Cardinality(unnamed) = Cardinality(left)
    <2>1. mine \in SUBSET (1 .. size) BY <1>2, <1>3
    <2>2. assigned \in SUBSET (1 .. size) /\ left \in SUBSET (1 .. size) BY <1>6, <2>1 DEF left
    <2>3. IsFiniteSet(DOMAIN records) /\ DOMAIN records = 1 .. size /\ AllApart(records)
        <3>1. size \in Nat /\ DOMAIN records = 1 .. size /\ AllApart(records) BY <1>2 DEF D, AllApart
        <3> QED BY <3>1, FS_Interval
    <2>4. named = AtPlaces(records, assigned) /\ unnamed = AtPlaces(records, left) BY <1>15, <1>16 DEF AtPlaces
    <2> HIDE DEF size
    <2>5. ASSUME NEW part \in SUBSET (1 .. size)
          PROVE  IsFiniteSet(part) /\ Cardinality(AtPlaces(records, part)) = Cardinality(part)
        <3>1. part \subseteq DOMAIN records BY <2>3
        <3> QED BY <2>3, <3>1, RecordsCounted
    <2> QED BY <2>2, <2>4, <2>5
<1>18. Cardinality(used) + Cardinality(assigned \ used) = Cardinality(assigned)
    <2>1. used \in SUBSET assigned BY <1>7
    <2>2. IsFiniteSet(used) BY <1>17, <2>1, FS_Subset
    <2>3. Cardinality(assigned \ used) = Cardinality(assigned) - Cardinality(assigned \cap used)
        BY <1>17, FS_Difference
    <2>4. assigned \cap used = used BY <2>1
    <2>5. Cardinality(used) \in Nat /\ Cardinality(assigned) \in Nat BY <1>17, <2>2, FS_CardinalityType
    <2>6. Cardinality(assigned \ used) = Cardinality(assigned) - Cardinality(used) BY <2>3, <2>4
    <2> QED BY <2>5, <2>6
<1>19. got.used + got.others = Cardinality(named) /\ got.unassigned = Cardinality(unnamed) BY <1>1, <1>17, <1>18
<1> QED BY <1>12, <1>13, <1>14, <1>19 DEF LogsTrue, named, unnamed, got, ours

-----------------------------------------------------------------------------
(* What an import takes of a snapshot.                                     *)

\* It is the pull asked for, with the events and the logs there were at its time, and what
\* can't be told of them is counted (import_snapshot, read_pulls, _events, _logs).
THEOREM SnapshotTaken == Spec => []SnapshotImported
<1>0. NamedValues BY SnapshotAssumption DEF NamedValues
<1>1. ASSUME IInv, Told("snapshot")
      PROVE  LET in == call.in
                 number == IF in.asked = LatestPull THEN Len(in.pulls) ELSE in.asked
                 pull == in.pulls[number]
                 kinds(records) == {r.kind : r \in records}
                 at == Max(Times(pull))
                 there(l) == l.born <= at /\ at < l.gone
                 recorded(l) == \E t \in {l.born, l.gone} \cup l.changes : in.began <= t /\ t <= in.ended
                 certain(l) == \/ \E t \in {l.born} \cup l.changes : in.began <= t /\ t <= at
                               \/ l.dated /\ \A t \in l.changes : t <= at
                 imported(i) == i \in DOMAIN answer.events
                 present == {i \in DOMAIN in.lives : there(in.lives[i]) /\ recorded(in.lives[i])}
             IN  IF number \notin DOMAIN in.pulls \/ ~(RequiredKinds \subseteq kinds(pull))
                 THEN answer = NoImport
                 ELSE /\ answer.objects = pull /\ answer.at = at
                      /\ answer.missing = kinds(UNION Range(in.pulls)) \ kinds(pull)
                      /\ \A i \in DOMAIN answer.events :
                             i \in present /\ answer.events[i] = Max({t \in {in.lives[i].born} \cup in.lives[i].changes : t <= at})
                      /\ answer.unknown = Cardinality({i \in present : ~imported(i)})
                      /\ \A i \in present : certain(in.lives[i]) => imported(i)
    <2> DEFINE in == call.in
               n == IF in.asked = LatestPull THEN Len(in.pulls) ELSE in.asked
               pull == in.pulls[n]
               all == UNION Range(in.pulls)
               pulls == Pulls(all)
               at == LastOf(pull)
               kinds == {r.kind : r \in pull}
               everyKind == {r.kind : r \in all}
               lives == in.lives
               began == in.began
               ended == in.ended
               file(life) == IF in.inOrder THEN Watched(life, began, ended) ELSE Reverse(Watched(life, began, ended))
               watched == [i \in DOMAIN lives |-> file(lives[i])]
               got == EventsAt(watched, at)
               present == PresentOf(lives, began, ended, at)
    <2>1. in \in SnapshotInputs BY <1>1, InputsOfTool DEF Told, IInv, Inputs
    <2>2. answer = ImportPull(all, in.asked, watched) BY <1>1 DEF Told, IInv, WorkedOut, SnapshotAnswer
    <2>3. /\ PullGap \in Nat /\ began \in Nat /\ ended \in Nat
          /\ in.pulls \in Seq(Range(in.pulls)) /\ lives \in Seq(Range(lives))
          /\ \A p \in Range(in.pulls) : Batched(p) /\ Times(p) \subseteq began .. ended
          /\ \A i, j \in DOMAIN in.pulls : i < j =>
                \A r \in in.pulls[i], s \in in.pulls[j] : s.time - r.time > PullGap
          /\ \A l \in Range(lives) :
                /\ l.born \in Nat /\ l.gone \in Nat /\ l.born < l.gone /\ l.dated \in BOOLEAN
                /\ \A t \in l.changes : t \in Nat /\ l.born < t /\ t < l.gone
        BY <2>1, SnapshotAssumption
    <2>4. ArePulls(in.pulls, ended)
        <3>1. \A k \in DOMAIN in.pulls : in.pulls[k] \in Range(in.pulls) BY DEF Range
        <3>2. began .. ended \subseteq 0 .. ended BY <2>3
        <3> HIDE DEF in, began, ended
        <3> QED BY <2>3, <3>1, <3>2 DEF ArePulls
    <2>5. \A i \in DOMAIN lives : IsLife(lives[i])
        <3>1. \A i \in DOMAIN lives : lives[i] \in Range(lives) BY DEF Range
        <3> HIDE DEF lives
        <3> QED BY <2>3, <3>1 DEF IsLife
    <2>6. /\ DOMAIN watched = DOMAIN lives
          /\ \A i \in DOMAIN lives : FileOf(watched[i], lives[i], began, ended)
        <3>1. DOMAIN watched = DOMAIN lives OBVIOUS
        <3>2. \A i \in DOMAIN lives :
                  watched[i] \in {Watched(lives[i], began, ended), Reverse(Watched(lives[i], began, ended))}
            OBVIOUS
        <3> HIDE DEF watched, lives, began, ended
        <3>3. \A i \in DOMAIN lives : /\ FileOf(Watched(lives[i], began, ended), lives[i], began, ended)
                                      /\ FileOf(Reverse(Watched(lives[i], began, ended)), lives[i], began, ended)
            BY <2>3, <2>5, WatchIsFile
        <3> QED BY <3>1, <3>2, <3>3
    <2>7. /\ Len(pulls) = Len(in.pulls) /\ DOMAIN pulls = DOMAIN in.pulls
          /\ \A k \in DOMAIN in.pulls : /\ pulls[k].ended = LastOf(in.pulls[k])
                                        /\ pulls[k].kinds = {r.kind : r \in in.pulls[k]}
                                        /\ Objects(all, pulls[k]) = in.pulls[k]
        <3> HIDE DEF in, ended
        <3> QED BY <2>4, PullsRead
    <2>8. n \in DOMAIN in.pulls => pulls[n].ended = at /\ pulls[n].kinds = kinds /\ Objects(all, pulls[n]) = pull
        BY <2>7
    <2>9. ImportPull(all, in.asked, watched) =
          IF n \notin DOMAIN pulls \/ ~(RequiredKinds \subseteq pulls[n].kinds) THEN NoImport
          ELSE [objects |-> Objects(all, pulls[n]), at |-> pulls[n].ended,
                missing |-> everyKind \ pulls[n].kinds,
                events |-> EventsAt(watched, pulls[n].ended).events,
                unknown |-> EventsAt(watched, pulls[n].ended).unknown]
        <3>1. n = IF in.asked = LatestPull THEN Len(pulls) ELSE in.asked BY <2>7
        <3> HIDE DEF n, all, watched, in
        <3> QED BY <3>1 DEF ImportPull
    <2>10. CASE n \notin DOMAIN in.pulls \/ ~(RequiredKinds \subseteq kinds)
        <3>1. n \notin DOMAIN pulls \/ ~(RequiredKinds \subseteq pulls[n].kinds)
            <4> HIDE DEF pulls, kinds, n
            <4> QED BY <2>7, <2>8, <2>10
        <3>2. answer = NoImport
            <4> HIDE DEF pulls, kinds, n, watched, all, everyKind
            <4> QED BY <2>2, <2>9, <3>1
        <3> QED BY <2>10, <3>2
    <2>11. CASE n \in DOMAIN in.pulls /\ RequiredKinds \subseteq kinds
        <3>1. ~(n \notin DOMAIN pulls \/ ~(RequiredKinds \subseteq pulls[n].kinds))
            <4> HIDE DEF pulls, kinds, n
            <4> QED BY <2>7, <2>8, <2>11
        <3>2. answer = [objects |-> pull, at |-> at, missing |-> everyKind \ kinds,
                        events |-> got.events, unknown |-> got.unknown]
            <4> HIDE DEF pulls, kinds, n, watched, all, everyKind, pull, at
            <4> QED BY <2>2, <2>8, <2>9, <2>11, <3>1
        <3>3. at \in Nat /\ began <= at /\ at <= ended
            <4>1. pull \in Range(in.pulls) BY <2>11 DEF Range
            <4> HIDE DEF in, n, pull, began, ended
            <4>2. Times(pull) \subseteq began .. ended BY <2>3, <4>1
            <4>3. at \in Times(pull)
                <5>1. \E r \in in.pulls[n] : r.time = LastOf(in.pulls[n]) BY <2>4, <2>11, PullTimes
                <5> QED BY <5>1 DEF Times, pull
            <4> QED BY <2>3, <4>2, <4>3
        <3>4. /\ \A i \in DOMAIN got.events : i \in present /\ got.events[i] = StateAt(lives[i], at)
              /\ got.unknown = Cardinality({i \in present : i \notin DOMAIN got.events})
              /\ \A i \in present : Certain(lives[i], began, at) => i \in DOMAIN got.events
            <4>1. began \in Nat /\ ended \in Nat BY <2>3
            <4> HIDE DEF lives, began, ended, at, watched
            <4>2. EventsTrue(EventsAt(watched, at), lives, began, ended, at)
                BY <1>0, <2>5, <2>6, <3>3, <4>1, EventsImported
            <4> QED BY <4>2 DEF EventsTrue
        <3> DEFINE events == got.events
                   unknown == got.unknown
        <3>5. /\ answer.objects = pull /\ answer.at = at /\ answer.missing = everyKind \ kinds
              /\ answer.events = events /\ answer.unknown = unknown
            <4> HIDE DEF pull, at, everyKind, kinds, events, unknown
            <4> QED BY <3>2 DEF events, unknown
        <3> HIDE DEF got
        <3>6. \A i \in DOMAIN answer.events : i \in present /\ answer.events[i] = StateAt(lives[i], at)
            <4> HIDE DEF present, lives, at
            <4> QED BY <3>4, <3>5
        <3>7. answer.unknown = Cardinality({i \in present : ~(i \in DOMAIN answer.events)})
            <4> HIDE DEF present
            <4> QED BY <3>4, <3>5
        <3>8. \A i \in present : Certain(lives[i], began, at) => i \in DOMAIN answer.events
            <4> HIDE DEF present, lives, at, began
            <4> QED BY <3>4, <3>5
        <3> QED BY <2>11, <3>5, <3>6, <3>7, <3>8
                DEF PresentOf, LastOf, StateAt, IsThere, Recorded, Certain, Changed
    <2> QED BY <2>10, <2>11
<1>2. ASSUME IInv, Told("otel")
      PROVE  LET in == call.in
                 ours == {r \in Range(in.records) : r.time <= in.at /\ \E p \in in.pods : p.name = r.pod}
                 named(r) == \A p \in in.pods : p.name = r.pod => Len(p.containers) = 1 \/ r.service = r.by
             IN  /\ DOMAIN answer.logs = {<<r.pod, r.by>> : r \in {r \in ours : named(r)}}
                 /\ \A k \in DOMAIN answer.logs :
                     LET log == answer.logs[k] IN
                     /\ Range(log) = {r \in ours : <<r.pod, r.by>> = k /\ named(r) /\ r.instance = "latest"}
                     /\ \A m, n \in DOMAIN log : m < n => \E i, j \in DOMAIN in.records :
                         /\ log[m] = in.records[i] /\ log[n] = in.records[j]
                         /\ log[m].time < log[n].time \/ (log[m].time = log[n].time /\ i < j)
                 /\ answer.used + answer.others = Cardinality({r \in ours : named(r)})
                 /\ answer.unassigned = Cardinality({r \in ours : ~named(r)})
    <2> DEFINE in == call.in
               records == in.records
               pods == in.pods
               ours == OursOf(records, pods, in.at)
               named == {r \in ours : IsNamed(r, pods)}
               logs == answer.logs
    <2>1. in \in OtelInputs BY <1>2, InputsOfTool DEF Told, IInv, Inputs
    <2>2. answer = ImportedLogs(records, pods, in.at) BY <1>2 DEF Told, IInv, WorkedOut
    <2>3. LogsKnown(records, pods) BY <2>1, OtelAssumption DEF LogsKnown
    <2>4. /\ \A k : k \in DOMAIN logs <=> \E r \in ours : IsNamed(r, pods) /\ k = <<r.pod, r.by>>
          /\ \A k \in DOMAIN logs :
               /\ \A r : r \in Range(logs[k]) <=>
                       r \in ours /\ <<r.pod, r.by>> = k /\ IsNamed(r, pods) /\ r.instance = "latest"
               /\ \A m, n \in DOMAIN logs[k] : m < n => \E i, j \in DOMAIN records :
                       logs[k][m] = records[i] /\ logs[k][n] = records[j] /\ RecordBefore(records, i, j)
          /\ answer.used + answer.others = Cardinality(named)
          /\ answer.unassigned = Cardinality({r \in ours : ~IsNamed(r, pods)})
        <3> DEFINE at == in.at
        <3> HIDE DEF records, pods, at
        <3>1. LogsTrue(ImportedLogs(records, pods, at), records, pods, at) BY <1>0, <2>3, LogsTold
        <3>2. LogsTrue(answer, records, pods, at) BY <2>2, <3>1 DEF at
        <3> QED BY <3>2 DEF LogsTrue, at
    <2>5. DOMAIN logs = {<<r.pod, r.by>> : r \in named}
        <3>1. \A r : r \in named <=> r \in ours /\ IsNamed(r, pods) OBVIOUS
        <3> HIDE DEF named, ours, logs
        <3> QED BY <2>4, <3>1
    <2>6. ASSUME NEW k \in DOMAIN logs
          PROVE  /\ Range(logs[k]) = {r \in ours : <<r.pod, r.by>> = k /\ IsNamed(r, pods) /\ r.instance = "latest"}
                 /\ \A m, n \in DOMAIN logs[k] : m < n => \E i, j \in DOMAIN records :
                     /\ logs[k][m] = records[i] /\ logs[k][n] = records[j]
                     /\ logs[k][m].time < logs[k][n].time \/ (logs[k][m].time = logs[k][n].time /\ i < j)
        <3> HIDE DEF ours, logs, records, pods
        <3>1. \A r : r \in Range(logs[k]) <=>
                  r \in ours /\ <<r.pod, r.by>> = k /\ IsNamed(r, pods) /\ r.instance = "latest"
            BY <2>4
        <3>2. Range(logs[k]) = {r \in ours : <<r.pod, r.by>> = k /\ IsNamed(r, pods) /\ r.instance = "latest"}
            BY <3>1
        <3>3. \A m, n \in DOMAIN logs[k] : m < n => \E i, j \in DOMAIN records :
                  logs[k][m] = records[i] /\ logs[k][n] = records[j] /\ RecordBefore(records, i, j)
            BY <2>4
        <3>4. ASSUME NEW m \in DOMAIN logs[k], NEW n \in DOMAIN logs[k], m < n
              PROVE  \E i, j \in DOMAIN records :
                         /\ logs[k][m] = records[i] /\ logs[k][n] = records[j]
                         /\ logs[k][m].time < logs[k][n].time \/ (logs[k][m].time = logs[k][n].time /\ i < j)
            <4>1. PICK i \in DOMAIN records, j \in DOMAIN records :
                      logs[k][m] = records[i] /\ logs[k][n] = records[j] /\ RecordBefore(records, i, j)
                BY <3>3, <3>4
            <4> QED BY <4>1 DEF RecordBefore
        <3> QED BY <3>2, <3>4
    <2> HIDE DEF logs
    <2> QED BY <2>4, <2>5, <2>6 DEF logs, OursOf, IsOurs, IsNamed
<1>3. IInv => SnapshotImported BY <1>1, <1>2 DEF SnapshotImported
<1> QED BY <1>3, WorkedFromCall, PTL
-----------------------------------------------------------------------------
(* Redaction.                                                              *)

\* A part that is hidden is another than it was, and nothing to hide; its name stays, and
\* its form but for a token's and that of a setting hidden with what it runs on to.
LEMMA PartHidden ==
    ASSUME Marker \notin {"shape", "tokenReference"}, NEW raw,
           NEW p, p = [form |-> p.form, name |-> p.name, value |-> p.value, like |-> p.like]
    PROVE  /\ ~ToHide(Hide(p, raw)) /\ Hide(p, raw).name = p.name /\ Hide(p, raw).value = Marker
           /\ Hide(p, raw).form = (IF p.form = "shape" THEN "words" ELSE IF p.form = "runOn" /\ raw THEN "setting" ELSE p.form)
           /\ raw => ~RunsOn(Hide(p, raw))
           /\ ToHide(p) \/ (raw /\ ToHideRaw(p)) => Hide(p, raw) # p
<1> DEFINE f == IF p.form = "shape" THEN "words" ELSE IF p.form = "runOn" /\ raw THEN "setting" ELSE p.form
           q == [form |-> f, name |-> p.name, value |-> Marker, like |-> p.like]
<1>0. /\ p.form = "shape" => f # p.form
      /\ p.form = "runOn" /\ raw => f # p.form
      /\ f # "shape" /\ (raw => f # "runOn")
    OBVIOUS
<1>1. Hide(p, raw) = q
    <2> DEFINE r == [p EXCEPT !.form = f]
               s == [form |-> f, name |-> p.name, value |-> p.value, like |-> p.like]
    <2>1. Hide(p, raw) = [r EXCEPT !.value = Marker] BY DEF Hide
    <2> HIDE DEF f
    <2>2. r = s OBVIOUS
    <2>3. s.form = f /\ s.name = p.name /\ s.value = p.value /\ s.like = p.like OBVIOUS
    <2>4. s = [form |-> s.form, name |-> s.name, value |-> s.value, like |-> s.like] OBVIOUS
    <2> HIDE DEF r, s
    <2>5. [s EXCEPT !.value = Marker] = [form |-> s.form, name |-> s.name, value |-> Marker, like |-> s.like] BY <2>4
    <2> QED BY <2>1, <2>2, <2>3, <2>5
<1>2. q.form = f /\ q.value = Marker /\ q.name = p.name OBVIOUS
<1>5. f = (IF p.form = "shape" THEN "words" ELSE IF p.form = "runOn" /\ raw THEN "setting" ELSE p.form) OBVIOUS
<1> HIDE DEF q, f
<1>3. ~ToHide(q) BY <1>0, <1>2 DEF ToHide, Shaped, Embedded
<1>6. raw => ~RunsOn(q) BY <1>0, <1>2 DEF RunsOn
<1>4. ToHide(p) \/ (raw /\ ToHideRaw(p)) => q # p
    <2>1. ToHide(p) => q # p BY <1>3
    <2>2. raw /\ RunsOn(p) => q # p BY <1>6
    <2>3. Shaped(p) => q # p BY <1>3 DEF ToHide
    <2> QED BY <2>1, <2>2, <2>3 DEF ToHideRaw
<1> QED BY <1>1, <1>2, <1>3, <1>4, <1>5, <1>6

\* What a result's nodes are.
LEMMA ResultNodes ==
    ASSUME NEW v \in ResultInputs
    PROVE  /\ v = [path \in DOMAIN v |-> v[path]]
           /\ \A path \in DOMAIN v : /\ v[path] = [is |-> v[path].is, of |-> v[path].of] /\ v[path].of \in Seq(Parts(v))
                                     /\ DOMAIN v[path].of = 1 .. Len(v[path].of) /\ Len(v[path].of) \in Nat
                                     /\ \A i \in DOMAIN v[path].of : v[path].of[i] \in Parts(v)
                                     /\ v[path].is # "text" => v[path].of = <<>>
           /\ \A p \in Parts(v) : /\ p = [form |-> p.form, name |-> p.name, value |-> p.value, like |-> p.like]
                                  /\ p.form = "shape" => p.value = "shape"
<1>1. v \in [DOMAIN v -> [is : {"text", "json", "map", "list", "scalar"}, of : Seq(Parts(v))]] BY ResultAssumption
<1>2. \A path \in DOMAIN v : v[path].is # "text" => v[path].of = <<>> BY ResultAssumption
<1>3. \A p \in Parts(v) : /\ p = [form |-> p.form, name |-> p.name, value |-> p.value, like |-> p.like]
                          /\ p.form = "shape" => p.value = "shape"
    BY ResultAssumption
<1>4. ASSUME NEW path \in DOMAIN v
      PROVE  /\ v[path] = [is |-> v[path].is, of |-> v[path].of] /\ v[path].of \in Seq(Parts(v))
             /\ DOMAIN v[path].of = 1 .. Len(v[path].of) /\ Len(v[path].of) \in Nat
             /\ \A i \in DOMAIN v[path].of : v[path].of[i] \in Parts(v)
    <2> DEFINE S == Parts(v)
    <2> HIDE DEF S
    <2>1. v[path] \in [is : {"text", "json", "map", "list", "scalar"}, of : Seq(S)] BY <1>1 DEF S
    <2>2. v[path].of \in Seq(S) /\ v[path] = [is |-> v[path].is, of |-> v[path].of] BY <2>1
    <2> QED BY <2>2, LenProperties, ElementOfSeq DEF S
<1>5. v = [path \in DOMAIN v |-> v[path]] BY <1>1
<1> QED BY <1>2, <1>3, <1>4, <1>5

\* What a node becomes: a marker, or itself with some of its parts hidden.
LEMMA NodeRedacted ==
    ASSUME NEW v \in ResultInputs, NEW path \in DOMAIN v, NEW n, n = RedactNode(v, path)
    PROVE  /\ GoesWhole(v, path) => n = Redacted
           /\ ~GoesWhole(v, path) =>
                /\ n = [is |-> v[path].is, of |-> n.of]
                /\ DOMAIN n.of = DOMAIN v[path].of /\ Len(n.of) = Len(v[path].of)
                /\ \A i \in DOMAIN n.of :
                    n.of[i] = IF i \in Concealed(v, path) THEN Hide(v[path].of[i], ReadRaw(v, path)) ELSE v[path].of[i]
                /\ Concealed(v, path) = {} => n = v[path]
<1>1. CASE GoesWhole(v, path) BY <1>1 DEF RedactNode
<1>2. CASE ~GoesWhole(v, path)
    <2> DEFINE parts == v[path].of
               hidden == Concealed(v, path)
               raw == ReadRaw(v, path)
               of == [i \in DOMAIN parts |-> IF i \in hidden THEN Hide(parts[i], raw) ELSE parts[i]]
    <2>1. v[path] = [is |-> v[path].is, of |-> parts] /\ DOMAIN parts = 1 .. Len(parts) /\ Len(parts) \in Nat
          /\ parts \in Seq(Parts(v))
        BY ResultNodes
    <2>2. n = [v[path] EXCEPT !.of = of] BY <1>2 DEF RedactNode
    <2> HIDE DEF parts, hidden, raw
    <2>3. n = [is |-> v[path].is, of |-> of]
        <3> HIDE DEF of
        <3> QED BY <2>1, <2>2
    <2>4. DOMAIN of = DOMAIN parts /\ \A i \in DOMAIN of : of[i] = IF i \in hidden THEN Hide(parts[i], raw) ELSE parts[i] OBVIOUS
    <2>5. of = [i \in 1 .. Len(parts) |-> IF i \in hidden THEN Hide(parts[i], raw) ELSE parts[i]] BY <2>1
    <2>6. Len(of) = Len(parts)
        <3> HIDE DEF of
        <3> DEFINE any == {Hide(parts[i], raw) : i \in DOMAIN parts} \cup {parts[i] : i \in DOMAIN parts}
        <3>1. \A i \in DOMAIN of : of[i] \in any BY <2>4
        <3>2. of = [i \in 1 .. Len(parts) |-> of[i]] BY <2>1, <2>4, <2>5
        <3> QED BY <2>1, <3>1, <3>2
    <2>7. hidden = {} => of = parts
        <3>1. parts = [i \in 1 .. Len(parts) |-> parts[i]] BY <2>1
        <3> QED BY <2>5, <3>1
    <2>8. n.of = of BY <2>3
    <2> HIDE DEF of
    <2> QED BY <1>2, <2>1, <2>3, <2>4, <2>6, <2>7, <2>8 DEF parts, hidden, raw
<1> QED BY <1>1, <1>2

\* The value redacted.
LEMMA RedactedNodes ==
    ASSUME NEW v
    PROVE  /\ DOMAIN Redact(v).value = Reached(v) /\ Reached(v) \subseteq DOMAIN v
           /\ \A path \in Reached(v) : Redact(v).value[path] = RedactNode(v, path)
BY DEF Redact, Reached

\* What replaces a text is a placeholder with nothing to hide.
LEMMA MarkerHidden ==
    ASSUME Marker \notin {"shape", "tokenReference"}
    PROVE  /\ Redacted.is = "text" /\ DOMAIN Redacted.of = {1} /\ Redacted.of[1] = MarkerPart /\ IsPlaceholder(Redacted)
           /\ ~ToHide(MarkerPart) /\ MarkerPart.form = "words" /\ MarkerPart.name = "plain" /\ MarkerPart.value = Marker
<1>1. Redacted.is = "text" /\ Redacted.of = <<MarkerPart>> BY DEF Redacted, Text
<1>2. MarkerPart.form = "words" /\ MarkerPart.name = "plain" /\ MarkerPart.value = Marker BY DEF MarkerPart
<1>3. ~ToHide(MarkerPart) BY <1>2 DEF ToHide, Shaped, Embedded
<1>4. DOMAIN Redacted.of = {1} /\ Redacted.of[1] = MarkerPart /\ Len(Redacted.of) = 1 BY <1>1
<1>5. IsPlaceholder(Redacted) BY <1>1, <1>2, <1>4 DEF IsPlaceholder
<1> QED BY <1>1, <1>2, <1>3, <1>4, <1>5

\* A node that isn't a marker, as what is beside it sees it: with as many parts, of the
\* same names, and an option's name where one was.
KeptAs(v, w, at) ==
    /\ w[at].is = v[at].is /\ Len(w[at].of) = Len(v[at].of) /\ (w[at].of = <<>> <=> v[at].of = <<>>)
    /\ w[at].of # <<>> => /\ w[at].of[1].name = v[at].of[1].name
                          /\ w[at].of[1].form = "optionName" <=> v[at].of[1].form = "optionName"
    /\ IsPlaceholder(v[at]) => IsPlaceholder(w[at])

LEMMA BesideKept ==
    ASSUME Marker \notin {"shape", "tokenReference"}, NEW v \in ResultInputs, NEW w, NEW at \in DOMAIN v, w[at] = RedactNode(v, at),
           ~GoesWhole(v, at)
    PROVE  KeptAs(v, w, at)
<1> DEFINE n == v[at]
           hidden == Concealed(v, at)
           raw == ReadRaw(v, at)
<1>2. /\ w[at] = [is |-> n.is, of |-> w[at].of] /\ DOMAIN w[at].of = DOMAIN n.of /\ Len(w[at].of) = Len(n.of)
      /\ \A i \in DOMAIN n.of : w[at].of[i] = IF i \in hidden THEN Hide(n.of[i], raw) ELSE n.of[i]
      /\ hidden = {} => w[at] = n
    BY NodeRedacted
<1>3. n = [is |-> n.is, of |-> n.of] /\ DOMAIN n.of = 1 .. Len(n.of) /\ Len(n.of) \in Nat /\ n.of \in Seq(Parts(v))
    BY ResultNodes
<1>4. w[at].is = n.is BY <1>2
<1>5. w[at].of = <<>> <=> n.of = <<>>
    <2>1. n.of = <<>> => hidden = {} BY DEF Concealed, Found, FoundRaw
    <2>2. n.of # <<>> => 1 \in DOMAIN n.of BY <1>3
    <2>3. w[at].of = <<>> => DOMAIN w[at].of = {} OBVIOUS
    <2> QED BY <1>2, <2>1, <2>2, <2>3
<1>6. ASSUME n.of # <<>>
      PROVE  /\ w[at].of[1].name = n.of[1].name /\ (w[at].of[1].form = "optionName" <=> n.of[1].form = "optionName")
    <2>1. 1 \in DOMAIN n.of BY <1>3, <1>6
    <2>2. n.of[1] \in Parts(v) BY <2>1, ResultNodes
    <2>3. n.of[1] = [form |-> n.of[1].form, name |-> n.of[1].name, value |-> n.of[1].value, like |-> n.of[1].like]
        BY <2>2, ResultNodes
    <2>4. Hide(n.of[1], raw).name = n.of[1].name
          /\ Hide(n.of[1], raw).form = (IF n.of[1].form = "shape" THEN "words"
                                        ELSE IF n.of[1].form = "runOn" /\ raw THEN "setting" ELSE n.of[1].form)
        BY <2>3, PartHidden
    <2> HIDE DEF n, hidden, raw
    <2> QED BY <1>2, <2>1, <2>4
<1>7. ASSUME IsPlaceholder(n) PROVE IsPlaceholder(w[at])
    <2>1. n.is = "text" BY <1>7 DEF IsPlaceholder
    <2>2. CASE n.of = <<>> BY <1>4, <1>5, <2>1, <2>2 DEF IsPlaceholder
    <2>3. CASE n.of # <<>>
        <3>1. Len(n.of) = 1 /\ n.of[1].form = "words" /\ n.of[1].value \in {"reference", "tokenReference", Marker}
            BY <1>7, <2>3 DEF IsPlaceholder
        <3>2. 1 \in DOMAIN n.of BY <1>3, <3>1
        <3>3. n.of[1] \in Parts(v) BY <3>2, ResultNodes
        <3>4. n.of[1] = [form |-> n.of[1].form, name |-> n.of[1].name, value |-> n.of[1].value, like |-> n.of[1].like]
            BY <3>3, ResultNodes
        <3>5. Hide(n.of[1], raw).form = "words" /\ Hide(n.of[1], raw).value = Marker BY <3>1, <3>4, PartHidden
        <3>6. w[at].of[1].form = "words" /\ w[at].of[1].value \in {"reference", "tokenReference", Marker}
            <4> HIDE DEF n, hidden, raw
            <4> QED BY <1>2, <3>1, <3>2, <3>5
        <3>7. Len(w[at].of) = 1 BY <1>2, <3>1
        <3> QED BY <1>4, <2>1, <3>6, <3>7 DEF IsPlaceholder
    <2> QED BY <2>2, <2>3
<1> QED BY <1>2, <1>4, <1>5, <1>6, <1>7 DEF KeptAs

\* A prefix, item by item.
LEMMA PrefixSame ==
    ASSUME NEW S, NEW p \in Seq(S), NEW q \in Seq(S)
    PROVE  IsPrefix(p, q) <=> Len(p) <= Len(q) /\ \A i \in 1 .. Len(p) : p[i] = q[i]
<1>1. Len(p) \in Nat /\ Len(q) \in Nat /\ DOMAIN q = 1 .. Len(q) BY LenProperties
<1>2. SubSeq(p, 1, Len(p)) = p BY SubSeqFull
<1> DEFINE t == SubSeq(q, 1, Len(p))
<1>3. ASSUME Len(p) <= Len(q) PROVE t \in Seq(S) /\ Len(t) = Len(p) /\ \A i \in 1 .. Len(p) : t[i] = q[i]
    <2>1. \A i \in 1 .. Len(p) : q[i] \in S BY <1>1, <1>3, ElementOfSeq
    <2> QED BY <1>1, <2>1, SubSeqProperties
<1>4. ASSUME Len(p) <= Len(q), \A i \in 1 .. Len(p) : p[i] = q[i] PROVE p = t
    <2> HIDE DEF t
    <2> QED BY <1>3, <1>4, SeqEqual
<1> QED BY <1>1, <1>2, <1>3, <1>4 DEF IsPrefix

LEMMA PrefixOfPrefix ==
    ASSUME NEW S, NEW p \in Seq(S), NEW q \in Seq(S), NEW r \in Seq(S), IsPrefix(p, q), IsPrefix(q, r)
    PROVE  IsPrefix(p, r)
<1>1. Len(p) \in Nat /\ Len(q) \in Nat /\ Len(r) \in Nat BY LenProperties
<1>2. Len(p) <= Len(q) /\ \A i \in 1 .. Len(p) : p[i] = q[i] BY PrefixSame
<1>3. Len(q) <= Len(r) /\ \A i \in 1 .. Len(q) : q[i] = r[i] BY PrefixSame
<1>4. \A i \in 1 .. Len(p) : i \in 1 .. Len(q)
    <2>1. \A l \in Nat, m \in Nat : l <= m => \A i \in 1 .. l : i \in 1 .. m BY SMT
    <2> QED BY <1>1, <1>2, <2>1
<1>5. \A i \in 1 .. Len(p) : p[i] = r[i] BY <1>2, <1>3, <1>4
<1>6. Len(p) <= Len(r) BY <1>1, <1>2, <1>3
<1> QED BY <1>5, <1>6, PrefixSame

\* A path above another is a shorter one.
LEMMA AboveShorter ==
    ASSUME NEW S, NEW p \in Seq(S), NEW q \in Seq(S), IsStrictPrefix(p, q)
    PROVE  Len(p) < Len(q)
<1>1. Len(p) <= Len(q) /\ SubSeq(p, 1, Len(p)) = SubSeq(q, 1, Len(p)) /\ p # q BY DEF IsStrictPrefix, IsPrefix
<1>2. Len(p) \in Nat /\ Len(q) \in Nat BY LenProperties
<1>3. SubSeq(p, 1, Len(p)) = p /\ SubSeq(q, 1, Len(q)) = q BY SubSeqFull
<1>4. Len(p) # Len(q) BY <1>1, <1>3
<1> QED BY <1>1, <1>2, <1>4

\* What lies above a node lies above those beside it.
LEMMA AboveBeside ==
    ASSUME NEW S, NEW p \in Seq(S), NEW q \in Seq(S), NEW step, p = Beside(q, step), q # <<>>,
           NEW above \in Seq(S), IsStrictPrefix(above, p)
    PROVE  IsStrictPrefix(above, q)
<1>1. Len(above) < Len(p) BY AboveShorter
<1>2. Len(above) \in Nat /\ Len(q) \in Nat /\ DOMAIN q = 1 .. Len(q) /\ DOMAIN p = 1 .. Len(p) /\ Len(p) \in Nat
    BY LenProperties
<1>3. DOMAIN p = DOMAIN q /\ \A i \in DOMAIN q : i # Len(q) => p[i] = q[i] BY DEF Beside
<1>4. Len(p) = Len(q)
    <2>1. \A l \in Nat, m \in Nat : 1 .. l = 1 .. m => l = m
        <3> SUFFICES ASSUME NEW l \in Nat, NEW m \in Nat, 1 .. l = 1 .. m PROVE l = m OBVIOUS
        <3>1. l > 0 => l \in 1 .. m BY SMT
        <3>2. m > 0 => m \in 1 .. l BY SMT
        <3> QED BY <3>1, <3>2
    <2> QED BY <1>2, <1>3, <2>1
<1>5. \A i \in 1 .. Len(above) : i \in DOMAIN q /\ i # Len(q) /\ above[i] = p[i]
    <2>1. IsPrefix(above, p) BY DEF IsStrictPrefix
    <2>2. \A i \in 1 .. Len(above) : above[i] = p[i] BY <2>1, PrefixSame
    <2>3. \A i \in 1 .. Len(above) : i \in 1 .. Len(q) /\ i # Len(q) 
        <3>1. \A l \in Nat, m \in Nat : l < m => \A i \in 1 .. l : i \in 1 .. m /\ i # m BY SMT
        <3>2. Len(above) < Len(q) BY <1>1, <1>4
        <3> QED BY <1>2, <3>1, <3>2
    <2> QED BY <1>2, <2>2, <2>3
<1>6. \A i \in 1 .. Len(above) : above[i] = q[i] BY <1>3, <1>5
<1>7. IsPrefix(above, q) BY <1>1, <1>2, <1>4, <1>6, PrefixSame
<1> QED BY <1>1, <1>4, <1>7 DEF IsStrictPrefix

\* What a name said of a text it says of what is left of it.
LEMMA NameKept ==
    ASSUME Marker \notin {"shape", "tokenReference"}, NEW v \in ResultInputs, NEW w, w = Redact(v).value, NEW path \in DOMAIN w,
           path # <<>>
    PROVE  SensitiveEntry(w, path) <=> SensitiveEntry(v, path)
<1>1. DOMAIN w = Reached(v) /\ DOMAIN w \subseteq DOMAIN v BY RedactedNodes
<1>2. \A at \in DOMAIN w : w[at] = RedactNode(v, at) BY <1>1, RedactedNodes
<1> DEFINE at == Beside(path, <<"field", "name">>)
<1>3. ASSUME SensitiveEntry(w, path) PROVE SensitiveEntry(v, path)
    <2>1. CASE FieldNameIsSensitive(Last(path)[2]) BY <1>3, <2>1 DEF SensitiveEntry
    <2>2. CASE ~FieldNameIsSensitive(Last(path)[2])
        <3>1. /\ Last(path)[1] = "field" /\ Last(path)[2] = "value" /\ at \in DOMAIN w
              /\ w[at].is = "text" /\ w[at].of # <<>> /\ NameIsSensitive(w[at].of[1].name)
            BY <1>3, <2>2 DEF SensitiveEntry
        <3>2. w[at] # Redacted BY <3>1, MarkerHidden DEF NameIsSensitive
        <3>3. ~GoesWhole(v, at) BY <1>1, <1>2, <3>1, <3>2, NodeRedacted
        <3>4. KeptAs(v, w, at) BY <1>1, <1>2, <3>1, <3>3, BesideKept
        <3> QED BY <1>1, <3>1, <3>4 DEF SensitiveEntry, KeptAs
    <2> QED BY <2>1, <2>2
<1>4. ASSUME SensitiveEntry(v, path) PROVE SensitiveEntry(w, path)
    <2>1. CASE FieldNameIsSensitive(Last(path)[2]) BY <1>4, <2>1 DEF SensitiveEntry
    <2>2. CASE ~FieldNameIsSensitive(Last(path)[2])
        <3> DEFINE S == UNION {Range(q) : q \in DOMAIN v}
        <3>1. /\ Last(path)[1] = "field" /\ Last(path)[2] = "value" /\ at \in DOMAIN v
              /\ v[at].is = "text" /\ v[at].of # <<>> /\ NameIsSensitive(v[at].of[1].name)
            BY <1>4, <2>2 DEF SensitiveEntry
        <3>2. DOMAIN v \subseteq Seq(S) /\ path \in Seq(S) /\ at \in Seq(S) BY <1>1, <3>1, ResultAssumption
        <3> HIDE DEF S
        <3>3. at # <<>> /\ Last(at) = <<"field", "name">>
            <4>1. Len(path) \in Nat /\ DOMAIN path = 1 .. Len(path) /\ Len(path) # 0 BY <3>2, LenProperties, EmptySeq
            <4>2. DOMAIN at = DOMAIN path /\ at[Len(path)] = <<"field", "name">> BY <4>1 DEF Beside
            <4>3. DOMAIN at = 1 .. Len(at) /\ Len(at) \in Nat BY <3>2, LenProperties
            <4>4. Len(at) = Len(path) BY <4>1, <4>2, <4>3
            <4>5. at # <<>> BY <4>1, <4>2
            <4> QED BY <4>2, <4>4, <4>5 DEF Last
        <3>4. at \in DOMAIN w
            <4>1. \A above \in DOMAIN v : IsStrictPrefix(above, at) => IsStrictPrefix(above, path)
                BY <3>2, AboveBeside
            <4> QED BY <1>1, <3>1, <4>1 DEF Reached
        <3>5. ~GoesWhole(v, at)
            <4>1. Last(at)[1] = "field" /\ Last(at)[2] = "name" BY <3>3
            <4>2. ~Sensitive(v, at)
                BY <4>1 DEF Sensitive, SensitiveEntry, FollowsOption, FieldNameIsSensitive, NameIsSensitive
            <4>3. \A i \in DOMAIN v[at].of : v[at].of[i].form # "block"
                <5>1. \A p \in Range(v[at].of) : p.form # "block" BY <3>1, <3>3, ResultAssumption
                <5> QED BY <5>1 DEF Range
            <4> QED BY <4>2, <4>3 DEF GoesWhole, Marked
        <3>6. KeptAs(v, w, at) BY <1>1, <1>2, <3>4, <3>5, BesideKept
        <3> QED BY <3>1, <3>4, <3>6 DEF SensitiveEntry, KeptAs
    <2> QED BY <2>1, <2>2
<1> QED BY <1>3, <1>4

\* A text that follows an option's name in what is redacted, and isn't masked, did so before.
LEMMA OptionKept ==
    ASSUME Marker \notin {"shape", "tokenReference"}, NEW v \in ResultInputs, NEW w, w = Redact(v).value, NEW path \in DOMAIN w,
           FollowsOption(w, path)
    PROVE  FollowsOption(v, path) /\ ~IsPlaceholder(w[path])
<1>1. DOMAIN w = Reached(v) /\ DOMAIN w \subseteq DOMAIN v BY RedactedNodes
<1>2. \A at \in DOMAIN w : w[at] = RedactNode(v, at) BY <1>1, RedactedNodes
<1> DEFINE at == Beside(path, <<"item", Last(path)[2] - 1>>)
<1>3. /\ Last(path)[1] = "item" /\ at \in DOMAIN w /\ w[at].is = "text"
      /\ Len(w[at].of) = 1 /\ w[at].of[1].form = "optionName" /\ OptionNameIsSensitive(w[at].of[1].name)
      /\ w[path].is = "text" /\ w[path].of[1].form # "optionName" /\ ~IsPlaceholder(w[path])
    BY DEF FollowsOption
<1>4. w[at] # Redacted BY <1>3, MarkerHidden
<1>5. ~GoesWhole(v, at) BY <1>1, <1>2, <1>3, <1>4, NodeRedacted
<1>6. KeptAs(v, w, at) BY <1>1, <1>2, <1>3, <1>5, BesideKept
<1>7. w[path] # Redacted BY <1>3, MarkerHidden
<1>8. ~GoesWhole(v, path) BY <1>1, <1>2, <1>7, NodeRedacted
<1>9. KeptAs(v, w, path) BY <1>1, <1>2, <1>8, BesideKept
<1>10. w[path].of # <<>> BY <1>3 DEF IsPlaceholder
<1>11. v[at].is = "text" /\ Len(v[at].of) = 1 /\ v[at].of[1].form = "optionName" /\ OptionNameIsSensitive(v[at].of[1].name)
    <2>1. w[at].of # <<>>
        <3>1. w[at].of = <<>> => Len(w[at].of) = 0 OBVIOUS
        <3> QED BY <1>3, <3>1
    <2> QED BY <1>3, <1>6, <2>1 DEF KeptAs
<1>12. v[path].is = "text" /\ v[path].of[1].form # "optionName" /\ ~IsPlaceholder(v[path])
    BY <1>3, <1>9, <1>10 DEF KeptAs
<1> QED BY <1>1, <1>3, <1>11, <1>12 DEF FollowsOption

\* Of what is redacted, nothing is to go whole and no part of a text that is looked at is
\* to go: a text that was sensitive is a marker, or a placeholder under the name it was
\* under, the one place for a token to be left.
LEMMA NothingLeft ==
    ASSUME Marker \notin {"shape", "tokenReference"}, NEW v \in ResultInputs, NEW w, w = Redact(v).value, NEW path \in DOMAIN w
    PROVE  /\ ~GoesWhole(w, path) /\ Found(w, path) = {}
           /\ \A i \in DOMAIN w[path].of :
                /\ w[path].of[i].form # "block"
                /\ Shaped(w[path].of[i]) => SensitiveEntry(v, path) /\ IsPlaceholder(w[path])
<1> DEFINE NoBlock(n) == \A i \in DOMAIN n.of : n.of[i].form # "block"
           Clean(n) == \A i \in DOMAIN n.of : ~ToHide(n.of[i])
<1>0. SUFFICES /\ ~Marked(w, path) /\ NoBlock(w[path])
               /\ Clean(w[path]) \/ (Sensitive(w, path) /\ SensitiveEntry(v, path) /\ IsPlaceholder(w[path]))
    BY DEF GoesWhole, Found, Searched, ToHide
<1>1. DOMAIN w = Reached(v) /\ DOMAIN w \subseteq DOMAIN v BY RedactedNodes
<1>2. \A at \in DOMAIN w : w[at] = RedactNode(v, at) BY <1>1, RedactedNodes
<1>3. path \in DOMAIN v BY <1>1
<1> DEFINE n == v[path]
           hidden == Concealed(v, path)
           raw == ReadRaw(v, path)
<1>4. n = [is |-> n.is, of |-> n.of] /\ (n.is # "text" => n.of = <<>>) /\ DOMAIN n.of = 1 .. Len(n.of) /\ Len(n.of) \in Nat
    BY <1>3, ResultNodes
<1>5. ASSUME NEW i \in DOMAIN n.of
      PROVE  n.of[i] = [form |-> n.of[i].form, name |-> n.of[i].name, value |-> n.of[i].value, like |-> n.of[i].like]
    <2>1. n.of[i] \in Parts(v) BY <1>3, ResultNodes
    <2> QED BY <2>1, ResultNodes
<1>6. CASE GoesWhole(v, path)
    <2>1. w[path] = Redacted BY <1>2, <1>3, <1>6, NodeRedacted
    <2> QED BY <2>1, MarkerHidden DEF Marked
<1>7. CASE ~GoesWhole(v, path)
    <2>1. /\ w[path].is = n.is /\ DOMAIN w[path].of = DOMAIN n.of
          /\ \A i \in DOMAIN n.of : w[path].of[i] = IF i \in hidden THEN Hide(n.of[i], raw) ELSE n.of[i]
        <3>1. w[path] = [is |-> n.is, of |-> w[path].of] BY <1>2, <1>3, <1>7, NodeRedacted
        <3>2. w[path].is = n.is BY <3>1
        <3> QED BY <1>2, <1>3, <1>7, <3>2, NodeRedacted
    <2>2. KeptAs(v, w, path) BY <1>2, <1>3, <1>7, BesideKept
    <2>3. CASE Sensitive(v, path)
        <3>1. n.is \in {"text", "json"} => IsPlaceholder(n) BY <1>7, <2>3 DEF GoesWhole, Marked
        <3>2. n.is = "text" => IsPlaceholder(w[path]) BY <2>2, <3>1 DEF KeptAs
        <3>3. n.is # "json" BY <3>1 DEF IsPlaceholder
        <3>4. ~Marked(w, path) BY <2>1, <3>2, <3>3 DEF Marked
        <3>5. CASE n.is # "text"
            <4>1. DOMAIN w[path].of = {} BY <1>4, <2>1, <3>5
            <4> QED BY <3>4, <4>1
        <3>6. CASE n.is = "text"
            <4>1. SensitiveEntry(v, path) /\ path # <<>> BY <2>3, <3>1, <3>6 DEF Sensitive, FollowsOption
            <4>2. Sensitive(w, path) BY <4>1, NameKept DEF Sensitive
            <4>3. ASSUME NEW i \in DOMAIN n.of PROVE n.of[i].form = "words"
                BY <1>4, <3>1, <3>6 DEF IsPlaceholder
            <4>4. ASSUME NEW i \in DOMAIN n.of PROVE Hide(n.of[i], raw).form = "words"
                BY <1>5, <4>3, PartHidden
            <4>5. NoBlock(w[path])
                <5> HIDE DEF n, hidden, raw
                <5> QED BY <2>1, <4>3, <4>4
            <4> QED BY <3>2, <3>4, <3>6, <4>1, <4>2, <4>5
        <3> QED BY <3>5, <3>6
    <2>4. CASE ~Sensitive(v, path)
        <3>1. ASSUME NEW i \in DOMAIN n.of PROVE n.of[i].form # "block" /\ (i \notin hidden => ~ToHide(n.of[i]))
            <4>1. n.is = "text" BY <1>4
            <4>2. n.of[i].form # "block" BY <1>7, <2>4, <4>1 DEF GoesWhole, Searched
            <4>3. Found(v, path) = {} => ~ToHide(n.of[i]) BY <1>7, <2>4, <4>1 DEF Found, Searched
            <4>4. CASE raw
                <5>1. Found(v, path) = {} BY <1>1, <4>4 DEF ReadRaw, LooksAtText
                <5> QED BY <4>2, <4>3, <5>1
            <4>5. CASE ~raw
                <5>1. i \in hidden <=> ToHide(n.of[i]) BY <1>7, <2>4, <4>1, <4>5 DEF Concealed, Found, Searched
                <5> QED BY <4>2, <5>1
            <4> QED BY <4>4, <4>5
        <3>2. ASSUME NEW i \in DOMAIN n.of PROVE Hide(n.of[i], raw).form # "block" /\ ~ToHide(Hide(n.of[i], raw))
            <4>0. n.of[i] = [form |-> n.of[i].form, name |-> n.of[i].name, value |-> n.of[i].value, like |-> n.of[i].like]
                BY <1>5
            <4>1. Hide(n.of[i], raw).form = (IF n.of[i].form = "shape" THEN "words"
                                            ELSE IF n.of[i].form = "runOn" /\ raw THEN "setting" ELSE n.of[i].form)
                  /\ ~ToHide(Hide(n.of[i], raw))
                <5> HIDE DEF n, raw
                <5> QED BY <4>0, PartHidden
            <4>2. Hide(n.of[i], raw).form \in {"words", "setting", n.of[i].form}
                <5> DEFINE form == n.of[i].form
                <5>1. Hide(n.of[i], raw).form = (IF form = "shape" THEN "words"
                                                ELSE IF form = "runOn" /\ raw THEN "setting" ELSE form)
                    BY <4>1
                <5> HIDE DEF n, raw, form
                <5>2. CASE form = "shape" BY <5>1, <5>2
                <5>3. CASE form # "shape" /\ form = "runOn" /\ raw BY <5>1, <5>3
                <5>4. CASE form # "shape" /\ ~(form = "runOn" /\ raw)
                    <6>1. Hide(n.of[i], raw).form = form BY <5>1, <5>4
                    <6> QED BY <6>1 DEF form
                <5> QED BY <5>2, <5>3, <5>4
            <4> HIDE DEF n, raw
            <4> QED BY <3>1, <4>1, <4>2
        <3>3. Clean(w[path]) /\ NoBlock(w[path])
            <4> HIDE DEF n, hidden, raw
            <4> QED BY <2>1, <3>1, <3>2
        <3>4. ~Marked(w, path)
            <4> SUFFICES ASSUME Marked(w, path) PROVE FALSE OBVIOUS
            <4>1. path # <<>> /\ (SensitiveEntry(w, path) \/ FollowsOption(w, path)) BY DEF Marked, Sensitive
            <4>2. SensitiveEntry(v, path) \/ FollowsOption(v, path) BY <4>1, NameKept, OptionKept
            <4> QED BY <2>4, <4>1, <4>2 DEF Sensitive
        <3> QED BY <3>3, <3>4
    <2> QED BY <2>3, <2>4
<1> QED BY <1>6, <1>7

\* If a node goes whole, one that is reached does, it or one above: the first.
LEMMA MarkedReached ==
    ASSUME NEW v \in ResultInputs, NEW path \in DOMAIN v, Marked(v, path)
    PROVE  \E q \in Reached(v) : Marked(v, q) /\ IsPrefix(q, path)
<1> DEFINE S == UNION {Range(q) : q \in DOMAIN v}
           marked == {q \in DOMAIN v : Marked(v, q) /\ IsPrefix(q, path)}
           lengths == {Len(q) : q \in marked}
<1>1. DOMAIN v \subseteq Seq(S) BY ResultAssumption
<1> HIDE DEF S
<1>2. lengths \in SUBSET Nat /\ lengths # {}
    <2>1. \A q \in DOMAIN v : Len(q) \in Nat BY <1>1, LenProperties
    <2>2. IsPrefix(path, path)
        <3>1. path \in Seq(S) BY <1>1
        <3>2. Len(path) \in Nat BY <3>1, LenProperties
        <3> QED BY <3>1, <3>2, PrefixSame
    <2>3. path \in marked BY <2>2
    <2> QED BY <2>1, <2>3
<1>3. PICK n \in lengths : \A m \in lengths : n <= m BY <1>2, LeastNumber
<1>4. PICK q \in marked : Len(q) = n BY <1>3
<1>5. ASSUME NEW above \in DOMAIN v, IsStrictPrefix(above, q), Marked(v, above) PROVE FALSE
    <2>1. Len(above) < Len(q) BY <1>1, <1>5, AboveShorter
    <2>2. Len(above) \in Nat /\ Len(q) \in Nat /\ Len(path) \in Nat BY <1>1, LenProperties
    <2>3. IsPrefix(above, path)
        <3>1. above \in Seq(S) /\ q \in Seq(S) /\ path \in Seq(S) BY <1>1
        <3> QED BY <1>5, <3>1, PrefixOfPrefix DEF IsStrictPrefix
    <2>4. Len(above) \in lengths BY <1>5, <2>3
    <2>5. n <= Len(above) BY <1>3, <2>4
    <2> QED BY <1>4, <2>1, <2>2, <2>5
<1>6. q \in Reached(v) BY <1>5 DEF Reached
<1> QED BY <1>6

\* None is counted exactly if no text goes whole and no part is hidden.
LEMMA ReplacementsCounted ==
    ASSUME NEW v, IsFiniteSet(DOMAIN v), \A path \in DOMAIN v : IsFiniteSet(Concealed(v, path))
    PROVE  Redact(v).count = 0 <=> \A path \in Reached(v) : ~GoesWhole(v, path) /\ Concealed(v, path) = {}
<1> DEFINE of(path) == ({path} \X Concealed(v, path)) \cup (IF GoesWhole(v, path) THEN {<<path, 0>>} ELSE {})
<1>1. Redact(v).count = Cardinality(Replacements(v)) BY DEF Redact
<1>2. Reached(v) \subseteq DOMAIN v BY DEF Reached
<1>3. IsFiniteSet(Reached(v)) BY <1>2, FS_Subset
<1>4. ASSUME NEW path \in Reached(v) PROVE IsFiniteSet(of(path))
    <2>1. IsFiniteSet({path}) /\ IsFiniteSet({<<path, 0>>}) /\ IsFiniteSet({}) BY FS_Singleton, FS_EmptySet
    <2>2. IsFiniteSet({path} \X Concealed(v, path)) BY <1>2, <2>1, FS_Product
    <2>3. IsFiniteSet(IF GoesWhole(v, path) THEN {<<path, 0>>} ELSE {}) BY <2>1
    <2> QED BY <2>2, <2>3, FS_Union
<1>5. Replacements(v) = UNION {of(path) : path \in Reached(v)} BY DEF Replacements
<1>6. IsFiniteSet({of(path) : path \in Reached(v)})
    <2> HIDE DEF of
    <2> DEFINE f == [path \in Reached(v) |-> of(path)]
    <2>1. {of(path) : path \in Reached(v)} = {f[path] : path \in Reached(v)} OBVIOUS
    <2>2. f \in Surjection(Reached(v), {f[path] : path \in Reached(v)}) BY DEF Surjection
    <2> HIDE DEF f
    <2> QED BY <1>3, <2>1, <2>2, FS_Surjection
<1>7. IsFiniteSet(Replacements(v))
    <2> HIDE DEF of
    <2>1. \A s \in {of(path) : path \in Reached(v)} : IsFiniteSet(s) BY <1>4
    <2> QED BY <1>5, <1>6, <2>1, FS_UNION
<1>8. \A path \in Reached(v) : of(path) = {} <=> ~GoesWhole(v, path) /\ Concealed(v, path) = {}
    <2> SUFFICES ASSUME NEW path \in Reached(v)
                 PROVE  of(path) = {} <=> ~GoesWhole(v, path) /\ Concealed(v, path) = {}
        OBVIOUS
    <2>1. \A i \in Concealed(v, path) : <<path, i>> \in {path} \X Concealed(v, path) OBVIOUS
    <2>2. Concealed(v, path) = {} => {path} \X Concealed(v, path) = {} OBVIOUS
    <2> QED BY <2>1, <2>2
<1>9. Replacements(v) = {} <=> \A path \in Reached(v) : of(path) = {}
    <2> HIDE DEF of
    <2> QED BY <1>5
<1>10. Cardinality(Replacements(v)) = 0 <=> Replacements(v) = {} BY <1>7, FS_EmptySet
<1> HIDE DEF of
<1> QED BY <1>1, <1>8, <1>9, <1>10

\* With nothing to redact, a value is as it was.
Untouched(v) ==
    /\ v = [path \in DOMAIN v |-> v[path]]
    /\ \A path \in DOMAIN v : /\ v[path] = [is |-> v[path].is, of |-> v[path].of]
                              /\ v[path].of = [i \in DOMAIN v[path].of |-> v[path].of[i]]
                              /\ ~GoesWhole(v, path) /\ Concealed(v, path) = {}

LEMMA NoneRedacted ==
    ASSUME NEW v, Untouched(v)
    PROVE  Redact(v).value = v
<1>0. /\ v = [path \in DOMAIN v |-> v[path]]
      /\ \A path \in DOMAIN v : /\ v[path] = [is |-> v[path].is, of |-> v[path].of]
                                /\ v[path].of = [i \in DOMAIN v[path].of |-> v[path].of[i]]
                                /\ ~GoesWhole(v, path) /\ Concealed(v, path) = {}
    BY DEF Untouched
<1>1. \A path \in DOMAIN v : ~Marked(v, path) BY <1>0 DEF GoesWhole
<1>2. Reached(v) = DOMAIN v BY <1>1 DEF Reached
<1>3. ASSUME NEW path \in DOMAIN v PROVE RedactNode(v, path) = v[path]
    <2> DEFINE of == v[path].of
               made == [i \in DOMAIN of |-> IF i \in Concealed(v, path) THEN Hide(of[i], ReadRaw(v, path)) ELSE of[i]]
    <2>1. RedactNode(v, path) = [v[path] EXCEPT !.of = made] BY <1>0 DEF RedactNode
    <2>2. made = [i \in DOMAIN of |-> of[i]] BY <1>0
    <2>3. made = of BY <1>0, <2>2
    <2> HIDE DEF made
    <2> QED BY <1>0, <2>1, <2>3
<1>4. Redact(v).value = [path \in DOMAIN v |-> v[path]]
    <2>1. Redact(v).value = [path \in Reached(v) |-> RedactNode(v, path)] BY DEF Redact
    <2> QED BY <1>2, <1>3, <2>1
<1> QED BY <1>0, <1>4

\* Redacting what is redacted.
LEMMA RedactedAgain ==
    ASSUME NEW v \in ResultInputs, NEW w, w = Redact(v).value,
           \A json, path \in DOMAIN w :
                w[json].is = "json" /\ IsStrictPrefix(json, path) =>
                    \A p \in Range(w[path].of) : ~Shaped(p) /\ ~RunsOn(p)
    PROVE  Redact(w) = [value |-> w, count |-> 0]
<1>0. Marker \notin {"shape", "tokenReference"} BY ResultAssumption
<1>1. ASSUME NEW path \in DOMAIN w PROVE ~GoesWhole(w, path) /\ Found(w, path) = {} BY <1>0, NothingLeft
<1>2. ASSUME NEW path \in DOMAIN w PROVE ~GoesWhole(w, path) /\ Concealed(w, path) = {}
    <2>1. CASE ReadRaw(w, path)
        <3>1. PICK json \in DOMAIN w : w[json].is = "json" /\ IsStrictPrefix(json, path)
            BY <2>1 DEF ReadRaw, LooksAtText, Reached
        <3>2. \A i \in DOMAIN w[path].of : ~ToHideRaw(w[path].of[i]) BY <3>1 DEF ToHideRaw, Range
        <3> QED BY <1>1, <2>1, <3>2 DEF Concealed, FoundRaw
    <2>2. CASE ~ReadRaw(w, path) BY <1>1, <2>2 DEF Concealed
    <2> QED BY <2>1, <2>2
<1>3. DOMAIN w = Reached(v) /\ DOMAIN w \subseteq DOMAIN v BY RedactedNodes
<1>4. ASSUME NEW path \in DOMAIN w
      PROVE  w[path] = [is |-> w[path].is, of |-> w[path].of] /\ w[path].of = [i \in DOMAIN w[path].of |-> w[path].of[i]]
    <2>1. w[path] = RedactNode(v, path) BY <1>3, RedactedNodes
    <2>2. CASE GoesWhole(v, path)
        <3>1. w[path] = Redacted BY <1>3, <2>1, <2>2, NodeRedacted
        <3>2. Redacted = [is |-> "text", of |-> <<MarkerPart>>] BY DEF Redacted, Text
        <3> QED BY <3>1, <3>2
    <2>3. CASE ~GoesWhole(v, path)
        <3> DEFINE n == v[path]
                   made == [i \in DOMAIN n.of |-> IF i \in Concealed(v, path) THEN Hide(n.of[i], ReadRaw(v, path)) ELSE n.of[i]]
        <3>1. w[path] = [n EXCEPT !.of = made] BY <2>1, <2>3 DEF RedactNode
        <3>2. n = [is |-> n.is, of |-> n.of] BY <1>3, ResultNodes
        <3>3. made = [i \in DOMAIN made |-> made[i]] OBVIOUS
        <3> HIDE DEF made, n
        <3>4. w[path] = [is |-> n.is, of |-> made] BY <3>1, <3>2
        <3>5. w[path].is = n.is /\ w[path].of = made BY <3>4
        <3> QED BY <3>3, <3>4, <3>5
    <2> QED BY <2>2, <2>3
<1>5. w = [path \in DOMAIN w |-> w[path]] BY DEF Redact
<1>6. Redact(w).value = w
    <2>1. Untouched(w) BY <1>2, <1>4, <1>5 DEF Untouched
    <2> QED BY <2>1, NoneRedacted
<1>7. Redact(w).count = 0
    <2>1. IsFiniteSet(DOMAIN v) BY ResultAssumption
    <2>2. IsFiniteSet(DOMAIN w) BY <1>3, <2>1, FS_Subset
    <2>3. \A path \in DOMAIN w : IsFiniteSet(Concealed(w, path)) BY <1>2, FS_EmptySet
    <2>4. Reached(w) \subseteq DOMAIN w BY DEF Reached
    <2> QED BY <1>2, <2>2, <2>3, <2>4, ReplacementsCounted
<1>8. Redact(w) = [value |-> Redact(w).value, count |-> Redact(w).count] BY DEF Redact
<1> QED BY <1>6, <1>7, <1>8

\* Something is replaced exactly if the value changes.
LEMMA CountedChanges ==
    ASSUME NEW v \in ResultInputs
    PROVE  Redact(v).count = 0 <=> Redact(v).value = v
<1> DEFINE w == Redact(v).value
<1>0. Marker \notin {"shape", "tokenReference"} /\ IsFiniteSet(DOMAIN v) BY ResultAssumption
<1>1. ASSUME NEW path \in DOMAIN v PROVE IsFiniteSet(Concealed(v, path))
    <2>1. Concealed(v, path) \subseteq 1 .. Len(v[path].of) /\ Len(v[path].of) \in Nat
        BY ResultNodes DEF Concealed, Found, FoundRaw
    <2>2. IsFiniteSet(1 .. Len(v[path].of)) BY <2>1, FS_Interval
    <2> QED BY <2>1, <2>2, FS_Subset
<1>2. Redact(v).count = 0 <=> \A path \in Reached(v) : ~GoesWhole(v, path) /\ Concealed(v, path) = {}
    BY <1>0, <1>1, ReplacementsCounted
<1>3. ASSUME Redact(v).count = 0 PROVE w = v
    <2>1. \A path \in DOMAIN v : ~Marked(v, path) BY <1>2, <1>3, MarkedReached DEF GoesWhole
    <2>2. Reached(v) = DOMAIN v BY <2>1 DEF Reached
    <2>3. \A path \in DOMAIN v : /\ v[path] = [is |-> v[path].is, of |-> v[path].of]
                                 /\ v[path].of = [i \in DOMAIN v[path].of |-> v[path].of[i]]
        <3> SUFFICES ASSUME NEW path \in DOMAIN v
                     PROVE  /\ v[path] = [is |-> v[path].is, of |-> v[path].of]
                            /\ v[path].of = [i \in DOMAIN v[path].of |-> v[path].of[i]]
            OBVIOUS
        <3>1. v[path].of \in Seq(Parts(v)) /\ v[path] = [is |-> v[path].is, of |-> v[path].of] BY ResultNodes
        <3> QED BY <3>1
    <2>4. v = [path \in DOMAIN v |-> v[path]] BY ResultNodes
    <2>5. Untouched(v) BY <1>2, <1>3, <2>2, <2>3, <2>4 DEF Untouched
    <2> QED BY <2>5, NoneRedacted
<1>4. ASSUME w = v PROVE Redact(v).count = 0
    <2>1. DOMAIN w = Reached(v) /\ Reached(v) \subseteq DOMAIN v /\ \A path \in Reached(v) : w[path] = RedactNode(v, path)
        BY RedactedNodes
    <2> SUFFICES ASSUME NEW path \in Reached(v) PROVE ~GoesWhole(v, path) /\ Concealed(v, path) = {} BY <1>2
    <2>2. path \in DOMAIN w /\ path \in DOMAIN v /\ w[path] = v[path] BY <1>4, <2>1
    <2>3. ~GoesWhole(v, path) BY <1>0, <1>4, <2>2, NothingLeft
    <2>4. ASSUME NEW i \in Concealed(v, path) PROVE FALSE
        <3> DEFINE p == v[path].of[i]
        <3>1. i \in DOMAIN v[path].of /\ (ToHide(p) \/ (ReadRaw(v, path) /\ ToHideRaw(p)))
            BY <2>4 DEF Concealed, Found, FoundRaw
        <3>2. p \in Parts(v) BY <2>2, <3>1, ResultNodes
        <3>3. p = [form |-> p.form, name |-> p.name, value |-> p.value, like |-> p.like] BY <3>2, ResultNodes
        <3>4. w[path].of[i] = Hide(p, ReadRaw(v, path)) BY <2>1, <2>2, <2>3, <2>4, <3>1, NodeRedacted
        <3>5. Hide(p, ReadRaw(v, path)) = p BY <2>2, <3>4
        <3> HIDE DEF p
        <3>6. Hide(p, ReadRaw(v, path)) # p BY <1>0, <3>1, <3>3, PartHidden
        <3> QED BY <3>5, <3>6
    <2> QED BY <2>3, <2>4
<1> QED BY <1>3, <1>4

\* Redacting again does nothing to a result with nothing for a look at JSON's own text to
\* find, and what counts nothing changes nothing, for any result: texts, names and
\* nesting (_redact).
THEOREM RedactedOnce == Spec => []RedactionStable
<1>1. IInv => RedactionStable
    <2> SUFFICES ASSUME IInv, Told("redact") PROVE RedactionStable BY DEF RedactionStable
    <2>1. call.in \in ResultInputs BY InputsOfTool DEF Told, IInv, Inputs
    <2>2. answer = Redact(call.in) BY DEF Told, IInv, WorkedOut
    <2> DEFINE w == answer.value
    <2>3. ASSUME \A json, path \in DOMAIN w : w[json].is = "json" /\ IsStrictPrefix(json, path) =>
                    \A p \in Range(w[path].of) : ~Shaped(p) /\ ~RunsOn(p)
          PROVE  Redact(w) = [value |-> w, count |-> 0]
        <3>1. w = Redact(call.in).value BY <2>2
        <3> HIDE DEF w
        <3> QED BY <2>1, <2>3, <3>1, RedactedAgain
    <2>4. answer.count = 0 <=> answer.value = call.in BY <2>1, <2>2, CountedChanges
    <2> QED BY <2>3, <2>4 DEF RedactionStable
<1> QED BY <1>1, WorkedFromCall, PTL

\* Whatever a result holds, no key's block is left in a text of it, and no token but in a
\* placeholder under a sensitive name; and no reference is lost but with a text that goes
\* whole or in a setting that runs on (_redact_string, _is_placeholder).
THEOREM SecretsSwept == Spec => []RedactionSwept
<1>1. IInv => RedactionSwept
    <2> SUFFICES ASSUME IInv, Told("redact") PROVE RedactionSwept BY DEF RedactionSwept
    <2> DEFINE v == call.in
               w == answer.value
    <2>0. Marker \notin {"shape", "tokenReference"} BY ResultAssumption
    <2>1. v \in ResultInputs BY InputsOfTool DEF Told, IInv, Inputs
    <2>2. answer = Redact(v) BY DEF Told, IInv, WorkedOut
    <2> HIDE DEF v
    <2>3. w = Redact(v).value BY <2>2
    <2> HIDE DEF w
    <2>4. DOMAIN w = Reached(v) /\ Reached(v) \subseteq DOMAIN v /\ \A path \in Reached(v) : w[path] = RedactNode(v, path)
        BY <2>3, RedactedNodes
    <2>5. ASSUME NEW path \in DOMAIN w, NEW p \in Range(w[path].of)
          PROVE  p.form # "block" /\ (Shaped(p) => SensitiveEntry(v, path) /\ IsPlaceholder(w[path]))
        <3>1. PICK i \in DOMAIN w[path].of : p = w[path].of[i] BY DEF Range
        <3> QED BY <2>0, <2>1, <2>3, <3>1, NothingLeft
    <2>6. ASSUME NEW path \in DOMAIN v, NEW p \in Range(v[path].of), p.value = "reference", p.form # "runOn"
          PROVE  \E at \in DOMAIN w : IsPrefix(at, path) /\ (w[at] = Redacted \/ (at = path /\ p \in Range(w[at].of)))
        <3>1. PICK i \in DOMAIN v[path].of : p = v[path].of[i] BY DEF Range
        <3>2. IsPrefix(path, path)
            <4> DEFINE S == UNION {Range(q) : q \in DOMAIN v}
            <4>1. path \in Seq(S) BY <2>1, ResultAssumption
            <4> HIDE DEF S
            <4>2. Len(path) \in Nat BY <4>1, LenProperties
            <4> QED BY <4>1, <4>2, PrefixSame
        <3>3. CASE path \notin Reached(v)
            <4>1. PICK above \in DOMAIN v : IsStrictPrefix(above, path) /\ Marked(v, above) BY <3>3 DEF Reached
            <4>2. PICK q \in Reached(v) : Marked(v, q) /\ IsPrefix(q, above) BY <2>1, <4>1, MarkedReached
            <4>3. IsPrefix(q, path)
                <5> DEFINE S == UNION {Range(r) : r \in DOMAIN v}
                <5>1. q \in Seq(S) /\ above \in Seq(S) /\ path \in Seq(S) BY <2>1, <2>4, ResultAssumption
                <5> HIDE DEF S
                <5> QED BY <4>1, <4>2, <5>1, PrefixOfPrefix DEF IsStrictPrefix
            <4>4. w[q] = Redacted BY <2>1, <2>4, <4>2, NodeRedacted DEF GoesWhole
            <4> QED BY <2>4, <4>3, <4>4
        <3>4. CASE path \in Reached(v) /\ GoesWhole(v, path)
            <4>1. w[path] = Redacted BY <2>1, <2>4, <3>4, NodeRedacted
            <4> QED BY <2>4, <3>2, <3>4, <4>1
        <3>5. CASE path \in Reached(v) /\ ~GoesWhole(v, path)
            <4>1. p \in Parts(v) BY DEF Parts
            <4>2. ~ToHide(p) /\ ~ToHideRaw(p)
                <5>1. p.form # "shape" BY <2>1, <2>6, <4>1, ResultNodes
                <5> QED BY <2>6, <5>1 DEF ToHide, ToHideRaw, Shaped, Embedded, RunsOn
            <4>3. i \notin Concealed(v, path) BY <3>1, <4>2 DEF Concealed, Found, FoundRaw
            <4>4. DOMAIN w[path].of = DOMAIN v[path].of /\ w[path].of[i] = p
                BY <2>1, <2>4, <3>1, <3>5, <4>3, NodeRedacted
            <4>5. p \in Range(w[path].of) BY <3>1, <4>4 DEF Range
            <4> QED BY <2>4, <3>2, <3>5, <4>5
        <3> QED BY <3>3, <3>4, <3>5
    <2> QED BY <2>5, <2>6 DEF RedactionSwept, v, w
<1> QED BY <1>1, WorkedFromCall, PTL
=============================================================================
