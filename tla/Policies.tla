------------------------------ MODULE Policies ------------------------------
(***************************************************************************)
(* What NetworkPolicies allow a workload's pods, as workload_report says   *)
(* it (k8s_tools.py, NetworkPolicySummary and what it derives;             *)
(* composites.py, _workload_policy_lines), beside what they do allow.      *)
(*                                                                         *)
(* A policy is [name, types, ingress, egress, selects]; a rule is          *)
(* [peers, ports], each a set, empty for any; a peer is the set of ends it *)
(* admits (an end is a pod of this namespace, of another, or an address);  *)
(* a port is [number, end]: a number, Named for a container port's name,   *)
(* or Every, and the last of a range or NoEnd.                             *)
(***************************************************************************)
EXTENDS Integers, FiniteSets

CONSTANTS Named, Every, NoEnd

Directions == {"Ingress", "Egress"}
RulesOf(policy, direction) == IF direction = "Ingress" THEN policy.ingress ELSE policy.egress

\* The directions restricted, with the API's default.
PolicyTypes(types, egress) ==
    IF types # {} THEN types ELSE {"Ingress"} \cup (IF egress # {} THEN {"Egress"} ELSE {})

\* _selector_matches, for a selector's expressions [key, operator, values]; a
\* matchLabels entry is an In of one value.
SelectorMatches(selector, labels) ==
    \A e \in selector :
        LET present == e.key \in DOMAIN labels IN
        \/ e.operator = "In" /\ present /\ labels[e.key] \in e.values
        \/ e.operator = "NotIn" /\ (present => labels[e.key] \notin e.values)
        \/ e.operator = "Exists" /\ present
        \/ e.operator = "DoesNotExist" /\ ~present

\* Pods on the host network are not selected.
SelectedPods(selector, pods) ==
    {p.name : p \in {q \in pods : ~q.hostNetwork /\ SelectorMatches(selector, q.labels)}}

\* get_networkpolicy_summaries, of a namespace.
ReadPolicies(policies, pods) ==
    {[name |-> p.name, types |-> PolicyTypes(p.types, p.egress), ingress |-> p.ingress,
      egress |-> p.egress, selects |-> SelectedPods(p.selector, pods)] : p \in policies}

\* A bug to catch: a rule without ports is one without peers.
PolicyEffectOfPorts(rules) ==
    IF rules = {} THEN [says |-> "nothing", rules |-> {}]
    ELSE IF \E r \in rules : r.ports = {}
    THEN [says |-> "everything", rules |-> {}]
    ELSE [says |-> "only", rules |-> rules]

\* network_policy_effect.
PolicyEffect(rules) ==
    IF rules = {} THEN [says |-> "nothing", rules |-> {}]
    ELSE IF \E r \in rules : r.peers = {} /\ r.ports = {}
    THEN [says |-> "everything", rules |-> {}]
    ELSE [says |-> "only", rules |-> rules]

InPort(port, number) ==
    \/ port.number = Every
    \/ port.number \notin {Named, Every} /\ port.number = number
    \/ port.number \notin {Named, Every} /\ port.end # NoEnd
       /\ port.number <= number /\ number <= port.end

\* A bug to catch: a named port allows no number.
AllowsPortNamed(rules, number) ==
    IF \E r \in rules : r.ports = {} \/ \E p \in r.ports : InPort(p, number) THEN "yes" ELSE "no"

\* allows_port: a named port could be any number.
AllowsPort(rules, number) ==
    IF \E r \in rules : r.ports = {} \/ \E p \in r.ports : InPort(p, number) THEN "yes"
    ELSE IF \E r \in rules : \E p \in r.ports : p.number = Named THEN "unknown" ELSE "no"

\* A bug to catch: only policies that select every pod count.
PolicyLinesOfAll(policies, pods, direction) ==
    LET these == {p \in policies : pods \subseteq p.selects /\ direction \in p.types}
        rules == UNION {RulesOf(p, direction) : p \in these} IN
    [effect |-> IF these = {} THEN [says |-> "anything", rules |-> {}] ELSE PolicyEffect(rules),
     noDNS |-> these # {} /\ direction = "Egress" /\ AllowsPort(rules, 53) = "no",
     some |-> FALSE]

\* _workload_policy_lines, for one direction: "anything", or the effect of
\* all the rules together; whether name lookups are said to fail; and whether
\* some policy is said to select only some of the pods.
PolicyLines(policies, pods, direction) ==
    LET selecting == {p \in policies : p.selects \cap pods # {}}
        these == {p \in selecting : direction \in p.types}
        rules == UNION {RulesOf(p, direction) : p \in these} IN
    [effect |-> IF these = {} THEN [says |-> "anything", rules |-> {}] ELSE PolicyEffect(rules),
     noDNS |-> these # {} /\ direction = "Egress" /\ AllowsPort(rules, 53) = "no",
     some |-> \E p \in selecting : ~(pods \subseteq p.selects)]

-----------------------------------------------------------------------------
(* What the API does of its own policies and pods: a packet is [other,     *)
(* port, named], the pod's other end, the port's number, and whether its   *)
(* containers name it.  Of pods on the host network the API leaves it      *)
(* undefined: here, as in the code, no policy selects them.                *)

\* Whether labels meet an expression: the one value they have for its key, or none.
Meets(expression, labels) ==
    LET have == {labels[key] : key \in DOMAIN labels \cap {expression.key}} IN
    CASE expression.operator = "In" -> have \cap expression.values # {}
      [] expression.operator = "NotIn" -> have \cap expression.values = {}
      [] expression.operator = "Exists" -> have # {}
      [] expression.operator = "DoesNotExist" -> have = {}

Selects(policy, pod) == ~pod.hostNetwork /\ \A e \in policy.selector : Meets(e, pod.labels)

\* A policy that names no type is of ingress, and of egress when it has such rules.
Restricts(policy, direction) ==
    \/ direction \in policy.types
    \/ policy.types = {} /\ (direction = "Egress" => policy.egress # {})

RuleAllows(rule, packet) ==
    /\ rule.peers = {} \/ \E peer \in rule.peers : packet.other \in peer
    /\ \/ rule.ports = {}
       \/ \E p \in rule.ports : InPort(p, packet.port) \/ (p.number = Named /\ packet.named)

\* A direction no policy restricts is open; the policies that do add up.
Allowed(policies, pod, direction, packet) ==
    LET restricting == {p \in policies : Selects(p, pod) /\ Restricts(p, direction)} IN
    restricting = {} \/ \E p \in restricting : \E r \in RulesOf(p, direction) : RuleAllows(r, packet)

\* What an effect says of a packet.
SaysAllowed(effect, packet) ==
    \/ effect.says \in {"anything", "everything"}
    \/ effect.says = "only" /\ \E r \in effect.rules : RuleAllows(r, packet)
=============================================================================
