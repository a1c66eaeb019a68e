----------------------------- MODULE Placement -----------------------------
(***************************************************************************)
(* Why a pod isn't scheduled, as the composite reports say it              *)
(* (composites.py): the scheduler's reason, the unbound claims it mounts   *)
(* and how many nodes its own constraints admit.                           *)
(*                                                                         *)
(* A node is [name, labels, taints, ordered]: labels a function, a taint   *)
(* [key, value, effect].  A pod's spec is [selector, terms, tolerations]:  *)
(* terms a set of [expressions, fields], or NoAffinity.                    *)
(***************************************************************************)
EXTENDS Integers, FiniteSets

CONSTANTS
    Words,        \* label values that aren't integers; the others are
    NoAffinity,   \* a spec without required node affinity
    Empty         \* a toleration's field that isn't set

\* _matches_requirement, of a requirement [key, operator, values].
MatchesRequirement(r, labels) ==
    LET has == r.key \in DOMAIN labels
        compared == has /\ labels[r.key] \notin Words /\ r.values # {} /\ r.values \cap Words = {} IN
    \/ r.operator = "In" /\ has /\ labels[r.key] \in r.values
    \/ r.operator = "NotIn" /\ (has => labels[r.key] \notin r.values)
    \/ r.operator = "Exists" /\ has
    \/ r.operator = "DoesNotExist" /\ ~has
    \/ r.operator = "Gt" /\ compared /\ \E v \in r.values : labels[r.key] > v
    \/ r.operator = "Lt" /\ compared /\ \E v \in r.values : labels[r.key] < v

NodeFields(node) == [k \in {"metadata.name"} |-> node.name]

\* A bug to catch: an empty term matches every node.
MatchesEmptyTerm(term, node) ==
    /\ \A r \in term.expressions : MatchesRequirement(r, node.labels)
    /\ \A r \in term.fields : MatchesRequirement(r, NodeFields(node))

\* _matches_term.
MatchesTerm(term, node) ==
    /\ term.expressions \cup term.fields # {}
    /\ \A r \in term.expressions : MatchesRequirement(r, node.labels)
    /\ \A r \in term.fields : MatchesRequirement(r, NodeFields(node))

Admits(spec, node) ==
    /\ \A k \in DOMAIN spec.selector : k \in DOMAIN node.labels /\ node.labels[k] = spec.selector[k]
    /\ spec.terms = NoAffinity \/ \E t \in spec.terms : MatchesTerm(t, node)

Tolerates(tolerations, taint) ==
    \E t \in tolerations :
        /\ t.effect \in {Empty, taint.effect}
        /\ t.key \in {Empty, taint.key}
        /\ t.operator = "Exists" \/ t.value = taint.value

Repelled(spec, node) ==
    \E t \in node.taints : t.effect # "PreferNoSchedule" /\ ~Tolerates(spec.tolerations, t)

\* _placement_line: the nodes that match, and those of them that repel the pod.
PlacementLine(spec, nodes) ==
    LET admitted == {n \in nodes : Admits(spec, n)} IN
    [constrained |-> DOMAIN spec.selector # {} \/ spec.terms # NoAffinity,
     match |-> Cardinality(admitted), of |-> Cardinality(nodes),
     repel |-> Cardinality({n \in admitted : Repelled(spec, n)})]

-----------------------------------------------------------------------------
(* The scheduler's filters, by the label values a requirement is satisfied *)
(* by: NotIn and DoesNotExist are the complements of In and Exists.        *)

SatisfiedBy(r, values) ==
    LET ints == values \ Words IN
    CASE r.operator \in {"In", "NotIn"} -> r.values
      [] r.operator = "Gt" -> {v \in ints : \A b \in r.values : b \notin Words /\ v > b}
      [] r.operator = "Lt" -> {v \in ints : \A b \in r.values : b \notin Words /\ v < b}
      [] OTHER -> values

Satisfied(r, labels) ==
    LET values == {labels[k] : k \in DOMAIN labels}
        in == r.key \in DOMAIN labels /\ labels[r.key] \in SatisfiedBy(r, values) IN
    IF r.operator \in {"NotIn", "DoesNotExist"} THEN ~in ELSE in

Fits(spec, node) ==
    /\ \A k \in DOMAIN spec.selector :
        Satisfied([key |-> k, operator |-> "In", values |-> {spec.selector[k]}], node.labels)
    /\ spec.terms # NoAffinity =>
        \E t \in spec.terms : /\ t # [expressions |-> {}, fields |-> {}]
                              /\ \A r \in t.expressions : Satisfied(r, node.labels)
                              /\ \A r \in t.fields : Satisfied(r, NodeFields(node))
=============================================================================
