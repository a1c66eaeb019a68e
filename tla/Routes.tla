------------------------------- MODULE Routes -------------------------------
(***************************************************************************)
(* Who answers behind a Service: get_endpoint_summaries and                *)
(* get_ingress_summaries (k8s_tools.py), of one namespace, and the lines   *)
(* the reports make of them (composites.py).                               *)
(*                                                                         *)
(* A slice is [service, endpoints], its service the label's or its own     *)
(* name, its endpoints a sequence of [addresses, pod, ready, terminating], *)
(* addresses a sequence.  A service is [ports, external], its ports a set  *)
(* of [number, name].  A rule is [resource, service, port], port a         *)
(* [number, name] too, of which one is absent, or NoPort.                  *)
(***************************************************************************)
EXTENDS Lists, FiniteSets

CONSTANTS
    NoPod,        \* an endpoint that isn't a Pod's
    Unset,        \* a condition, a number or a name not given
    NoService,    \* the service of a rule for a resource
    NoPort,       \* a rule for a service whatever its port
    Unreadable    \* how many are ready, where endpoints can't be read

Identity(e) == IF e.pod # NoPod THEN e.pod ELSE e.addresses[1]

\* The endpoints of a service that have an address, slice after slice.
Listed(slices, service) ==
    LET of == Those(slices, {s \in Range(slices) : s.service = service})
        all == FlattenSeq([i \in DOMAIN of |-> of[i].endpoints])
    IN  Those(all, {e \in Range(all) : e.addresses # <<>>})

\* A bug to catch: every endpoint of every slice counts.
CountedEach(listed) == DOMAIN listed

\* Those that count: a pod or an address does once, as first listed.
Counted(listed) == {i \in DOMAIN listed : \A j \in 1 .. i - 1 : Identity(listed[j]) # Identity(listed[i])}

IsReady(e) == e.ready # FALSE

\* get_endpoint_summaries, as a function of the services.
Endpoints(slices) ==
    [service \in {s.service : s \in Range(slices)} |->
        LET listed == Listed(slices, service)
            counted == Counted(listed) IN
        [pods |-> {listed[i].pod : i \in counted} \ {NoPod},
         ready |-> Cardinality({i \in counted : IsReady(listed[i])}),
         terminating |-> Cardinality({i \in counted : listed[i].terminating}),
         notReady |-> Cardinality({i \in counted : ~IsReady(listed[i]) /\ ~listed[i].terminating})]]

\* A bug to catch: a rule's port is looked for by its number.
BackendByNumber(rule, services, endpoints) ==
    IF rule.service = NoService THEN [problem |-> "none", ready |-> Unreadable]
    ELSE IF rule.service \notin DOMAIN services THEN [problem |-> "service", ready |-> Unreadable]
    ELSE IF ~(rule.port # NoPort => \E p \in services[rule.service].ports : p.number = rule.port.number)
    THEN [problem |-> "port", ready |-> Unreadable]
    ELSE [problem |-> "none",
          ready |-> IF endpoints = Unreadable \/ services[rule.service].external THEN Unreadable
                    ELSE IF rule.service \in DOMAIN endpoints THEN endpoints[rule.service].ready ELSE 0]

HasPort(service, port) ==
    \E p \in service.ports : \/ port.number # Unset /\ p.number = port.number
                             \/ port.name # Unset /\ p.name = port.name

\* _ingress_backend, resolved against the services, and the endpoints if they
\* could be read.
Backend(rule, services, endpoints) ==
    IF rule.service = NoService THEN [problem |-> "none", ready |-> Unreadable]
    ELSE IF rule.service \notin DOMAIN services THEN [problem |-> "service", ready |-> Unreadable]
    ELSE IF rule.port # NoPort /\ ~HasPort(services[rule.service], rule.port)
    THEN [problem |-> "port", ready |-> Unreadable]
    ELSE [problem |-> "none",
          ready |-> IF endpoints = Unreadable \/ services[rule.service].external THEN Unreadable
                    ELSE IF rule.service \in DOMAIN endpoints THEN endpoints[rule.service].ready ELSE 0]

\* get_ingress_summaries: each rule beside its backend.
IngressRules(rules, services, endpoints) ==
    {[rule |-> r, backend |-> Backend(r, services, endpoints)] : r \in rules}

-----------------------------------------------------------------------------
(* The reports' lines.                                                     *)

\* _services_for: the services whose endpoints include one of the pods.
ServicesFor(endpoints, pods) ==
    IF endpoints = Unreadable THEN {} ELSE {s \in DOMAIN endpoints : endpoints[s].pods \cap pods # {}}

Broken(line) == line.backend.problem # "none" \/ line.backend.ready = 0

\* _ingress_lines: workload_report's, of the rules to its pods' services, and
\* namespace_health's, of those that can't reach a pod.
RulesTo(lines, services) == {l \in lines : l.rule.service \in services}
RulesInTrouble(lines) == {l \in lines : Broken(l)}
=============================================================================
