----------------------------- MODULE MCAnswers -----------------------------
(***************************************************************************)
(* Inputs for each tool of Answers: small, but with each of the cases the  *)
(* code tells apart, and most pairs of them.                               *)
(***************************************************************************)
EXTENDS Answers

-----------------------------------------------------------------------------
(* Logs: up to four lines, in order of time.  A table of widths of 1, 5 and *)
(* 10, a day of 20, four buckets and five samples at most.                 *)

MCWidths == {1, 5, 10}
Line(time, hit) == [time |-> time, hit |-> hit]
LogsOf(times, n) ==
    {log \in UNION {[1 .. k -> [time : times, hit : BOOLEAN]] : k \in 0 .. n} : InOrder(log)}

MCSummaryInputs ==
    [log : LogsOf({0, 1, 2}, 3) \cup LogsOf({NoTime, 3, 11, 38}, 4) \cup LogsOf({4, 64, 103}, 3),
     asked : {1, 3, 30}, samples : {3}, began : {NoTime}, known : {FALSE}, started : {NoTime}]
    \cup [log : LogsOf({NoTime, 70}, 2), asked : {5}, samples : {-1, 0, 1, 2},
          began : {NoTime, 5, 70}, known : BOOLEAN, started : {NoTime, 0, 10}]
    \cup [log : {[i \in 1 .. n |-> Line(i, TRUE)] : n \in 1 .. 9}, asked : {1}, samples : 1 .. 6,
          began : {NoTime}, known : {TRUE}, started : {NoTime}]

MCReadInputs ==
    [log : LogsOf({NoTime, 1, 2, 5}, 4), began : {NoTime, 0, 1}, shift : {100}, elapsed : {6},
     tail : {NoTime, 0, 1, 2}, since : {NoTime, 1, 4}]

-----------------------------------------------------------------------------
(* Two policies over two pods, whose labels and rules vary.                *)

Ends == {"here", "there", "address"}
MCPackets == [other : {"here", "address"}, port : {53, 80}, named : BOOLEAN]
Port(number, end) == [number |-> number, end |-> end]
Rule(peers, ports) == [peers |-> peers, ports |-> ports]
RuleSets ==
    {{}, {Rule({}, {})}, {Rule({{"here"}}, {})}, {Rule({}, {Port(50, 60)})},
     {Rule({}, {Port(Named, NoEnd)})}, {Rule({{"here"}, {"there"}}, {Port(80, NoEnd)})},
     {Rule({{"address"}}, {Port(Every, NoEnd)}), Rule({}, {Port(80, NoEnd)})}}
Expression(key, operator, values) == [key |-> key, operator |-> operator, values |-> values]
Selectors ==
    {{}, {Expression("app", "In", {"web"})}, {Expression("app", "NotIn", {"web"})},
     {Expression("app", "DoesNotExist", {})}}
Policy(name, types, ingress, egress, selector) ==
    [name |-> name, types |-> types, ingress |-> ingress, egress |-> egress, selector |-> selector]
FirstPolicies ==
    {{Policy("p", types, {}, egress, selector)} :
        types \in {{}, {"Ingress"}, {"Egress"}}, egress \in RuleSets, selector \in Selectors}
SecondPolicies ==
    {{}} \cup {{Policy("q", {"Ingress", "Egress"}, rules, rules, selector)} :
        rules \in RuleSets, selector \in {{}, {Expression("app", "Exists", {})}}}
PolicyPod(name, labels, hostNetwork) == [name |-> name, labels |-> labels, hostNetwork |-> hostNetwork]
App(value) == [k \in {"app"} |-> value]
None == [k \in {} |-> {}]
MCPolicyInputs ==
    {[policies |-> p \cup q, pods |-> pods] :
        p \in FirstPolicies, q \in SecondPolicies,
        pods \in {{PolicyPod("x", App("web"), FALSE), PolicyPod("y", App("db"), FALSE)},
                  {PolicyPod("x", App("web"), FALSE)}, {PolicyPod("x", None, FALSE)},
                  {PolicyPod("x", App("web"), TRUE)}}}

-----------------------------------------------------------------------------
(* Two nodes, and specs with a selector, affinity terms and tolerations.   *)

MCWords == {9}
Taint(key, value, effect) == [key |-> key, value |-> value, effect |-> effect]
Node(name, labels, taints) == [name |-> name, labels |-> labels, taints |-> taints]
Zone(value) == [k \in {"zone"} |-> value]
NodeSets ==
    {{Node("m", l, t), Node("n", Zone(2), {Taint("gpu", 1, "NoSchedule")})} :
        l \in {None, Zone(1), Zone(9)},
        t \in {{}, {Taint("gpu", 2, "PreferNoSchedule")},
               {Taint("gpu", 1, "NoExecute"), Taint("dedicated", 2, "NoSchedule")}}}
Requirements == [key : {"zone", "rack"}, operator : {"In", "NotIn", "Exists", "DoesNotExist", "Gt", "Lt"},
                 values : {{1}, {2}, {9}}]
Term(expressions, fields) == [expressions |-> expressions, fields |-> fields]
Affinities ==
    {NoAffinity, {}, {Term({}, {})}, {Term({}, {Expression("metadata.name", "In", {"m"})})}}
    \cup {{Term({r}, {})} : r \in Requirements}
    \cup {{Term({r, Expression("zone", "NotIn", {2})}, {}), Term({}, {})} : r \in Requirements}
Toleration(key, operator, value, effect) ==
    [key |-> key, operator |-> operator, value |-> value, effect |-> effect]
TolerationSets ==
    {{}, {Toleration(Empty, "Exists", Empty, Empty)}, {Toleration("gpu", "Equal", 1, "NoSchedule")},
     {Toleration("gpu", "Exists", Empty, Empty), Toleration("dedicated", "Equal", 2, "NoSchedule")}}
MCPlacementInputs ==
    [nodes : NodeSets,
     spec : [selector : {None, Zone(1), Zone(2)}, terms : Affinities, tolerations : TolerationSets]]

-----------------------------------------------------------------------------
(* Revisions: templates that differ from a base in one place or two.       *)

Map(key, value) == [k \in {key} |-> value]
Env(value, refers) == [value |-> value, refers |-> refers]
Mount(volume, subPath, rest) == [volume |-> volume, subPath |-> subPath, readOnly |-> FALSE, rest |-> rest]
Config == <<"ConfigMap", "c">>
MCStructured == {"list"}
MCControllerLabels == {"pod-template-hash"}
BaseContainer ==
    [image |-> "i1", limits |-> Map("memory", 1), single |-> None, env |-> None, envFrom |-> {},
     mounts |-> None, other |-> None, claims |-> {}, optional |-> {}]
Containers ==
    {BaseContainer} \cup {[BaseContainer EXCEPT !.image = "i2"], [BaseContainer EXCEPT !.limits = None],
     [BaseContainer EXCEPT !.single = Map("livenessProbe", 1)],
     [BaseContainer EXCEPT !.env = Map("LEVEL", Env(1, {}))],
     [BaseContainer EXCEPT !.env = Map("LEVEL", Env(Absent, {Config}))],
     [BaseContainer EXCEPT !.envFrom = {Config}, !.limits = Map("memory", 2)],
     [BaseContainer EXCEPT !.envFrom = {Config}, !.optional = {Config}],
     [BaseContainer EXCEPT !.claims = {"gpu"}],
     [BaseContainer EXCEPT !.mounts = Map("/etc", Mount("v", FALSE, 1))],
     [BaseContainer EXCEPT !.mounts = Map("/etc", Mount("v", FALSE, 2))],
     [BaseContainer EXCEPT !.mounts = Map("/etc", Mount("v", TRUE, 1))],
     [BaseContainer EXCEPT !.other = Map("ports", "list")],
     [BaseContainer EXCEPT !.other = Map("tty", "yes")]}
BaseTemplate ==
    [containers |-> Map("app", BaseContainer), inits |-> None, volumes |-> None, selector |-> None,
     tolerations |-> {}, other |-> None, labels |-> None, annotations |-> None, pull |-> {}]
Volume(names, rest) == Map("v", [source |-> "configMap", names |-> names, rest |-> rest])
Templates ==
    {[BaseTemplate EXCEPT !.containers = Map("app", c)] : c \in Containers}
    \cup {[BaseTemplate EXCEPT !.containers = Map("app", c), !.inits = Map("init", d),
                               !.volumes = Volume({Config}, 1)] :
          c \in {c \in Containers : DOMAIN c.mounts # {}}, d \in {d \in Containers : DOMAIN d.mounts # {}}}
    \cup {[BaseTemplate EXCEPT !.containers = None], [BaseTemplate EXCEPT !.volumes = Volume({}, 1)],
          [BaseTemplate EXCEPT !.volumes = Volume({Config}, 2)], [BaseTemplate EXCEPT !.selector = Map("disk", 1)],
          [BaseTemplate EXCEPT !.tolerations = {[key |-> "gpu", effect |-> "NoSchedule", rest |-> 1]}],
          [BaseTemplate EXCEPT !.tolerations = {[key |-> "gpu", effect |-> "NoSchedule", rest |-> 2]}],
          [BaseTemplate EXCEPT !.other = Map("hostNetwork", "yes")],
          [BaseTemplate EXCEPT !.labels = Map("pod-template-hash", 1)],
          [BaseTemplate EXCEPT !.labels = Map("tier", 1), !.annotations = Map("restartedAt", 1)],
          [BaseTemplate EXCEPT !.annotations = Map("restartedAt", 2), !.pull = {<<"Secret", "s">>}]}
Revision(number, owned, template) == [revision |-> number, owned |-> owned, template |-> template]
MCHistoryInputs ==
    {<<Revision(2, TRUE, s), Revision(1, TRUE, t)>> : s \in Templates, t \in Templates}
    \cup {<<Revision(3, TRUE, BaseTemplate), Revision(NoRevision, TRUE, s), Revision(2, owned, t)>> :
          owned \in BOOLEAN, s \in Templates, t \in {BaseTemplate, [BaseTemplate EXCEPT !.selector = None]}}

-----------------------------------------------------------------------------
(* Redacted: a text under a name, in a list, in JSON, and nested.           *)

Part(form, name, value) == [form |-> form, name |-> name, value |-> value, like |-> TRUE]
Words1 == Part("words", "plain", "words")
PartList ==
    {Words1, Part("words", "plain", "reference"), MarkerPart, Part("shape", "plain", "shape"),
     Part("block", "plain", "secret"), Part("userinfo", "plain", "secret"),
     Part("words", "plain", "tokenReference"), Part("literal", "plain", "secret"), Part("optionName", "password", "words"),
     [Part("option", "password", "secret") EXCEPT !.like = FALSE]}
    \cup {Part("runOn", name, value) : name \in {"plain", "password"}, value \in {"secret", "reference", "shape"}}
    \cup {Part(form, name, value) : form \in {"setting", "option"},
          name \in {"plain", "password", "password-file", "signature", "key"},
          value \in {"secret", "reference", "shape", "password"}}
Texts == {Text(<<p>>) : p \in PartList} \cup {Text(<<p, Words1>>) : p \in PartList}
         \cup {Text(<<p, q>>) : p \in {Part("shape", "plain", "shape"), Part("words", "plain", "reference")},
                                q \in PartList}
FieldNames == {"plain", "password", "key", "keys", "value"}

\* A value of one node, and one of others, each by the step to it.
Leaf(node) == [path \in {<<>>} |-> node]
Holding(is, values) ==
    [path \in {<<>>} \cup UNION {{<<step>> \o rest : rest \in DOMAIN values[step]} : step \in DOMAIN values} |->
        IF path = <<>> THEN [is |-> is, of |-> <<>>] ELSE values[Head(path)][Tail(path)]]
MapOf(name, value) == Holding("map", Map(<<"field", name>>, value))
EnvVar(name, value) ==
    Holding("map", [step \in {<<"field", "name">>, <<"field", "value">>} |->
                        IF step[2] = "name" THEN Leaf(Text(<<Part("words", name, "words")>>)) ELSE value])
List(items) == Holding("list", [step \in {<<"item", i>> : i \in DOMAIN items} |-> items[step[2]]])
Json(value) == Holding("json", Map(<<"parsed", 1>>, value))
MCResultInputs ==
    {MapOf(n, Leaf(v)) : n \in FieldNames, v \in Texts \cup {[is |-> "scalar", of |-> <<>>]}}
    \cup {EnvVar(n, Leaf(v)) : n \in {"plain", "key", "password"}, v \in Texts}
    \cup {List(<<Leaf(Text(<<p>>)), Leaf(Text(<<q>>))>>) : p \in PartList, q \in PartList}
    \cup {MapOf("plain", Json(MapOf(n, Leaf(Text(<<p>>))))) : n \in FieldNames, p \in PartList}
    \cup {Json(Holding("map", [step \in {<<"field", "password">>, <<"field", "plain">>} |->
                                 IF step[2] = "plain" THEN value ELSE Leaf(Text(<<p>>))])) :
              p \in {Words1, Part("words", "plain", "tokenReference")},
              value \in {Leaf(Text(<<q>>)) : q \in PartList} \cup {List(<<Leaf(Text(<<q>>))>>) : q \in PartList}}
    \cup {MapOf(n, Json(MapOf(m, List(<<Leaf(Text(<<p>>))>>)))) : n \in FieldNames, m \in FieldNames, p \in PartList}

-----------------------------------------------------------------------------
(* Logs of three pods, within ten lines; two of the others get a tail.     *)

LogContainer(restarts, current, previous) ==
    [name |-> "c", restarts |-> restarts, current |-> current, previous |-> previous]
LogPod(name, containers) == [name |-> name, containers |-> containers]
ContainerLogs == {<<LogContainer(0, n, Unread)>> : n \in {Unread, 0, 2, 9}}
                 \cup {<<LogContainer(1, 9, 9)>>, <<LogContainer(1, 2, Unread), LogContainer(0, 9, Unread)>>}
MCPodLogInputs ==
    [focus : {LogPod("f", c) : c \in ContainerLogs},
     others : {<<LogPod("a", c), LogPod("b", d), LogPod("d", <<LogContainer(0, 2, Unread)>>)>> :
               c \in ContainerLogs, d \in ContainerLogs},
     lines : {1, 3, 10}, grep : BOOLEAN]

\* Up to two events: of the core API, of the other with a series or without, or
\* with no times at all.
Event(object, kind, says, count, first, last, seriesCount, seriesLast, time) ==
    [object |-> object, kind |-> kind, says |-> says, count |-> count, first |-> first, last |-> last,
     seriesCount |-> seriesCount, seriesLast |-> seriesLast, time |-> time]
Records(object, kind, says) ==
    {Event(object, kind, says, 3, f, l, NoCount, Never, Never) : f \in {5, 9}, l \in {0, 1}}
    \cup {Event(object, kind, says, NoCount, Never, Never, 2, 2, 7)}
    \cup {Event(object, kind, says, NoCount, Never, Never, NoCount, Never, t) : t \in {0, 4, Never}}
EventRecords ==
    Records("a", "Pod", "Killed") \cup Records("a", "Service", "Killed") \cup Records("b", "Pod", "Killed")
    \cup Records("b", "Pod", "Pulled") \cup Records("other", "Pod", "Killed")
MCEventInputs ==
    [events : UNION {[1 .. n -> EventRecords] : n \in 0 .. 2}
              \cup [1 .. 3 -> Records("a", "Pod", "Killed")],
     names : {<<"a", "b">>}, kinds : {{"Pod"}}, elapsed : {Never, 0, 3}]

-----------------------------------------------------------------------------
(* Two slices of up to two endpoints: pods x and y, an address of no pod.  *)

Endpoint(addresses, pod, ready, terminating) ==
    [addresses |-> addresses, pod |-> pod, ready |-> ready, terminating |-> terminating]
MCEndpoints ==
    {Endpoint(<<"1">>, "x", r, FALSE) : r \in {TRUE, FALSE, Unset}}
    \cup {Endpoint(<<"1::">>, "x", TRUE, FALSE), Endpoint(<<"2">>, "y", TRUE, FALSE),
          Endpoint(<<"2">>, "y", FALSE, TRUE), Endpoint(<<"9">>, NoPod, Unset, FALSE),
          Endpoint(<<>>, "x", TRUE, FALSE)}
Slice(service, endpoints) == [service |-> service, endpoints |-> endpoints]
PortOf(number, name) == [number |-> number, name |-> name]
Service(ports, external) == [ports |-> ports, external |-> external]
ServiceSets ==
    {[n \in {"web"} |-> Service({PortOf(80, "http"), PortOf(443, Unset)}, FALSE)],
     [n \in {"web", "db"} |-> Service({PortOf(80, Unset)}, n = "db")]}
RouteRules ==
    {[resource |-> Unset, service |-> s, port |-> p] :
        s \in {"web", "db"}, p \in {NoPort, PortOf(80, Unset), PortOf(443, Unset), PortOf(Unset, "http")}}
    \cup {[resource |-> "Bucket", service |-> NoService, port |-> NoPort]}
MCRouteInputs ==
    [slices : {<<>>} \cup {<<Slice("web", s), Slice(n, t)>> :
                  n \in {"web", "db"}, s \in {<<d, e>> : d \in MCEndpoints, e \in MCEndpoints},
                  t \in {<<>>} \cup {<<e>> : e \in MCEndpoints}},
     services : ServiceSets, readable : BOOLEAN, rules : {RouteRules}, pods : {{"x"}, {"x", "y"}}]

-----------------------------------------------------------------------------
(* Three pods of two Jobs of one CronJob, of ages that may be equal.       *)

JobPod(name, job, age, labelled) ==
    [name |-> name, job |-> job, age |-> age, labelled |-> labelled, mounts |-> {}]
JobPods(name) ==
    {JobPod(name, j, t, l) : j \in {NoJob, "old", "new"}, t \in {1, 2}, l \in BOOLEAN}
Job(name, age, owner) == [name |-> name, age |-> age, owner |-> owner]
MCJobInputs ==
    [pods : {<<>>} \cup {<<p, q, r>> : p \in JobPods("p"), q \in JobPods("q"), r \in JobPods("r")},
     jobs : {<<>>} \cup {<<Job("old", 5, o), Job("new", t, "nightly")>> : o \in {"nightly", "other"}, t \in {3, 5}},
     job : {"old"}, cronjob : {"nightly"}]

\* Two claims, two pods, and up to three events of them or of a pod, of which two are listed.
ClaimPod(name, mounts) == [name |-> name, age |-> 1, job |-> NoJob, labelled |-> TRUE, mounts |-> mounts]
Claim(name, bound) == [name |-> name, bound |-> bound]
ClaimEvents ==
    {Event(o, "PersistentVolumeClaim", says, 1, 9, t, NoCount, Never, Never) :
        o \in {"data", "logs"}, says \in {"not found"}, t \in {0, 3, 8}}
    \cup {Event("data", "PersistentVolumeClaim", "waits", NoCount, Never, Never, NoCount, Never, t) : t \in {5, Never}}
    \cup {Event("data", "Pod", "waits", 1, 9, 2, NoCount, Never, Never)}
MCClaimInputs ==
    [claims : {<<Claim("data", b), Claim("logs", FALSE)>> : b \in BOOLEAN},
     pods : {<<ClaimPod("x", {"data"}), ClaimPod("y", {"data", "logs"})>>},
     events : UNION {[1 .. n -> ClaimEvents] : n \in 0 .. 3},
     access : {{"pods", "events"}, {"pods"}, {"events"}}, elapsed : {0, 2}]

-----------------------------------------------------------------------------
(* Two pulls, by batches, of which a batch or a required kind may be lost;  *)
(* two events, watched from 1 to 10.                                       *)

MCRequiredKinds == {"pods", "nodes"}
Batch(time, kind) == [time |-> time, kind |-> kind]
FirstPulls ==
    {{Batch(3, "pods"), Batch(4, "nodes")}, {Batch(3, "pods"), Batch(4, "services"), Batch(5, "nodes")},
     {Batch(3, "nodes")}}
SecondPulls == {{Batch(7, "nodes"), Batch(8, "pods")}, {Batch(7, "nodes"), Batch(8, "services")}}
Life(born, changes, gone, dated) == [born |-> born, changes |-> changes, gone |-> gone, dated |-> dated]
Lives ==
    {l \in {Life(b, {c, d}, g, dated) :
            b \in {0, 2, 4, 6}, c \in {1, 3, 7}, d \in {3, 5, 9}, g \in {5, 6, 10, 20}, dated \in BOOLEAN}
           \cup {Life(b, {}, g, dated) : b \in {0, 2, 4, 6}, g \in {5, 10, 20}, dated \in BOOLEAN} :
        l.born < l.gone /\ \A t \in l.changes : l.born < t /\ t < l.gone}
MCSnapshotInputs ==
    [pulls : {<<p, q>> : p \in FirstPulls, q \in SecondPulls} \cup {<<p>> : p \in FirstPulls},
     asked : {1, 2, 3, LatestPull}, began : {1}, ended : {10}, inOrder : BOOLEAN,
     lives : {<<l, Life(0, {9}, 20, TRUE)>> : l \in Lives}]

-----------------------------------------------------------------------------
(* A pod of one container and one of two; records before and after the     *)
(* latest instance of each started, at 4 or never.                         *)

Status(state, started, last) == [state |-> state, started |-> started, last |-> last]
StartedAt4 == {Status("running", 4, NotKnown), Status("running", 4, 1), Status("waiting", NotKnown, 4),
               Status("terminated", 4, 1)}
NeverStarted == {Status("waiting", NotKnown, NotKnown), Status("terminated", 0, 1), Status("waiting", NotKnown, 0)}
LogRecord(time, pod, by, service, status) ==
    [time |-> time, pod |-> pod, by |-> by, service |-> service,
     instance |-> IF status \in StartedAt4 /\ time >= 4 THEN "latest" ELSE "earlier"]
OtelRecords(one, app) ==
    {LogRecord(t, "one", "c", "web", one) : t \in {3, 4, 6, 9}}
    \cup {LogRecord(6, "one", "c", "db", one)}
    \cup {LogRecord(t, "two", "app", service, app) : t \in {3, 5}, service \in {"app", "web"}}
    \cup {LogRecord(4, "gone", "c", "c", app)}
OtelInput(one, app, records) ==
    [records |-> records, at |-> 8,
     pods |-> {[name |-> "one", containers |-> <<"c">>, status |-> Map("c", one)],
               [name |-> "two", containers |-> <<"app", "proxy">>, status |-> Map("app", app)]}]
MCOtelInputs ==
    UNION {{OtelInput(one, app, <<q, r>>) :
                <<q, r>> \in {p \in OtelRecords(one, app) \X OtelRecords(one, app) : p[1] # p[2]}} :
           one \in StartedAt4 \cup NeverStarted, app \in StartedAt4 \cup NeverStarted}
=============================================================================
