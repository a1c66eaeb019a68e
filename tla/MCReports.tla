----------------------------- MODULE MCReports -----------------------------
(***************************************************************************)
(* A Deployment and a StatefulSet of one name, a Job, and three pods: of   *)
(* the Deployment's ReplicaSet, of the StatefulSet or the Job, and of      *)
(* none.                                                                   *)
(***************************************************************************)
EXTENDS Reports

Web == <<"Deployment", "a">>
Db == <<"StatefulSet", "a">>
Run == <<"Job", "b">>
P == <<"Pod", "p">>
Q == <<"Pod", "q">>
R == <<"Pod", "r">>
MCNames == [workloads |-> <<Web, Db, Run>>, pods |-> <<P, Q, R>>]
MCReplicaSets == [n \in {"new", "lone"} |-> IF n = "new" THEN Web ELSE NoOwner]
MCResembles == [p \in {P, Q, R} |-> IF p = P THEN {<<"ReplicaSet", "new">>, Run}
                                          ELSE IF p = Q THEN {Db} ELSE {}]

Workload(ready, desired, failing) == [ready |-> ready, desired |-> desired, failing |-> failing]
Container(init, sidecar, state, exit, ended) ==
    [init |-> init, sidecar |-> sidecar, state |-> state, exit |-> exit, ended |-> ended]
App(state, exit, ended) == Container(FALSE, FALSE, state, exit, ended)
Pod(owner, node, reason, status) ==
    [summary |-> [owner |-> owner, node |-> node, reason |-> reason, restarts |-> 0,
                  ready |-> 1, desired |-> 1], statuses |-> status]
Runs(owner) == Pod(owner, TRUE, FALSE, <<App("running", 0, NoAge)>>)
Back(owner, exit, ended) == Pod(owner, TRUE, FALSE, <<App("running", exit, ended)>>)
Crashes(owner) == Pod(owner, TRUE, FALSE, <<App("waiting", 1, 2)>>)
Held1(owner) == Pod(owner, TRUE, FALSE, <<App("running", 0, NoAge), Container(TRUE, FALSE, "running", 0, NoAge)>>)
Sidecar(owner, state) == Pod(owner, TRUE, FALSE, <<App("running", 0, NoAge), Container(TRUE, TRUE, state, 1, 50)>>)
Ended(owner, exit, ended) == Pod(owner, TRUE, FALSE, <<App("terminated", exit, ended)>>)
Starts(owner) == Pod(owner, TRUE, FALSE, <<>>)
Unplaced(owner, reason) == Pod(owner, FALSE, reason, <<>>)
All(owner) == {Runs(owner), Back(owner, 1, 5), Back(owner, 1, 50), Crashes(owner), Held1(owner),
               Ended(owner, 1, 5), Ended(owner, 0, 2), Starts(owner), Unplaced(owner, TRUE),
               Unplaced(owner, FALSE), Sidecar(owner, "running"), Sidecar(owner, "waiting")}
Rs == <<"ReplicaSet", "new">>

\* Each cluster: the workloads and the three pods.
Cluster(web, db, run, p, q, r) ==
    [o \in Range(MCNames.workloads) \cup Range(MCNames.pods) |->
        CASE o = Web -> web [] o = Db -> db [] o = Run -> run [] o = P -> p [] o = Q -> q [] o = R -> r]
Good == Workload(1, 1, FALSE)
Short == Workload(0, 1, FALSE)
MCClusters ==
    {Cluster(Good, Good, Good, p, Runs(Db), Runs(NoOwner)) : p \in All(Rs)}
    \cup {Cluster(Good, Gone, Good, Runs(Rs), q, Runs(<<"ReplicaSet", "lone">>)) : q \in All(Run)}
    \cup {Cluster(Good, Gone, Gone, Runs(Rs), q, Gone) : q \in {Crashes(Rs), Unplaced(Rs, TRUE), Back(Rs, 1, 5)}}
    \cup {Cluster(Workload(1, 1, TRUE), Short, Gone, Runs(Rs), Gone, r) : r \in All(NoOwner)}
    \cup {Cluster(Good, Good, w, Runs(NotRecorded), Runs(NotRecorded), Runs(NotRecorded)) : w \in {Good, Gone}}
MCStates ==
    [o \in Range(MCNames.workloads) \cup Range(MCNames.pods) |->
        CASE o = Web -> {Good, Workload(1, 1, TRUE)} [] o = Db -> {Good, Short} [] o = Run -> {Good}
          [] o = P -> {Runs(Rs), Crashes(Rs)} [] o = Q -> {Runs(Db), Unplaced(Db, TRUE), Runs(Rs), Ended(Run, 1, 5)}
          [] o = R -> {Runs(NoOwner)}]

MCRequests ==
    {[tool |-> "health", kind |-> NoKind, name |-> "a"]}
    \cup {[tool |-> "report", kind |-> k, name |-> n] :
          k \in {NoKind, "Deployment", "Job"}, n \in {"a", "b"}}
Access(refused, failing) == [refused |-> refused, failing |-> failing]
MCAccesses ==
    {Access({}, {}), Access({"Deployments"}, {}), Access({"StatefulSets", "Jobs"}, {}),
     Access({"ReplicaSets"}, {}), Access({"pods"}, {}), Access({"usage", "PersistentVolumeClaims"}, {}),
     Access({"NetworkPolicies", "events"}, {}), Access({"WorkloadHistory"}, {"NetworkPolicies"}),
     Access({"Deployments", "StatefulSets", "DaemonSets", "Jobs"}, {}), Access({}, {"Ingresses"})}
=============================================================================
