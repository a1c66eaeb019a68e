---------------------------- MODULE ReportsProofs ----------------------------
(***************************************************************************)
(* What the composite reports say of a namespace, proved for every         *)
(* cluster, access and order of changes (Reports): the invariant of the    *)
(* reads made so far, that every step keeps it, and the four promises of   *)
(* an answer that follow from it.                                          *)
(***************************************************************************)
EXTENDS Reports, ListProofs

-----------------------------------------------------------------------------
(* The inductive invariant.                                                *)

\* The reads of the call, and those made: todo is what is left of them.
Plan == ReadsOf(request.tool, kind)
Past == {Plan[i] : i \in 1 .. Len(Plan) - Len(todo)}

PlanInv ==
    /\ request \in Requests /\ access \in Accesses
    /\ kind \in Range(Kinds) \cup {NoKind}
    /\ kind = request.kind \/ (request.kind = NoKind /\ request.tool = "report")
    /\ \E n \in 1 .. Len(Plan) + 1 : todo = SubSeq(Plan, n, Len(Plan))
    /\ "choose" \notin Past

\* What PodsAssumption says of a pod's state.
Proper(s) ==
    /\ s.summary.owner[1] \in Range(Kinds) => s.summary.owner \in Range(Names.workloads)
    /\ ~s.summary.node /\ s.summary.reason => s.statuses = <<>>

ClusterInv ==
    /\ DOMAIN cluster = Objects
    /\ \A o \in Objects : Is(o) => cluster[o] \in StatesOf(o)
    /\ \A o \in Range(Names.pods) : Is(o) => Proper(cluster[o])

\* Each entry is of a workload that was there when its kind was read, as it was then;
\* and whatever was there all along has one, or its kind was refused.
Entries == [kind : Range(Kinds), name : STRING, is : WorkloadStates]
EntriesInv ==
    /\ listed \in Seq(Entries)
    /\ \A e \in Range(listed) :
        /\ <<e.kind, e.name>> \in Range(Names.workloads)
        /\ Plural[e.kind] \in Past
        /\ <<e.kind, e.name>> \notin touched => Is(<<e.kind, e.name>>) /\ cluster[<<e.kind, e.name>>] = e.is
    /\ \A e, f \in Range(listed) : e.kind = f.kind /\ e.name = f.name => e = f
ListedInv ==
    \A w \in Range(Names.workloads) :
        Steady(w) /\ Plural[w[1]] \in Past => IsListed(w) \/ Plural[w[1]] \in unknown

OwnersInv ==
    /\ rsOwner = <<>> \/ rsOwner = ReplicaSets
    /\ "ReplicaSets" \in Past => rsOwner = ReplicaSets \/ "ReplicaSets" \in unknown

PodsInv ==
    /\ pods \in Seq([name : {"Pod"} \X STRING, summary : Summaries])
    /\ \A p \in Range(pods) :
        /\ p.name \in Range(Names.pods)
        /\ p.name \notin touched => Is(p.name) /\ p.summary = cluster[p.name].summary
    /\ \A p, q \in Range(pods) : p.name = q.name => p = q
    /\ "pods" \notin Past => pods = <<>>
    /\ "pods" \in Past => \A o \in Range(Names.pods) : Steady(o) => \E p \in Range(pods) : p.name = o

StatusesInv ==
    /\ DOMAIN statuses \subseteq {p.name : p \in Range(pods)}
    /\ \A n \in DOMAIN statuses :
        n \in touched \/ (Is(n) /\ statuses[n] = ContainerStatuses(cluster[n].statuses))
    /\ "statuses" \in Past => \A p \in Range(LooksInto) : p.name \in DOMAIN statuses

Claims == \E p \in Range(pods) : p.name \in DOMAIN statuses /\ Unscheduled(p.summary, statuses[p.name])
NotesInv ==
    /\ unknown = (Past \cap Recorded \cap access.refused)
                 \cup (IF Claims THEN {"PersistentVolumeClaims"} \cap access.refused ELSE {})
    /\ notes = (Past \cap {"usage"} \cap access.refused) \cup (Past \cap {"NetworkPolicies"} \cap access.failing)

\* The kind chosen is the only one of the name, unless others may not be read.
ChosenInv ==
    request.tool = "report" /\ request.kind = NoKind /\ kind # NoKind =>
        \A w \in Range(Names.workloads) :
            Steady(w) /\ w[2] = request.name /\ w # Asked => Plural[w[1]] \in access.refused

IInv ==
    /\ PlanInv /\ ClusterInv /\ EntriesInv /\ ListedInv /\ OwnersInv
    /\ PodsInv /\ StatusesInv /\ NotesInv /\ ChosenInv

-----------------------------------------------------------------------------
(* The reads of a call, in order.                                          *)

LEMMA KindFacts ==
    /\ Range(Kinds) = {"Deployment", "StatefulSet", "DaemonSet", "Job"}
    /\ Plural["Deployment"] = "Deployments" /\ Plural["StatefulSet"] = "StatefulSets"
    /\ Plural["DaemonSet"] = "DaemonSets" /\ Plural["Job"] = "Jobs"
    /\ Range(Listing) = {Plural[k] : k \in Range(Kinds)}
    /\ Range(Listing) = {"Deployments", "StatefulSets", "DaemonSets", "Jobs"}
    /\ \A k, l \in Range(Kinds) : Plural[k] = Plural[l] => k = l
<1>1. Range(Kinds) = {"Deployment", "StatefulSet", "DaemonSet", "Job"} BY DEF Kinds, Range
<1>2. /\ Plural["Deployment"] = "Deployments" /\ Plural["StatefulSet"] = "StatefulSets"
      /\ Plural["DaemonSet"] = "DaemonSets" /\ Plural["Job"] = "Jobs"
    BY DEF Plural
<1>3. Listing = <<"Deployments", "StatefulSets", "DaemonSets", "Jobs">> BY DEF Listing, Kinds, Plural
<1>4. Range(Listing) = {"Deployments", "StatefulSets", "DaemonSets", "Jobs"} BY <1>3 DEF Range
<1>5. Range(Listing) = {Plural[k] : k \in Range(Kinds)} BY <1>1, <1>2, <1>4
<1>6. \A k, l \in Range(Kinds) : Plural[k] = Plural[l] => k = l BY <1>1, <1>2
<1> QED BY <1>1, <1>2, <1>4, <1>5, <1>6

Asks == {"Deployments", "StatefulSets", "DaemonSets", "Jobs", "choose", "match", "ReplicaSets", "pods",
         "statuses", "templates", "spec", "events", "WorkloadHistory", "HorizontalPodAutoscalers",
         "Endpoints", "Ingresses", "NetworkPolicies", "usage"}

IsJoin(p, s, t) == p = s \o t

\* A list of reads begins with the listing of the workloads.
LEMMA ListingFirst ==
    ASSUME NEW s \in Seq(Asks), NEW p, IsJoin(p, Listing, s)
    PROVE  /\ p \in Seq(Asks) /\ Len(p) = Len(s) + 4
           /\ p[1] = "Deployments" /\ p[2] = "StatefulSets" /\ p[3] = "DaemonSets" /\ p[4] = "Jobs"
           /\ \A i \in 5 .. Len(s) + 4 : p[i] = s[i - 4]
<1>1. Listing = <<"Deployments", "StatefulSets", "DaemonSets", "Jobs">> BY DEF Listing, Kinds, Plural
<1>2. Listing \in Seq(Asks) /\ Len(Listing) = 4 BY <1>1 DEF Asks
<1>3. Len(s) \in Nat BY LenProperties
<1>4. /\ p \in Seq(Asks) /\ Len(p) = Len(Listing) + Len(s)
      /\ \A i \in 1 .. Len(Listing) + Len(s) : p[i] = IF i <= Len(Listing) THEN Listing[i] ELSE s[i - Len(Listing)]
    BY <1>2, ConcatProperties DEF IsJoin
<1> QED BY <1>1, <1>2, <1>3, <1>4

\* Two lists, one after the other.
LEMMA Joined ==
    ASSUME NEW s \in Seq(Asks), NEW t \in Seq(Asks), NEW p, IsJoin(p, s, t)
    PROVE  /\ p \in Seq(Asks) /\ Len(p) = Len(s) + Len(t)
           /\ \A i \in 1 .. Len(s) : p[i] = s[i]
           /\ \A i \in 1 .. Len(t) : p[Len(s) + i] = t[i]
<1>1. Len(s) \in Nat /\ Len(t) \in Nat BY LenProperties
<1>2. /\ p \in Seq(Asks) /\ Len(p) = Len(s) + Len(t)
      /\ \A i \in 1 .. Len(s) + Len(t) : p[i] = IF i <= Len(s) THEN s[i] ELSE t[i - Len(s)]
    BY ConcatProperties DEF IsJoin
<1>3. ASSUME NEW i \in 1 .. Len(t) PROVE p[Len(s) + i] = t[i]
    <2>1. Len(s) + i \in 1 .. Len(s) + Len(t) /\ ~(Len(s) + i <= Len(s)) /\ (Len(s) + i) - Len(s) = i BY <1>1
    <2> QED BY <1>2, <2>1
<1> QED BY <1>1, <1>2, <1>3

\* What the proofs need of the order of a call's reads.
Ordered(P) ==
    /\ P \in Seq(Asks)
    /\ 5 <= Len(P)
    /\ {P[i] : i \in 1 .. 4} = Range(Listing)
    /\ \A i, j \in 1 .. Len(P) : P[i] = P[j] => i = j
    /\ \A i, j \in 1 .. Len(P) :
        /\ P[i] = "ReplicaSets" /\ P[j] \in {"pods", "statuses"} => i < j
        /\ P[i] = "pods" /\ P[j] = "statuses" => i < j
    /\ \A i \in 1 .. Len(P) : P[i] = "choose" => P = FindReads /\ i = 5

LEMMA HealthOrdered ==
    /\ Ordered(HealthReads)
    /\ \A i \in 1 .. Len(HealthReads) : HealthReads[i] # "choose"
    /\ {"ReplicaSets", "pods", "statuses", "NetworkPolicies"} \subseteq {HealthReads[i] : i \in 1 .. Len(HealthReads)}
<1> DEFINE s == <<"ReplicaSets", "pods", "HorizontalPodAutoscalers", "Endpoints", "usage",
                  "statuses", "templates", "Ingresses", "NetworkPolicies">>
<1>1. s \in Seq(Asks) /\ Len(s) = 9 BY DEF Asks
<1>2. IsJoin(HealthReads, Listing, s) BY DEF HealthReads, IsJoin
<1> HIDE DEF s
<1>3. /\ HealthReads \in Seq(Asks) /\ Len(HealthReads) = Len(s) + 4
      /\ HealthReads[1] = "Deployments" /\ HealthReads[2] = "StatefulSets" /\ HealthReads[3] = "DaemonSets" /\ HealthReads[4] = "Jobs"
      /\ \A i \in 5 .. Len(s) + 4 : HealthReads[i] = s[i - 4]
    BY <1>1, <1>2, ListingFirst
<1>4. Len(HealthReads) = 13 /\ HealthReads \in Seq(Asks) BY <1>1, <1>3
<1>5. \A i \in 5 .. 13 : HealthReads[i] = s[i - 4] BY <1>1, <1>3
<1>6. /\ HealthReads[5] = "ReplicaSets" /\ HealthReads[6] = "pods"
      /\ HealthReads[7] = "HorizontalPodAutoscalers" /\ HealthReads[8] = "Endpoints"
      /\ HealthReads[9] = "usage" /\ HealthReads[10] = "statuses"
      /\ HealthReads[11] = "templates"
      /\ HealthReads[12] = "Ingresses" /\ HealthReads[13] = "NetworkPolicies"
    BY <1>5 DEF s
<1>7. {HealthReads[i] : i \in 1 .. 4} = Range(Listing) BY <1>3, KindFacts
<1>e. /\ HealthReads[1] = "Deployments" /\ HealthReads[2] = "StatefulSets"
      /\ HealthReads[3] = "DaemonSets" /\ HealthReads[4] = "Jobs"
    BY <1>3
<1>8. \A i, j \in 1 .. 13 : HealthReads[i] = HealthReads[j] => i = j BY <1>e, <1>6
<1>9. \A i, j \in 1 .. 13 :
        /\ HealthReads[i] = "ReplicaSets" /\ HealthReads[j] \in {"pods", "statuses"} => i < j
        /\ HealthReads[i] = "pods" /\ HealthReads[j] = "statuses" => i < j
    BY <1>3, <1>6
<1>10. \A i \in 1 .. 13 : HealthReads[i] # "choose" BY <1>3, <1>6
<1>11. {"ReplicaSets", "pods", "statuses", "NetworkPolicies"} \subseteq {HealthReads[i] : i \in 1 .. Len(HealthReads)}
    BY <1>4, <1>6
<1> QED BY <1>4, <1>7, <1>8, <1>9, <1>10, <1>11 DEF Ordered

LEMMA FindOrdered == Ordered(FindReads) /\ Len(FindReads) = 5 /\ FindReads[5] = "choose"
<1> DEFINE s == <<"choose">>
<1>0. s \in Seq(Asks) /\ Len(s) = 1 /\ s[1] = "choose" BY DEF Asks
<1>s. IsJoin(FindReads, Listing, s) BY DEF FindReads, IsJoin
<1> HIDE DEF s
<1>1. /\ FindReads \in Seq(Asks) /\ Len(FindReads) = Len(s) + 4
      /\ FindReads[1] = "Deployments" /\ FindReads[2] = "StatefulSets" /\ FindReads[3] = "DaemonSets" /\ FindReads[4] = "Jobs"
      /\ \A i \in 5 .. Len(s) + 4 : FindReads[i] = s[i - 4]
    BY <1>0, <1>s, ListingFirst
<1>2. Len(FindReads) = 5 /\ FindReads[5] = "choose" BY <1>0, <1>1
<1>3. {FindReads[i] : i \in 1 .. 4} = Range(Listing) BY <1>1, KindFacts
<1>4. \A i, j \in 1 .. 5 : FindReads[i] = FindReads[j] => i = j BY <1>1, <1>2
<1>5. \A i \in 1 .. 5 : FindReads[i] = "choose" => i = 5 BY <1>1, <1>2
<1>6. \A i \in 1 .. 5 : FindReads[i] \notin {"ReplicaSets", "pods", "statuses"} BY <1>1, <1>2
<1>7. FindReads \in Seq(Asks) BY <1>1
<1> QED BY <1>2, <1>3, <1>4, <1>5, <1>6, <1>7 DEF Ordered

LEMMA ReportOrdered ==
    ASSUME NEW k
    PROVE  /\ Ordered(ReportReads(k))
           /\ \A i \in 1 .. Len(ReportReads(k)) : ReportReads(k)[i] # "choose"
           /\ \E i \in 1 .. Len(ReportReads(k)) : ReportReads(k)[i] = "NetworkPolicies"
<1> DEFINE a == <<"match", "ReplicaSets", "pods", "statuses", "spec", "events">>
           h == IF k = "Job" THEN <<>> ELSE <<"WorkloadHistory">>
           z == <<"HorizontalPodAutoscalers", "Endpoints", "Ingresses", "NetworkPolicies", "usage">>
           R == ReportReads(k)
           n == Len(h)
<1>1. a \in Seq(Asks) /\ h \in Seq(Asks) /\ z \in Seq(Asks) /\ Len(a) = 6 /\ Len(z) = 5 /\ n \in {0, 1}
    <2>1. a \in Seq(Asks) /\ Len(a) = 6 BY DEF Asks
    <2>2. z \in Seq(Asks) /\ Len(z) = 5 BY DEF Asks
    <2>3. CASE k = "Job" BY <2>1, <2>2, <2>3
    <2>4. CASE k # "Job"
        <3>1. <<"WorkloadHistory">> \in Seq(Asks) /\ Len(<<"WorkloadHistory">>) = 1 BY DEF Asks
        <3> QED BY <2>1, <2>2, <2>4, <3>1
    <2> QED BY <2>3, <2>4
<1>2. n = 1 => h[1] = "WorkloadHistory" OBVIOUS
<1> HIDE DEF h
<1>3. R = ((Listing \o a) \o h) \o z BY DEF ReportReads, h
<1> HIDE DEF a, z
<1> DEFINE b == Listing \o a
           c == b \o h
<1>b. IsJoin(b, Listing, a) BY DEF IsJoin
<1>c. IsJoin(c, b, h) BY DEF IsJoin
<1>h. IsJoin(R, c, z) BY <1>3 DEF b, c, IsJoin
<1> HIDE DEF b, c, R
<1>4. /\ b \in Seq(Asks) /\ Len(b) = Len(a) + 4
      /\ b[1] = "Deployments" /\ b[2] = "StatefulSets" /\ b[3] = "DaemonSets" /\ b[4] = "Jobs"
      /\ \A i \in 5 .. Len(a) + 4 : b[i] = a[i - 4]
    BY <1>1, <1>b, ListingFirst
<1>5. Len(b) = 10 /\ \A i \in 5 .. 10 : b[i] = a[i - 4] BY <1>1, <1>4
<1>6. /\ c \in Seq(Asks) /\ Len(c) = Len(b) + Len(h)
      /\ \A i \in 1 .. Len(b) : c[i] = b[i]
      /\ \A i \in 1 .. Len(h) : c[Len(b) + i] = h[i]
    <2>1. b \in Seq(Asks) /\ h \in Seq(Asks) BY <1>1, <1>4
    <2> QED BY <2>1, <1>c, Joined
<1>7. Len(c) = 10 + n /\ (n = 1 => c[11] = "WorkloadHistory") BY <1>1, <1>2, <1>5, <1>6
<1>8. /\ R \in Seq(Asks) /\ Len(R) = Len(c) + Len(z)
      /\ \A i \in 1 .. Len(c) : R[i] = c[i]
      /\ \A i \in 1 .. Len(z) : R[Len(c) + i] = z[i]
    <2>1. c \in Seq(Asks) /\ z \in Seq(Asks) BY <1>1, <1>6
    <2> QED BY <2>1, <1>h, Joined
<1>9. Len(R) = 15 + n /\ \A i \in 1 .. 10 : R[i] = b[i]
    <2>1. Len(R) = 15 + n BY <1>1, <1>7, <1>8
    <2>2. \A i \in 1 .. 10 : i \in 1 .. Len(c) /\ i \in 1 .. Len(b) BY <1>1, <1>5, <1>7
    <2> QED BY <1>6, <1>8, <2>1, <2>2
<1>10. \A i \in 1 .. 5 : R[10 + n + i] = z[i] BY <1>1, <1>7, <1>8
<1>11. R[1] = "Deployments" /\ R[2] = "StatefulSets" /\ R[3] = "DaemonSets" /\ R[4] = "Jobs" BY <1>4, <1>9
<1>12. R[5] = "match" /\ R[6] = "ReplicaSets" /\ R[7] = "pods" /\ R[8] = "statuses" /\ R[9] = "spec" /\ R[10] = "events"
    BY <1>5, <1>9 DEF a
<1>13. n = 1 => R[11] = "WorkloadHistory"
    <2>1. n = 1 => 11 \in 1 .. Len(c) BY <1>7
    <2> QED BY <1>7, <1>8, <2>1
<1>14. /\ R[11 + n] = "HorizontalPodAutoscalers" /\ R[12 + n] = "Endpoints" /\ R[13 + n] = "Ingresses"
       /\ R[14 + n] = "NetworkPolicies" /\ R[15 + n] = "usage"
    <2>1. R[10 + n + 1] = z[1] /\ R[10 + n + 2] = z[2] /\ R[10 + n + 3] = z[3] /\ R[10 + n + 4] = z[4] /\ R[10 + n + 5] = z[5]
        BY <1>10
    <2> QED BY <1>1, <2>1 DEF z
<1>15. {R[i] : i \in 1 .. 4} = Range(Listing) BY <1>11, KindFacts
<1> HIDE DEF n
<1>16. CASE n = 0
    <2>1. \A i, j \in 1 .. 15 : R[i] = R[j] => i = j BY <1>11, <1>12, <1>14, <1>16
    <2>2. \A i \in 1 .. 15 : /\ R[i] # "choose" /\ (R[i] = "ReplicaSets" => i = 6)
                             /\ (R[i] = "pods" => i = 7) /\ (R[i] = "statuses" => i = 8)
        BY <1>11, <1>12, <1>14, <1>16
    <2>3. Len(R) = 15 BY <1>9, <1>16
    <2>5. R \in Seq(Asks) BY <1>8
    <2>4. Ordered(R) /\ \A i \in 1 .. Len(R) : R[i] # "choose" BY <1>15, <2>1, <2>2, <2>3, <2>5 DEF Ordered
    <2>6. 14 + n \in 1 .. Len(R) BY <2>3, <1>16
    <2> QED BY <1>14, <2>4, <2>6 DEF R
<1>17. CASE n = 1
    <2>1. \A i, j \in 1 .. 16 : R[i] = R[j] => i = j BY <1>11, <1>12, <1>13, <1>14, <1>17
    <2>2. \A i \in 1 .. 16 : /\ R[i] # "choose" /\ (R[i] = "ReplicaSets" => i = 6)
                             /\ (R[i] = "pods" => i = 7) /\ (R[i] = "statuses" => i = 8)
        BY <1>11, <1>12, <1>13, <1>14, <1>17
    <2>3. Len(R) = 16 BY <1>9, <1>17
    <2>5. R \in Seq(Asks) BY <1>8
    <2>4. Ordered(R) /\ \A i \in 1 .. Len(R) : R[i] # "choose" BY <1>15, <2>1, <2>2, <2>3, <2>5 DEF Ordered
    <2>6. 14 + n \in 1 .. Len(R) BY <2>3, <1>17
    <2> QED BY <1>14, <2>4, <2>6 DEF R
<1> QED BY <1>1, <1>16, <1>17

\* The reads of any call are in that order; only one that looks for a kind chooses.
LEMMA PlanOrdered ==
    /\ Ordered(Plan)
    /\ \A i \in 1 .. Len(Plan) : Plan[i] = "choose" => i = 5 /\ Len(Plan) = 5 /\ request.tool # "health" /\ kind = NoKind
<1>1. CASE request.tool = "health" BY <1>1, HealthOrdered DEF Plan, ReadsOf
<1>2. CASE request.tool # "health" /\ kind = NoKind
    <2>1. Plan = FindReads BY <1>2 DEF Plan, ReadsOf
    <2>2. Ordered(Plan) /\ Len(Plan) = 5 BY <2>1, FindOrdered
    <2>3. \A i \in 1 .. 5 : Plan[i] = "choose" => i = 5 BY <2>2 DEF Ordered
    <2> QED BY <1>2, <2>2, <2>3
<1>3. CASE request.tool # "health" /\ kind # NoKind
    <2>1. Plan = ReportReads(kind) BY <1>3 DEF Plan, ReadsOf
    <2> QED BY <2>1, ReportOrdered
<1> QED BY <1>1, <1>2, <1>3

\* Where a call has got to: the next read is the n-th, and those before it are made.
At(n) ==
    /\ n \in 1 .. Len(Plan) + 1
    /\ todo = SubSeq(Plan, n, Len(Plan))
    /\ Past = {Plan[i] : i \in 1 .. n - 1}
    /\ todo = <<>> <=> n = Len(Plan) + 1
    /\ n <= Len(Plan) => Head(todo) = Plan[n] /\ Tail(todo) = SubSeq(Plan, n + 1, Len(Plan))

LEMMA PlanIsSeq == Plan \in Seq(Asks) /\ Len(Plan) \in Nat /\ 5 <= Len(Plan)
<1>1. Plan \in Seq(Asks) BY PlanOrdered DEF Ordered
<1>2. Len(Plan) \in Nat BY <1>1, LenProperties
<1>3. 5 <= Len(Plan) BY PlanOrdered DEF Ordered
<1> QED BY <1>1, <1>2, <1>3

LEMMA Position ==
    ASSUME NEW n \in 1 .. Len(Plan) + 1, todo = SubSeq(Plan, n, Len(Plan))
    PROVE  At(n)
<1>1. Plan \in Seq(Asks) /\ Len(Plan) \in Nat BY PlanIsSeq
<1>2. \A i \in n .. Len(Plan) : Plan[i] \in Asks BY <1>1, ElementOfSeq
<1>3. todo \in Seq(Asks) /\ Len(todo) = IF n <= Len(Plan) THEN Len(Plan) - n + 1 ELSE 0
    <2>1. n \in Int /\ Len(Plan) \in Int BY <1>1
    <2> QED BY <1>2, <2>1, SubSeqProperties
<1>4. Len(Plan) - Len(todo) = n - 1 BY <1>1, <1>3
<1>5. Past = {Plan[i] : i \in 1 .. n - 1} BY <1>4 DEF Past
<1>6. todo = <<>> <=> Len(todo) = 0 BY <1>3, EmptySeq
<1>7. todo = <<>> <=> n = Len(Plan) + 1 BY <1>1, <1>3, <1>6
<1>8. ASSUME n <= Len(Plan) PROVE Head(todo) = Plan[n] /\ Tail(todo) = SubSeq(Plan, n + 1, Len(Plan))
    <2>1. n \in 1 .. Len(Plan) /\ Len(Plan) \in n .. Len(Plan) BY <1>1, <1>8
    <2> QED BY <1>1, <2>1, HeadTailOfSubSeq
<1> QED BY <1>5, <1>7, <1>8 DEF At

LEMMA WhereItIs ==
    ASSUME PlanInv
    PROVE  \E n \in 1 .. Len(Plan) + 1 : At(n)
BY Position DEF PlanInv

\* What has been read when a read is due.
LEMMA HeadFacts ==
    ASSUME PlanInv, todo # <<>>
    PROVE  /\ Head(todo) \notin Past
           /\ Head(todo) \in Range(Listing) => Past \cap {"ReplicaSets", "pods", "statuses"} = {}
           /\ Head(todo) \notin Range(Listing) => Range(Listing) \subseteq Past
           /\ Head(todo) = "ReplicaSets" => Past \cap {"pods", "statuses"} = {}
           /\ Head(todo) = "pods" => "statuses" \notin Past
           /\ Head(todo) = "choose" => Past = Range(Listing) /\ request.tool = "report" /\ kind = NoKind
<1>1. PICK n \in 1 .. Len(Plan) + 1 : At(n) BY WhereItIs
<1>2. Len(Plan) \in Nat /\ 5 <= Len(Plan) BY PlanIsSeq
<1>3. n \in 1 .. Len(Plan) BY <1>1, <1>2 DEF At
<1>4. Head(todo) = Plan[n] /\ Past = {Plan[i] : i \in 1 .. n - 1} BY <1>1, <1>3 DEF At
<1>5. \A i, j \in 1 .. Len(Plan) : Plan[i] = Plan[j] => i = j BY PlanOrdered DEF Ordered
<1>6. \A i, j \in 1 .. Len(Plan) :
        /\ Plan[i] = "ReplicaSets" /\ Plan[j] \in {"pods", "statuses"} => i < j
        /\ Plan[i] = "pods" /\ Plan[j] = "statuses" => i < j
    BY PlanOrdered DEF Ordered
<1>7. Range(Listing) = {Plan[i] : i \in 1 .. 4} BY PlanOrdered DEF Ordered
<1>8. \A i \in 1 .. n - 1 : i \in 1 .. Len(Plan) /\ i < n BY <1>2, <1>3
<1>9. Head(todo) \notin Past BY <1>3, <1>4, <1>5, <1>8
<1>10. ASSUME Head(todo) \in Range(Listing) PROVE Past \cap {"ReplicaSets", "pods", "statuses"} = {}
    <2>1. PICK k \in 1 .. 4 : Plan[n] = Plan[k] BY <1>4, <1>7, <1>10
    <2>2. n = k BY <1>2, <1>3, <1>5, <2>1
    <2>3. Past \subseteq Range(Listing) BY <1>4, <1>7, <2>2
    <2> QED BY <2>3, KindFacts
<1>11. ASSUME Head(todo) \notin Range(Listing) PROVE Range(Listing) \subseteq Past
    <2>1. n \notin 1 .. 4 BY <1>4, <1>7, <1>11
    <2>2. \A i \in 1 .. 4 : i \in 1 .. n - 1 BY <1>3, <2>1
    <2> QED BY <1>4, <1>7, <2>2
<1>12. ASSUME Head(todo) = "ReplicaSets" PROVE Past \cap {"pods", "statuses"} = {}
    <2>1. \A i \in 1 .. n - 1 : Plan[i] \notin {"pods", "statuses"} BY <1>3, <1>4, <1>6, <1>8, <1>12
    <2> QED BY <1>4, <2>1
<1>13. ASSUME Head(todo) = "pods" PROVE "statuses" \notin Past
    <2>1. \A i \in 1 .. n - 1 : Plan[i] # "statuses" BY <1>3, <1>4, <1>6, <1>8, <1>13
    <2> QED BY <1>4, <2>1
<1>14. ASSUME Head(todo) = "choose"
       PROVE  Past = Range(Listing) /\ request.tool = "report" /\ kind = NoKind
    <2>1. n = 5 /\ request.tool # "health" /\ kind = NoKind BY <1>3, <1>4, <1>14, PlanOrdered
    <2>2. Past = Range(Listing) BY <1>4, <1>7, <2>1
    <2>3. request.tool \in {"health", "report"} BY RequestsAssumption DEF PlanInv
    <2> QED BY <2>1, <2>2, <2>3
<1> QED BY <1>9, <1>10, <1>11, <1>12, <1>13, <1>14

LEMMA AllRead ==
    ASSUME PlanInv, todo = <<>>
    PROVE  Past = Range(Plan)
<1>1. PICK n \in 1 .. Len(Plan) + 1 : At(n) BY WhereItIs
<1>2. n = Len(Plan) + 1 BY <1>1 DEF At
<1>3. Len(Plan) \in Nat /\ Plan \in Seq(Asks) BY PlanIsSeq
<1>4. n - 1 = Len(Plan) BY <1>2, <1>3
<1>5. Past = {Plan[i] : i \in 1 .. Len(Plan)} BY <1>1, <1>4 DEF At
<1>6. Range(Plan) = {Plan[i] : i \in 1 .. Len(Plan)} BY <1>3, RangeEquality
<1> QED BY <1>5, <1>6

LEMMA PlanHas ==
    ASSUME "choose" \notin Range(Plan)
    PROVE  /\ "NetworkPolicies" \in Range(Plan)
           /\ request.tool = "health" => {"ReplicaSets", "pods", "statuses"} \subseteq Range(Plan)
           /\ request.tool # "health" => kind # NoKind
           /\ Range(Listing) \subseteq Range(Plan)
<1>1. Range(Plan) = {Plan[i] : i \in 1 .. Len(Plan)}
    <2>1. Plan \in Seq(Asks) BY PlanIsSeq
    <2> QED BY <2>1, RangeEquality
<1>2. Range(Listing) = {Plan[i] : i \in 1 .. 4} /\ Len(Plan) \in Nat /\ 5 <= Len(Plan)
    BY PlanOrdered, PlanIsSeq DEF Ordered
<1>3. Range(Listing) \subseteq Range(Plan)
    <2>1. 1 .. 4 \subseteq 1 .. Len(Plan) BY <1>2
    <2> QED BY <1>1, <1>2, <2>1
<1>4. CASE request.tool = "health"
    <2>1. Plan = HealthReads BY <1>4 DEF Plan, ReadsOf
    <2> QED BY <1>1, <1>3, <1>4, <2>1, HealthOrdered
<1>5. CASE request.tool # "health" /\ kind = NoKind
    <2>1. Plan = FindReads BY <1>5 DEF Plan, ReadsOf
    <2>2. Plan[5] = "choose" /\ 5 \in 1 .. Len(Plan) BY <1>2, <2>1, FindOrdered
    <2> QED BY <1>1, <2>2
<1>6. CASE request.tool # "health" /\ kind # NoKind
    <2>1. Plan = ReportReads(kind) BY <1>6 DEF Plan, ReadsOf
    <2> QED BY <1>1, <1>3, <1>6, <2>1, ReportOrdered
<1> QED BY <1>4, <1>5, <1>6

\* The reads made grow by the one that is done.
LEMMA DoneStep ==
    ASSUME PlanInv, todo # <<>>, Head(todo) # "choose", Done, UNCHANGED <<request, access, kind>>
    PROVE  PlanInv' /\ Past' = Past \cup {Head(todo)}
<1>1. PICK n \in 1 .. Len(Plan) + 1 : At(n) BY WhereItIs
<1>2. Len(Plan) \in Nat BY PlanIsSeq
<1>3. n \in 1 .. Len(Plan) /\ n + 1 \in 1 .. Len(Plan) + 1 /\ (n + 1) - 1 = n BY <1>1, <1>2 DEF At
<1>4. Plan' = Plan BY DEF Plan
<1>5. todo' = SubSeq(Plan, n + 1, Len(Plan)) BY <1>1, <1>3 DEF At, Done
<1>6. todo' = SubSeq(Plan', n + 1, Len(Plan')) /\ n + 1 \in 1 .. Len(Plan') + 1 BY <1>3, <1>4, <1>5
<1>8. Past' = {Plan[i] : i \in 1 .. n}
    <2>1. Len(Plan) - Len(todo') = n
        <3>1. Plan \in Seq(Asks) BY PlanIsSeq
        <3>2. \A i \in n + 1 .. Len(Plan) : Plan[i] \in Asks BY <1>3, <3>1, ElementOfSeq
        <3>3. n + 1 \in Int /\ Len(Plan) \in Int BY <1>2, <1>3
        <3>4. Len(todo') = IF n + 1 <= Len(Plan) THEN Len(Plan) - (n + 1) + 1 ELSE 0 BY <1>5, <3>2, <3>3, SubSeqProperties
        <3> QED BY <1>2, <1>3, <3>4
    <2> QED BY <1>4, <2>1 DEF Past
<1>9. 1 .. n = (1 .. n - 1) \cup {n} BY <1>3
<1>10. Past = {Plan[i] : i \in 1 .. n - 1} /\ Head(todo) = Plan[n] BY <1>1, <1>3 DEF At
<1>11. Past' = Past \cup {Head(todo)} BY <1>8, <1>9, <1>10
<1>12. PlanInv' BY <1>4, <1>6, <1>11 DEF PlanInv
<1> QED BY <1>11, <1>12

LEMMA StayStep ==
    ASSUME PlanInv, UNCHANGED <<request, access, kind, todo>>
    PROVE  PlanInv' /\ Past' = Past
<1>1. Plan' = Plan BY DEF Plan
<1> QED BY <1>1 DEF PlanInv, Past

\* A call that has chosen its kind starts again.
LEMMA ChooseStep ==
    ASSUME PlanInv, todo # <<>>, Head(todo) = "choose", NEW k \in Range(Kinds),
           kind' = k, todo' = ReportReads(k), UNCHANGED <<request, access>>
    PROVE  PlanInv' /\ Past' = {}
<1>1. request.tool = "report" /\ kind = NoKind BY HeadFacts
<1>2. k # NoKind BY RequestsAssumption
<1>3. Plan' = ReportReads(k) BY <1>1, <1>2 DEF Plan, ReadsOf
<1>4. ReportReads(k) \in Seq(Asks) /\ 5 <= Len(ReportReads(k)) BY ReportOrdered DEF Ordered
<1>5. Len(ReportReads(k)) \in Nat BY <1>4, LenProperties
<1>6. todo' = SubSeq(Plan', 1, Len(Plan')) BY <1>3, <1>4, SubSeqFull
<1>7. Past' = {} BY <1>3, <1>5 DEF Past
<1>8. 1 \in 1 .. Len(Plan') + 1 BY <1>3, <1>5
<1>9. request.kind = NoKind BY <1>1 DEF PlanInv
<1> QED BY <1>1, <1>6, <1>7, <1>8, <1>9 DEF PlanInv

-----------------------------------------------------------------------------
(* What the names are, and what a call looks into.                         *)

LEMMA NameFacts ==
    /\ \A w \in Range(Names.workloads) : w = <<w[1], w[2]>> /\ w[1] \in Range(Kinds) /\ w[2] \in STRING
    /\ \A o \in Range(Names.pods) : o = <<o[1], o[2]>> /\ o[1] = "Pod" /\ o[2] \in STRING
    /\ Range(Names.workloads) \cap Range(Names.pods) = {}
    /\ \A w \in Range(Names.workloads) : StatesOf(w) = WorkloadStates
    /\ \A o \in Range(Names.pods) : StatesOf(o) = PodStates
<1>1. Range(Names.workloads) \subseteq Range(Kinds) \X STRING BY NamesAssumption, RangeOfNone
<1>2. Range(Names.pods) \subseteq {"Pod"} \X STRING BY NamesAssumption, RangeOfNone
<1>3. \A w \in Range(Names.workloads) : w = <<w[1], w[2]>> /\ w[1] \in Range(Kinds) /\ w[2] \in STRING BY <1>1
<1>4. \A o \in Range(Names.pods) : o = <<o[1], o[2]>> /\ o[1] = "Pod" /\ o[2] \in STRING BY <1>2
<1>5. Range(Names.workloads) \cap Range(Names.pods) = {} BY <1>3, <1>4, KindFacts
<1> QED BY <1>3, <1>4, <1>5 DEF StatesOf

\* The pods listed.
Listed == [name : {"Pod"} \X STRING, summary : Summaries]

LEMMA GroupFacts ==
    ASSUME pods \in Seq(Listed), NEW label
    PROVE  /\ Group(label) \in Seq(Listed)
           /\ Range(Group(label)) = {p \in Range(pods) : GroupOf(p.name, p.summary, rsOwner, listed) = label}
<1> DEFINE T == {p \in Range(pods) : GroupOf(p.name, p.summary, rsOwner, listed) = label}
<1>1. Those(pods, T) \in Seq(Listed) /\ Range(Those(pods, T)) = Range(pods) \cap T
    <2> HIDE DEF T
    <2> QED BY ThoseLemma
<1>2. Range(pods) \cap T = T OBVIOUS
<1> QED BY <1>1, <1>2 DEF Group

LEMMA OwnerlessFacts ==
    ASSUME pods \in Seq(Listed)
    PROVE  /\ Ownerless \in Seq(Listed)
           /\ Range(Ownerless) = {p \in Range(pods) : GroupOf(p.name, p.summary, rsOwner, listed)[1] = "Pod"}
<1> DEFINE T == {p \in Range(pods) : GroupOf(p.name, p.summary, rsOwner, listed)[1] = "Pod"}
<1>1. Those(pods, T) \in Seq(Listed) /\ Range(Those(pods, T)) = Range(pods) \cap T
    <2> HIDE DEF T
    <2> QED BY ThoseLemma
<1>2. Range(pods) \cap T = T OBVIOUS
<1> QED BY <1>1, <1>2 DEF Ownerless

LEMMA LooksIntoFacts ==
    ASSUME pods \in Seq(Listed), listed \in Seq(Entries)
    PROVE  /\ LooksInto \in Seq(Listed)
           /\ Range(LooksInto) \subseteq Range(pods)
           /\ request.tool = "health" =>
                /\ Range(Ownerless) \subseteq Range(LooksInto)
                /\ \A e \in Range(listed) : Range(Group(<<e.kind, e.name>>)) \subseteq Range(LooksInto)
<1>1. CASE request.tool = "health"
    <2> DEFINE gs == [i \in DOMAIN listed |-> Group(<<listed[i].kind, listed[i].name>>)]
    <2>1. \A i \in DOMAIN listed : gs[i] \in Seq(Listed) /\ Range(gs[i]) \subseteq Range(pods)
        BY GroupFacts
    <2>2. Len(listed) \in Nat /\ DOMAIN listed = 1 .. Len(listed) BY LenProperties
    <2>3. gs \in Seq(Seq(Listed)) /\ Len(gs) = Len(listed)
        <3>1. gs \in [DOMAIN listed -> Seq(Listed)] BY <2>1
        <3>2. gs \in Seq(Seq(Listed)) BY <3>1, MappedLemma
        <3>3. DOMAIN gs = 1 .. Len(gs) /\ Len(gs) \in Nat BY <3>2, LenProperties
        <3>4. DOMAIN gs = DOMAIN listed OBVIOUS
        <3> QED BY <2>2, <3>2, <3>3, <3>4
    <2>4. \A e \in Range(listed) : \E i \in DOMAIN listed : gs[i] = Group(<<e.kind, e.name>>)
        BY DEF Range
    <2> HIDE DEF gs
    <2>5. FlattenSeq(gs) \in Seq(Listed) /\ Range(FlattenSeq(gs)) = UNION {Range(gs[i]) : i \in 1 .. Len(gs)}
        BY <2>3, FlattenLemma
    <2>6. Ownerless \in Seq(Listed) /\ Range(Ownerless) \subseteq Range(pods) BY OwnerlessFacts
    <2>7. LooksInto = FlattenSeq(gs) \o Ownerless BY <1>1 DEF LooksInto, gs
    <2>8. LooksInto \in Seq(Listed) /\ Range(LooksInto) = Range(FlattenSeq(gs)) \cup Range(Ownerless)
        BY <2>5, <2>6, <2>7, ConcatProperties, RangeConcatenation
    <2>9. Range(FlattenSeq(gs)) \subseteq Range(pods) BY <2>1, <2>2, <2>3, <2>5
    <2>10. \A e \in Range(listed) : Range(Group(<<e.kind, e.name>>)) \subseteq Range(FlattenSeq(gs))
        BY <2>2, <2>3, <2>4, <2>5
    <2> QED BY <2>6, <2>8, <2>9, <2>10
<1>2. CASE request.tool # "health"
    <2>1. LooksInto = Group(Asked) BY <1>2 DEF LooksInto
    <2> QED BY <1>2, <2>1, GroupFacts
<1> QED BY <1>1, <1>2

-----------------------------------------------------------------------------
(* What a step leaves as it is.                                            *)

LEMMA SameCluster ==
    ASSUME ClusterInv, UNCHANGED cluster
    PROVE  ClusterInv'
BY DEF ClusterInv, Is

LEMMA SameEntries ==
    ASSUME EntriesInv, UNCHANGED <<listed, cluster, touched>>, Past \subseteq Past'
    PROVE  EntriesInv'
BY DEF EntriesInv, Is

LEMMA SameListed ==
    ASSUME ListedInv, UNCHANGED <<listed, cluster, touched>>, unknown \subseteq unknown',
           (Past' \ Past) \cap Range(Listing) \subseteq unknown'
    PROVE  ListedInv'
<1> SUFFICES ASSUME NEW w \in Range(Names.workloads), Steady(w)', Plural[w[1]] \in Past'
             PROVE  IsListed(w)' \/ Plural[w[1]] \in unknown'
    BY DEF ListedInv
<1>1. Steady(w) BY DEF Steady, Is
<1>2. Plural[w[1]] \in Range(Listing) BY NameFacts, KindFacts
<1>3. CASE Plural[w[1]] \in Past
    <2>1. IsListed(w) \/ Plural[w[1]] \in unknown BY <1>1, <1>3 DEF ListedInv
    <2> QED BY <2>1 DEF IsListed
<1>4. CASE Plural[w[1]] \notin Past BY <1>2, <1>4
<1> QED BY <1>3, <1>4

LEMMA SameOwners ==
    ASSUME OwnersInv, UNCHANGED rsOwner, unknown \subseteq unknown',
           "ReplicaSets" \in Past' => "ReplicaSets" \in Past \/ "ReplicaSets" \in unknown'
    PROVE  OwnersInv'
BY DEF OwnersInv

LEMMA SamePods ==
    ASSUME PodsInv, UNCHANGED <<pods, cluster, touched>>, "pods" \in Past' <=> "pods" \in Past
    PROVE  PodsInv'
BY DEF PodsInv, Is, Steady

LEMMA SameStatuses ==
    ASSUME StatusesInv, UNCHANGED <<request, kind, listed, rsOwner, pods, statuses, cluster, touched>>,
           "statuses" \in Past' => "statuses" \in Past
    PROVE  StatusesInv'
<1>1. LooksInto' = LooksInto BY DEF LooksInto, Group, Ownerless, Asked
<1> QED BY <1>1 DEF StatusesInv, Is

LEMMA SameChosen ==
    ASSUME ChosenInv, UNCHANGED <<request, access, kind, cluster, touched>>
    PROVE  ChosenInv'
BY DEF ChosenInv, Steady, Is, Asked

LEMMA SameClaims ==
    ASSUME UNCHANGED <<pods, statuses>>
    PROVE  Claims' = Claims
BY DEF Claims

-----------------------------------------------------------------------------
(* Every step keeps the invariant.                                         *)

LEMMA InitInv == Init => IInv
<1> SUFFICES ASSUME Init PROVE IInv OBVIOUS
<1>1. Plan \in Seq(Asks) /\ Len(Plan) \in Nat BY PlanIsSeq
<1>2. todo = Plan BY DEF Init, Plan
<1>3. todo = SubSeq(Plan, 1, Len(Plan)) BY <1>1, <1>2, SubSeqFull
<1>4. 1 \in 1 .. Len(Plan) + 1 BY <1>1
<1>5. Past = {} BY <1>1, <1>2 DEF Past
<1>6. PlanInv BY <1>3, <1>4, <1>5, RequestsAssumption DEF Init, PlanInv
<1>7. Range(<<>>) = {} BY DEF Range
<1>8. ClusterInv
    <2>1. DOMAIN cluster = Objects /\ \A o \in Objects : Is(o) => cluster[o] \in StatesOf(o)
        BY StatesAssumption DEF Init, Is
    <2>2. ASSUME NEW o \in Range(Names.pods), Is(o) PROVE Proper(cluster[o])
        <3>1. cluster[o] \in {c[o] : c \in Clusters} \ {Gone} BY <2>2 DEF Init, Is
        <3> QED BY <3>1, PodsAssumption DEF Proper
    <2> QED BY <2>1, <2>2 DEF ClusterInv
<1>9. listed = <<>> /\ pods = <<>> /\ rsOwner = <<>> /\ unknown = {} /\ notes = {} /\ DOMAIN statuses = {}
    BY DEF Init
<1>10. EntriesInv BY <1>7, <1>9, EmptySeq DEF EntriesInv
<1>11. ListedInv /\ OwnersInv BY <1>5, <1>9 DEF ListedInv, OwnersInv
<1>12. PodsInv BY <1>5, <1>7, <1>9, EmptySeq DEF PodsInv
<1>13. StatusesInv BY <1>5, <1>9 DEF StatusesInv
<1>14. NotesInv BY <1>5, <1>7, <1>9 DEF NotesInv, Claims
<1>15. ChosenInv BY DEF Init, ChosenInv
<1> QED BY <1>6, <1>8, <1>10, <1>11, <1>12, <1>13, <1>14, <1>15 DEF IInv

\* A step that reads nothing, and a call that ends, leave all of it.
LEMMA StayInv ==
    ASSUME IInv, UNCHANGED <<world, todo, read, unknown, notes>>
    PROVE  IInv'
<1>1. PlanInv' /\ Past' = Past BY StayStep DEF IInv, world, read
<1>2. ClusterInv' BY SameCluster DEF IInv, world
<1>3. EntriesInv' BY <1>1, SameEntries DEF IInv, world, read
<1>4. ListedInv' BY <1>1, SameListed DEF IInv, world, read
<1>5. OwnersInv' BY <1>1, SameOwners DEF IInv, read
<1>6. PodsInv' BY <1>1, SamePods DEF IInv, world, read
<1>7. StatusesInv' BY <1>1, SameStatuses DEF IInv, world, read
<1>8. ChosenInv' BY SameChosen DEF IInv, world, read
<1>9. NotesInv' BY <1>1, SameClaims DEF IInv, NotesInv, world, read
<1> QED BY <1>1, <1>2, <1>3, <1>4, <1>5, <1>6, <1>7, <1>8, <1>9 DEF IInv

\* A read that is made, or done without, of which only the notes are kept.
LEMMA PassInv ==
    ASSUME IInv, todo # <<>>, Done, UNCHANGED <<world, read>>, NotesInv', unknown \subseteq unknown',
           Head(todo) \in Range(Listing) \cup {"ReplicaSets"} => Head(todo) \in unknown',
           Head(todo) \notin {"pods", "statuses", "choose"}
    PROVE  IInv'
<1>0. PlanInv BY DEF IInv
<1>1. PlanInv' /\ Past' = Past \cup {Head(todo)} BY <1>0, DoneStep DEF world, read
<1>2. ClusterInv' BY SameCluster DEF IInv, world
<1>3. EntriesInv' BY <1>1, SameEntries DEF IInv, world, read
<1>4. ListedInv'
    <2>1. (Past' \ Past) \cap Range(Listing) \subseteq unknown' BY <1>1
    <2> QED BY <2>1, SameListed DEF IInv, world, read
<1>5. OwnersInv' BY <1>1, SameOwners DEF IInv, read
<1>6. PodsInv' BY <1>1, SamePods DEF IInv, world, read
<1>7. StatusesInv' BY <1>1, SameStatuses DEF IInv, world, read
<1>8. ChosenInv' BY SameChosen DEF IInv, world, read
<1> QED BY <1>1, <1>2, <1>3, <1>4, <1>5, <1>6, <1>7, <1>8 DEF IInv

\* So does one of what isn't recorded, which leaves the notes too.
LEMMA QuietInv ==
    ASSUME IInv, todo # <<>>, Done, UNCHANGED <<world, read, unknown, notes>>,
           Head(todo) \notin Range(Listing) \cup {"ReplicaSets", "pods", "statuses", "choose"},
           Head(todo) \in Recorded => Head(todo) \notin access.refused,
           Head(todo) = "usage" => Head(todo) \notin access.refused,
           Head(todo) = "NetworkPolicies" => Head(todo) \notin access.failing
    PROVE  IInv'
<1>0. PlanInv BY DEF IInv
<1>1. Past' = Past \cup {Head(todo)} BY <1>0, DoneStep DEF world, read
<1>2. NotesInv'
    <2>1. Claims' = Claims /\ UNCHANGED access BY SameClaims DEF read, world
    <2>2. unknown' = (Past' \cap Recorded \cap access.refused)
                     \cup (IF Claims THEN {"PersistentVolumeClaims"} \cap access.refused ELSE {})
        BY <1>1 DEF IInv, NotesInv
    <2>3. notes' = (Past' \cap {"usage"} \cap access.refused) \cup (Past' \cap {"NetworkPolicies"} \cap access.failing)
        BY <1>1 DEF IInv, NotesInv
    <2> QED BY <2>1, <2>2, <2>3 DEF NotesInv
<1> QED BY <1>2, PassInv

LEMMA RefuseInv == IInv /\ Refuse => IInv'
<1> SUFFICES ASSUME IInv, Refuse PROVE IInv' OBVIOUS
<1>1. /\ todo # <<>> /\ Head(todo) \in Recorded /\ Head(todo) \in access.refused
      /\ Done /\ UNCHANGED <<world, read, notes>> /\ unknown' = unknown \cup {Head(todo)}
    BY DEF Refuse, Meets
<1>0. "choose" \notin Recorded BY KindFacts DEF Recorded, Related
<1>2. Past' = Past \cup {Head(todo)} BY <1>0, <1>1, DoneStep DEF IInv, world, read
<1>3. "choose" \notin Recorded /\ "pods" \notin Recorded /\ "statuses" \notin Recorded /\ "usage" \notin Recorded
    BY KindFacts DEF Recorded, Related
<1>4. NotesInv'
    <2>1. Claims' = Claims /\ UNCHANGED access BY <1>1, SameClaims DEF read, world
    <2>2. Head(todo) \notin access.failing BY <1>1, AccessAssumption DEF IInv, PlanInv
    <2>3. unknown' = (Past' \cap Recorded \cap access.refused)
                     \cup (IF Claims THEN {"PersistentVolumeClaims"} \cap access.refused ELSE {})
        BY <1>1, <1>2 DEF IInv, NotesInv
    <2>4. notes' = (Past' \cap {"usage"} \cap access.refused) \cup (Past' \cap {"NetworkPolicies"} \cap access.failing)
        BY <1>1, <1>2, <1>3, <2>2 DEF IInv, NotesInv
    <2> QED BY <2>1, <2>3, <2>4 DEF NotesInv
<1> QED BY <1>1, <1>3, <1>4, PassInv

LEMMA NoteInv == IInv /\ Note => IInv'
<1> SUFFICES ASSUME IInv, Note PROVE IInv' OBVIOUS
<1>1. /\ todo # <<>> /\ Done /\ UNCHANGED <<world, read, unknown>> /\ notes' = notes \cup {Head(todo)}
      /\ \/ Head(todo) = "usage" /\ "usage" \in access.refused
         \/ Head(todo) = "NetworkPolicies" /\ "NetworkPolicies" \in access.failing
    BY DEF Note, Meets
<1>2. Past' = Past \cup {Head(todo)} BY <1>1, DoneStep DEF IInv, world, read
<1>3. "usage" \notin Recorded BY KindFacts DEF Recorded, Related
<1>4. NotesInv'
    <2>1. Claims' = Claims /\ UNCHANGED access BY <1>1, SameClaims DEF read, world
    <2>2. access.refused \cap access.failing = {} BY AccessAssumption DEF IInv, PlanInv
    <2>3. unknown' = (Past' \cap Recorded \cap access.refused)
                     \cup (IF Claims THEN {"PersistentVolumeClaims"} \cap access.refused ELSE {})
        BY <1>1, <1>2, <1>3, <2>2 DEF IInv, NotesInv
    <2>4. notes' = (Past' \cap {"usage"} \cap access.refused) \cup (Past' \cap {"NetworkPolicies"} \cap access.failing)
        BY <1>1, <1>2, <2>2 DEF IInv, NotesInv
    <2> QED BY <2>1, <2>3, <2>4 DEF NotesInv
<1>5. Head(todo) \notin Range(Listing) \cup {"ReplicaSets", "pods", "statuses", "choose"} BY <1>1, KindFacts
<1> QED BY <1>1, <1>4, <1>5, PassInv

LEMMA ReadRelatedInv == IInv /\ ReadRelated => IInv'
<1> SUFFICES ASSUME IInv, ReadRelated PROVE IInv' OBVIOUS
<1>1. /\ todo # <<>> /\ Head(todo) \in Related \cup {"usage"} /\ Readable(Head(todo))
      /\ Done /\ UNCHANGED <<world, read, unknown, notes>>
    BY DEF ReadRelated, Meets
<1>2. Head(todo) \notin Range(Listing) \cup {"ReplicaSets", "pods", "statuses", "choose"} BY <1>1, KindFacts DEF Related
<1>3. Head(todo) \notin access.refused /\ Head(todo) \notin access.failing BY <1>1 DEF Readable
<1> QED BY <1>1, <1>2, <1>3, QuietInv

\* What a call may leave out of its notes: its own steps, and the history read.
LEMMA OwnStepInv ==
    ASSUME IInv, todo # <<>>, Done, UNCHANGED <<world, read, unknown, notes>>,
           \/ Head(todo) \in {"match", "spec", "templates"}
           \/ Head(todo) = "WorkloadHistory" /\ Readable("WorkloadHistory")
    PROVE  IInv'
<1>1. Head(todo) \notin Range(Listing) \cup {"ReplicaSets", "pods", "statuses", "choose"} BY KindFacts
<1>2. "match" \notin Recorded /\ "spec" \notin Recorded /\ "templates" \notin Recorded
    BY KindFacts DEF Recorded, Related
<1>3. Head(todo) \in Recorded => Head(todo) \notin access.refused BY <1>2 DEF Readable
<1>4. Head(todo) # "usage" /\ Head(todo) # "NetworkPolicies" OBVIOUS
<1> QED BY <1>1, <1>3, <1>4, QuietInv

LEMMA MatchInv == IInv /\ Match => IInv'
<1> SUFFICES ASSUME IInv, Match PROVE IInv' OBVIOUS
<1>1. CASE UNCHANGED <<world, todo, read, unknown, notes>> BY <1>1, StayInv
<1>2. CASE Done /\ UNCHANGED <<world, read, unknown, notes>>
    <2>1. todo # <<>> /\ Head(todo) = "match" BY DEF Match, Reads
    <2> QED BY <1>2, <2>1, OwnStepInv
<1> QED BY <1>1, <1>2 DEF Match, Ends

LEMMA ReadFocusInv == IInv /\ ReadFocus => IInv'
<1> SUFFICES ASSUME IInv, ReadFocus PROVE IInv' OBVIOUS
<1>1. CASE UNCHANGED <<world, todo, read, unknown, notes>> BY <1>1, StayInv
<1>2. CASE Done /\ UNCHANGED <<world, read, unknown, notes>>
    <2>1. todo # <<>> /\ Head(todo) = "spec" BY DEF ReadFocus, Reads
    <2> QED BY <1>2, <2>1, OwnStepInv
<1> QED BY <1>1, <1>2 DEF ReadFocus, Ends

LEMMA ReadHistoryInv == IInv /\ ReadHistory => IInv'
<1> SUFFICES ASSUME IInv, ReadHistory PROVE IInv' OBVIOUS
<1>1. CASE UNCHANGED <<world, todo, read, unknown, notes>> BY <1>1, StayInv
<1>2. CASE Done /\ UNCHANGED <<world, read, unknown, notes>>
    <2>1. todo # <<>> /\ Head(todo) = "WorkloadHistory" /\ Readable("WorkloadHistory") BY DEF ReadHistory, Reads
    <2> QED BY <1>2, <2>1, OwnStepInv
<1> QED BY <1>1, <1>2 DEF ReadHistory, Ends

LEMMA ChangeInv == IInv /\ Change => IInv'
<1> SUFFICES ASSUME IInv, Change PROVE IInv' OBVIOUS
<1>1. PICK o, s :
        /\ o \in DOMAIN cluster /\ s \in {Gone} \cup States[o]
        /\ cluster' = [cluster EXCEPT ![o] = s] /\ touched' = touched \cup {o}
    BY DEF Change
<1>2. UNCHANGED <<request, access, todo, read, unknown, notes>> BY DEF Change
<1>3. PlanInv' /\ Past' = Past BY <1>2, StayStep DEF IInv, read
<1>4. /\ DOMAIN cluster = Objects /\ o \in Objects /\ DOMAIN cluster' = Objects
      /\ \A x \in Objects : x \notin touched' => cluster'[x] = cluster[x] /\ x \notin touched
      /\ \A x \in Objects : x # o => cluster'[x] = cluster[x]
      /\ cluster'[o] = s
    BY <1>1 DEF IInv, ClusterInv
<1>5. ClusterInv'
    <2>1. ASSUME NEW x \in Objects, Is(x)' PROVE cluster'[x] \in StatesOf(x)
        <3>1. CASE x = o BY <1>1, <1>4, <2>1, <3>1, StatesAssumption DEF Is
        <3>2. CASE x # o BY <1>4, <2>1, <3>2 DEF Is, IInv, ClusterInv
        <3> QED BY <3>1, <3>2
    <2>2. ASSUME NEW x \in Range(Names.pods), Is(x)' PROVE Proper(cluster'[x])
        <3>0. x \in Objects BY DEF Objects
        <3>1. CASE x = o
            <4>1. s \in States[x] BY <1>1, <1>4, <2>2, <3>1 DEF Is
            <4> QED BY <1>4, <3>1, <4>1, PodsAssumption DEF Proper
        <3>2. CASE x # o BY <1>4, <2>2, <3>0, <3>2 DEF Is, IInv, ClusterInv
        <3> QED BY <3>1, <3>2
    <2> QED BY <1>4, <2>1, <2>2 DEF ClusterInv
<1>6. \A x \in Objects : Steady(x)' => Steady(x) BY <1>4 DEF Steady, Is
<1>7. EntriesInv'
    <2>1. ASSUME NEW e \in Range(listed), <<e.kind, e.name>> \notin touched'
          PROVE  Is(<<e.kind, e.name>>)' /\ cluster'[<<e.kind, e.name>>] = e.is
        <3>1. <<e.kind, e.name>> \in Objects BY DEF Objects, IInv, EntriesInv
        <3> QED BY <1>4, <2>1, <3>1 DEF IInv, EntriesInv, Is
    <2> QED BY <1>2, <1>3, <2>1 DEF IInv, EntriesInv, read
<1>8. ListedInv'
    <2>1. \A w \in Range(Names.workloads) : Steady(w)' => Steady(w) BY <1>6 DEF Objects
    <2> QED BY <1>2, <1>3, <2>1 DEF IInv, ListedInv, IsListed, read
<1>9. OwnersInv' BY <1>2, <1>3, SameOwners DEF IInv, read
<1>10. PodsInv'
    <2>1. ASSUME NEW p \in Range(pods), p.name \notin touched'
          PROVE  Is(p.name)' /\ p.summary = cluster'[p.name].summary
        <3>1. p.name \in Objects BY DEF Objects, IInv, PodsInv
        <3> QED BY <1>4, <2>1, <3>1 DEF IInv, PodsInv, Is
    <2>2. \A x \in Range(Names.pods) : Steady(x)' => Steady(x) BY <1>6 DEF Objects
    <2> QED BY <1>2, <1>3, <2>1, <2>2 DEF IInv, PodsInv, read
<1>11. StatusesInv'
    <2>1. LooksInto' = LooksInto BY <1>2 DEF LooksInto, Group, Ownerless, Asked, read
    <2>2. ASSUME NEW n \in DOMAIN statuses, n \notin touched'
          PROVE  Is(n)' /\ statuses[n] = ContainerStatuses(cluster'[n].statuses)
        <3>1. n \in Objects BY DEF Objects, IInv, StatusesInv, PodsInv
        <3> QED BY <1>4, <2>2, <3>1 DEF IInv, StatusesInv, Is
    <2> QED BY <1>2, <1>3, <2>1, <2>2 DEF IInv, StatusesInv, read
<1>12. NotesInv' BY <1>2, <1>3, SameClaims DEF IInv, NotesInv, read
<1>13. ChosenInv'
    <2>1. \A w \in Range(Names.workloads) : Steady(w)' => Steady(w) BY <1>6 DEF Objects
    <2> QED BY <1>2, <2>1 DEF IInv, ChosenInv, Asked, read
<1> QED BY <1>3, <1>5, <1>7, <1>8, <1>9, <1>10, <1>11, <1>12, <1>13 DEF IInv

LEMMA ListWorkloadsInv == IInv /\ (\E k \in Range(Kinds) : ListWorkloads(k)) => IInv'
<1> SUFFICES ASSUME IInv, NEW k \in Range(Kinds), ListWorkloads(k) PROVE IInv' OBVIOUS
<1> DEFINE T == {w \in Range(Names.workloads) : w[1] = k /\ Is(w)}
           found == Those(Names.workloads, T)
           new == [i \in DOMAIN found |-> [kind |-> k, name |-> found[i][2], is |-> cluster[found[i]]]]
<1>1. /\ todo # <<>> /\ Head(todo) = Plural[k] /\ Done /\ Plural[k] \notin access.refused
      /\ UNCHANGED <<world, kind, rsOwner, pods, statuses, unknown, notes>>
      /\ listed' = listed \o new
    BY DEF ListWorkloads, Reads, Readable
<1>0. Plural[k] # "choose" BY KindFacts
<1>2. PlanInv' /\ Past' = Past \cup {Plural[k]} BY <1>0, <1>1, DoneStep DEF IInv, world
<1>3. /\ Plural[k] \in Range(Listing) /\ Plural[k] \notin Past
      /\ Past' \cap {"ReplicaSets", "pods", "statuses"} = {} /\ Past \cap {"ReplicaSets", "pods", "statuses"} = {}
    <2>1. Plural[k] \in Range(Listing) BY KindFacts
    <2>2. Plural[k] \notin Past /\ Past \cap {"ReplicaSets", "pods", "statuses"} = {}
        BY <1>1, <2>1, HeadFacts DEF IInv
    <2> QED BY <1>2, <2>1, <2>2, KindFacts
<1>4. found \in Seq(Range(Names.workloads)) /\ Range(found) = T
    <2>1. Names.workloads \in Seq(Range(Names.workloads)) BY NamesAssumption, SeqOfRange
    <2>2. Range(Names.workloads) \cap T = T OBVIOUS
    <2> HIDE DEF T
    <2> QED BY <2>1, <2>2, ThoseLemma
<1>5. \A w \in T : /\ w = <<k, w[2]>> /\ w[2] \in STRING /\ w \in Range(Names.workloads)
                   /\ Is(w) /\ cluster[w] \in WorkloadStates
    BY NameFacts DEF IInv, ClusterInv, Objects
<1>6. new \in Seq(Entries) /\ Range(new) = {[kind |-> k, name |-> w[2], is |-> cluster[w]] : w \in T}
    <2>1. \A i \in DOMAIN found : found[i] \in T BY <1>4, RangeOfNone
    <2>2. new \in [DOMAIN found -> Entries]
        <3> HIDE DEF T, found
        <3> QED BY <1>5, <2>1 DEF Entries
    <2>3. new \in Seq(Entries)
        <3> HIDE DEF T, found, new
        <3> QED BY <1>4, <2>2, MappedLemma
    <2>4. Range(new) = {[kind |-> k, name |-> found[i][2], is |-> cluster[found[i]]] : i \in DOMAIN found}
        <3> HIDE DEF T, found
        <3> QED BY DEF Range
    <2>5. \A w \in T : \E i \in DOMAIN found : found[i] = w
        <3> HIDE DEF T, found
        <3> QED BY <1>4 DEF Range
    <2> HIDE DEF T, found, new
    <2> QED BY <2>1, <2>3, <2>4, <2>5
<1> HIDE DEF T, found, new
<1>7. listed' \in Seq(Entries) /\ Range(listed') = Range(listed) \cup Range(new)
    BY <1>1, <1>6, ConcatProperties, RangeConcatenation DEF IInv, EntriesInv
<1>8. UNCHANGED <<cluster, touched, request, access>> BY <1>1 DEF world
<1>9. ClusterInv' BY <1>8, SameCluster DEF IInv
<1>10. \A e \in Range(new) : \E w \in T : e.kind = k /\ e.name = w[2] /\ e.is = cluster[w] BY <1>6
<1>11. \A e \in Range(listed) : e.kind \in Range(Kinds) /\ e.kind # k
    <2>1. \A e \in Range(listed) : Plural[e.kind] \in Past BY DEF IInv, EntriesInv
    <2>2. \A e \in Range(listed) : e \in Entries BY RangeOfNone DEF IInv, EntriesInv
    <2> QED BY <1>3, <2>1, <2>2, KindFacts DEF Entries
<1>12. EntriesInv'
    <2>1. ASSUME NEW e \in Range(listed')
          PROVE  /\ <<e.kind, e.name>> \in Range(Names.workloads)
                 /\ Plural[e.kind] \in Past'
                 /\ <<e.kind, e.name>> \notin touched => Is(<<e.kind, e.name>>) /\ cluster[<<e.kind, e.name>>] = e.is
        <3>1. CASE e \in Range(listed) BY <1>2, <3>1 DEF IInv, EntriesInv
        <3>2. CASE e \in Range(new)
            <4>1. PICK w \in T : e.kind = k /\ e.name = w[2] /\ e.is = cluster[w] BY <1>10, <3>2
            <4>2. <<e.kind, e.name>> = w BY <1>5, <4>1
            <4> QED BY <1>2, <1>5, <4>1, <4>2
        <3> QED BY <1>7, <3>1, <3>2
    <2>2. ASSUME NEW e \in Range(listed'), NEW f \in Range(listed'), e.kind = f.kind, e.name = f.name
          PROVE  e = f
        <3>1. CASE e \in Range(listed) /\ f \in Range(listed) BY <2>2, <3>1 DEF IInv, EntriesInv
        <3>2. CASE e \in Range(new) /\ f \in Range(new)
            <4>1. PICK v \in T : e = [kind |-> k, name |-> v[2], is |-> cluster[v]] BY <1>6, <3>2
            <4>2. PICK w \in T : f = [kind |-> k, name |-> w[2], is |-> cluster[w]] BY <1>6, <3>2
            <4>3. v[2] = w[2] BY <2>2, <4>1, <4>2
            <4>4. v = w BY <1>5, <4>3
            <4> QED BY <4>1, <4>2, <4>4
        <3> QED BY <1>7, <1>10, <1>11, <2>2, <3>1, <3>2
    <2> QED BY <1>7, <1>8, <2>1, <2>2 DEF EntriesInv, Is
<1>13. ListedInv'
    <2> SUFFICES ASSUME NEW w \in Range(Names.workloads), Steady(w), Plural[w[1]] \in Past'
                 PROVE  (\E e \in Range(listed') : <<e.kind, e.name>> = w) \/ Plural[w[1]] \in unknown
        BY <1>1, <1>8 DEF ListedInv, IsListed, Steady, Is
    <2>1. CASE w[1] = k
        <3>1. w \in T BY <2>1 DEF T, Steady
        <3> DEFINE e == [kind |-> k, name |-> w[2], is |-> cluster[w]]
        <3>2. e \in Range(new) BY <1>6, <3>1
        <3>3. <<e.kind, e.name>> = w BY <1>5, <3>1
        <3> QED BY <1>7, <3>2, <3>3
    <2>2. CASE w[1] # k
        <3>1. Plural[w[1]] # Plural[k] BY <2>2, NameFacts, KindFacts
        <3>2. Plural[w[1]] \in Past BY <1>2, <3>1
        <3>3. IsListed(w) \/ Plural[w[1]] \in unknown BY <3>2 DEF IInv, ListedInv
        <3> QED BY <1>7, <3>3 DEF IsListed
    <2> QED BY <2>1, <2>2
<1>14. OwnersInv' BY <1>1, <1>3, SameOwners DEF IInv
<1>15. PodsInv' BY <1>1, <1>3, <1>8, SamePods DEF IInv
<1>16. StatusesInv' BY <1>1, <1>3, <1>8 DEF IInv, StatusesInv, Is
<1>17. NotesInv'
    <2>1. Claims' = Claims BY <1>1, SameClaims
    <2>2. Plural[k] \notin {"usage", "NetworkPolicies"} BY <1>3, KindFacts
    <2>3. unknown = (Past' \cap Recorded \cap access.refused)
                    \cup (IF Claims THEN {"PersistentVolumeClaims"} \cap access.refused ELSE {})
        BY <1>1, <1>2 DEF IInv, NotesInv
    <2>4. notes = (Past' \cap {"usage"} \cap access.refused) \cup (Past' \cap {"NetworkPolicies"} \cap access.failing)
        BY <1>2, <2>2 DEF IInv, NotesInv
    <2> QED BY <1>1, <1>8, <2>1, <2>3, <2>4 DEF NotesInv
<1>18. ChosenInv' BY <1>1, <1>8, SameChosen DEF IInv
<1> QED BY <1>2, <1>9, <1>12, <1>13, <1>14, <1>15, <1>16, <1>17, <1>18 DEF IInv

LEMMA ReadReplicaSetsInv == IInv /\ ReadReplicaSets => IInv'
<1> SUFFICES ASSUME IInv, ReadReplicaSets PROVE IInv' OBVIOUS
<1>1. /\ todo # <<>> /\ Head(todo) = "ReplicaSets" /\ Done /\ "ReplicaSets" \notin access.refused
      /\ UNCHANGED <<world, kind, listed, pods, statuses, unknown, notes>> /\ rsOwner' = ReplicaSets
    BY DEF ReadReplicaSets, Reads, Readable
<1>2. PlanInv' /\ Past' = Past \cup {"ReplicaSets"} BY <1>1, DoneStep DEF IInv, world
<1>3. Past' \cap {"pods", "statuses"} = {} /\ Past \cap {"pods", "statuses"} = {} BY <1>1, <1>2, HeadFacts DEF IInv
<1>4. UNCHANGED <<cluster, touched, request, access>> BY <1>1 DEF world
<1>5. ClusterInv' BY <1>4, SameCluster DEF IInv
<1>6. EntriesInv' BY <1>1, <1>2, <1>4, SameEntries DEF IInv
<1>7. ListedInv'
    <2>1. "ReplicaSets" \notin Range(Listing) BY KindFacts
    <2> QED BY <1>1, <1>2, <1>4, <2>1, SameListed DEF IInv
<1>8. OwnersInv' BY <1>1 DEF OwnersInv
<1>9. PodsInv' BY <1>1, <1>3, <1>4, SamePods DEF IInv
<1>10. StatusesInv' BY <1>1, <1>3, <1>4 DEF IInv, StatusesInv, Is
<1>11. NotesInv'
    <2>1. Claims' = Claims BY <1>1, SameClaims
    <2>2. unknown = (Past' \cap Recorded \cap access.refused)
                    \cup (IF Claims THEN {"PersistentVolumeClaims"} \cap access.refused ELSE {})
        BY <1>1, <1>2 DEF IInv, NotesInv
    <2>3. notes = (Past' \cap {"usage"} \cap access.refused) \cup (Past' \cap {"NetworkPolicies"} \cap access.failing)
        BY <1>2 DEF IInv, NotesInv
    <2> QED BY <1>1, <1>4, <2>1, <2>2, <2>3 DEF NotesInv
<1>12. ChosenInv' BY <1>1, <1>4, SameChosen DEF IInv
<1> QED BY <1>2, <1>5, <1>6, <1>7, <1>8, <1>9, <1>10, <1>11, <1>12 DEF IInv

LEMMA ListPodsInv == IInv /\ ListPods => IInv'
<1> SUFFICES ASSUME IInv, ListPods PROVE IInv' OBVIOUS
<1> DEFINE T == {p \in Range(Names.pods) : Is(p)}
           found == Those(Names.pods, T)
           new == [i \in DOMAIN found |-> [name |-> found[i], summary |-> cluster[found[i]].summary]]
<1>1. /\ todo # <<>> /\ Head(todo) = "pods" /\ Done /\ "pods" \notin access.refused
      /\ UNCHANGED <<world, kind, listed, rsOwner, statuses, unknown, notes>>
      /\ pods' = new
    BY DEF ListPods, Reads, Readable
<1>2. PlanInv' /\ Past' = Past \cup {"pods"} BY <1>1, DoneStep DEF IInv, world
<1>3. "statuses" \notin Past' /\ "pods" \notin Past BY <1>1, <1>2, HeadFacts DEF IInv
<1>4. UNCHANGED <<cluster, touched, request, access>> BY <1>1 DEF world
<1>5. found \in Seq(Range(Names.pods)) /\ Range(found) = T
    <2>1. Names.pods \in Seq(Range(Names.pods)) BY NamesAssumption, SeqOfRange
    <2>2. Range(Names.pods) \cap T = T OBVIOUS
    <2> HIDE DEF T
    <2> QED BY <2>1, <2>2, ThoseLemma
<1>6. \A p \in T : /\ p \in Range(Names.pods) /\ p \in {"Pod"} \X STRING
                   /\ Is(p) /\ cluster[p].summary \in Summaries
    <2>1. \A p \in Range(Names.pods) : p \in {"Pod"} \X STRING BY NameFacts
    <2>2. \A p \in T : cluster[p] \in PodStates BY NameFacts DEF IInv, ClusterInv, Objects
    <2> QED BY <2>1, <2>2 DEF PodStates
<1>7. new \in Seq(Listed) /\ Range(new) = {[name |-> p, summary |-> cluster[p].summary] : p \in T}
    <2>1. \A i \in DOMAIN found : found[i] \in T BY <1>5, RangeOfNone
    <2>2. new \in [DOMAIN found -> Listed]
        <3> HIDE DEF T, found
        <3> QED BY <1>6, <2>1 DEF Listed
    <2>3. new \in Seq(Listed)
        <3> HIDE DEF T, found, new
        <3> QED BY <1>5, <2>2, MappedLemma
    <2>4. Range(new) = {[name |-> found[i], summary |-> cluster[found[i]].summary] : i \in DOMAIN found}
        <3> HIDE DEF T, found
        <3> QED BY DEF Range
    <2>5. \A p \in T : \E i \in DOMAIN found : found[i] = p
        <3> HIDE DEF T, found
        <3> QED BY <1>5 DEF Range
    <2> HIDE DEF T, found, new
    <2> QED BY <2>1, <2>3, <2>4, <2>5
<1>8. \A p \in Range(Names.pods) : Steady(p) => p \in T BY DEF Steady
<1> HIDE DEF T, found, new
<1>9. ClusterInv' BY <1>4, SameCluster DEF IInv
<1>10. EntriesInv' BY <1>1, <1>2, <1>4, SameEntries DEF IInv
<1>11. ListedInv'
    <2>1. "pods" \notin Range(Listing) BY KindFacts
    <2> QED BY <1>1, <1>2, <1>4, <2>1, SameListed DEF IInv
<1>12. OwnersInv' BY <1>1, <1>2, SameOwners DEF IInv
<1>13. PodsInv'
    <2>1. ASSUME NEW p \in Range(new)
          PROVE  p.name \in T /\ p.summary = cluster[p.name].summary
        BY <1>7
    <2>2. ASSUME NEW p \in Range(new), NEW q \in Range(new), p.name = q.name PROVE p = q BY <1>7, <2>2
    <2>3. ASSUME NEW o \in Range(Names.pods), Steady(o) PROVE \E p \in Range(new) : p.name = o
        <3>1. [name |-> o, summary |-> cluster[o].summary] \in Range(new) BY <1>7, <1>8, <2>3
        <3> QED BY <3>1
    <2>4. UNCHANGED <<cluster, touched>> /\ "pods" \in Past' BY <1>2, <1>4
    <2> QED BY <1>1, <1>6, <1>7, <2>1, <2>2, <2>3, <2>4 DEF PodsInv, Listed, Is, Steady
<1>14. Range(pods) = {} /\ DOMAIN statuses = {}
    <2>1. pods = <<>> BY <1>3 DEF IInv, PodsInv
    <2>2. Range(pods) = {} BY <2>1 DEF Range
    <2> QED BY <2>2 DEF IInv, StatusesInv
<1>15. StatusesInv' BY <1>1, <1>3, <1>14 DEF StatusesInv
<1>16. NotesInv'
    <2>1. ~Claims /\ ~Claims' BY <1>1, <1>14 DEF Claims
    <2>2. "pods" \notin Recorded BY KindFacts DEF Recorded, Related
    <2>3. unknown = Past' \cap Recorded \cap access.refused BY <1>2, <2>1, <2>2 DEF IInv, NotesInv
    <2>4. notes = (Past' \cap {"usage"} \cap access.refused) \cup (Past' \cap {"NetworkPolicies"} \cap access.failing)
        BY <1>2 DEF IInv, NotesInv
    <2> QED BY <1>1, <1>4, <2>1, <2>3, <2>4 DEF NotesInv
<1>17. ChosenInv' BY <1>1, <1>4, SameChosen DEF IInv
<1> QED BY <1>2, <1>9, <1>10, <1>11, <1>12, <1>13, <1>15, <1>16, <1>17 DEF IInv

LEMMA ReadStatusesInv == IInv /\ ReadStatuses => IInv'
<1> SUFFICES ASSUME IInv, ReadStatuses PROVE IInv' OBVIOUS
<1> DEFINE T == {p \in Range(LooksInto) : p.name \notin DOMAIN statuses}
           left == Those(LooksInto, T)
           claims == {"PersistentVolumeClaims"} \cap access.refused
           n == left[1].name
           now == ContainerStatuses(cluster[n].statuses)
<1>1. todo # <<>> /\ Head(todo) = "statuses" BY DEF ReadStatuses, Reads
<1>2. LooksInto \in Seq(Listed) /\ Range(LooksInto) \subseteq Range(pods)
    <2>1. pods \in Seq(Listed) /\ listed \in Seq(Entries) BY DEF IInv, PodsInv, EntriesInv, Listed
    <2> QED BY <2>1, LooksIntoFacts
<1>3. left \in Seq(Listed) /\ Range(left) = T
    <2>1. Range(LooksInto) \cap T = T OBVIOUS
    <2> HIDE DEF T
    <2> QED BY <1>2, <2>1, ThoseLemma
<1>4. \/ left = <<>> /\ Done /\ UNCHANGED <<world, read, unknown, notes>>
      \/ UNCHANGED <<world, todo, read, unknown, notes>>
      \/ /\ left # <<>> /\ Is(n)
         /\ statuses' = [m \in DOMAIN statuses \cup {n} |-> IF m = n THEN now ELSE statuses[m]]
         /\ unknown' = unknown \cup (IF Unscheduled(left[1].summary, now) THEN claims ELSE {})
         /\ UNCHANGED <<world, kind, listed, rsOwner, pods, todo, notes>>
    BY DEF ReadStatuses, Ends
<1>5. CASE left = <<>> /\ Done /\ UNCHANGED <<world, read, unknown, notes>>
    <2>1. PlanInv' /\ Past' = Past \cup {"statuses"} BY <1>1, <1>5, DoneStep DEF IInv, world, read
    <2>2. ClusterInv' BY <1>5, SameCluster DEF IInv, world
    <2>3. EntriesInv' BY <1>5, <2>1, SameEntries DEF IInv, world, read
    <2>4. ListedInv'
        <3>1. "statuses" \notin Range(Listing) BY KindFacts
        <3> QED BY <1>5, <2>1, <3>1, SameListed DEF IInv, world, read
    <2>5. OwnersInv' BY <1>5, <2>1, SameOwners DEF IInv, read
    <2>6. PodsInv' BY <1>5, <2>1, SamePods DEF IInv, world, read
    <2>7. StatusesInv'
        <3>1. LooksInto' = LooksInto BY <1>5 DEF LooksInto, Group, Ownerless, Asked, world, read
        <3>2. T = {} BY <1>3, <1>5, RangeOfNone
        <3>3. \A p \in Range(LooksInto) : p.name \in DOMAIN statuses BY <3>2
        <3>4. UNCHANGED <<statuses, pods, cluster, touched>> BY <1>5 DEF world, read
        <3> QED BY <3>1, <3>3, <3>4 DEF IInv, StatusesInv, Is
    <2>8. NotesInv'
        <3>1. Claims' = Claims BY <1>5, SameClaims DEF read
        <3>2. "statuses" \notin Recorded BY KindFacts DEF Recorded, Related
        <3>3. unknown = (Past' \cap Recorded \cap access.refused) \cup (IF Claims THEN claims ELSE {})
            BY <2>1, <3>2 DEF IInv, NotesInv
        <3>4. notes = (Past' \cap {"usage"} \cap access.refused) \cup (Past' \cap {"NetworkPolicies"} \cap access.failing)
            BY <2>1 DEF IInv, NotesInv
        <3> QED BY <1>5, <3>1, <3>3, <3>4 DEF NotesInv, world
    <2>9. ChosenInv' BY <1>5, SameChosen DEF IInv, world, read
    <2> QED BY <2>1, <2>2, <2>3, <2>4, <2>5, <2>6, <2>7, <2>8, <2>9 DEF IInv
<1>6. CASE UNCHANGED <<world, todo, read, unknown, notes>> BY <1>6, StayInv
<1>7. CASE /\ left # <<>> /\ Is(n)
           /\ statuses' = [m \in DOMAIN statuses \cup {n} |-> IF m = n THEN now ELSE statuses[m]]
           /\ unknown' = unknown \cup (IF Unscheduled(left[1].summary, now) THEN claims ELSE {})
           /\ UNCHANGED <<world, kind, listed, rsOwner, pods, todo, notes>>
    <2>1. UNCHANGED <<cluster, touched, request, access, kind, listed, rsOwner, pods, todo, notes>> BY <1>7 DEF world
    <2>2. PlanInv' /\ Past' = Past BY <2>1, StayStep DEF IInv
    <2>3. left[1] \in Range(pods) /\ n \notin DOMAIN statuses
        <3>1. left[1] \in T BY <1>3, <1>7, RangeOfNone
        <3> QED BY <1>2, <3>1
    <2>4. /\ DOMAIN statuses' = DOMAIN statuses \cup {n} /\ statuses'[n] = now
          /\ \A m \in DOMAIN statuses : statuses'[m] = statuses[m]
        <3> HIDE DEF left, now
        <3> QED BY <1>7, <2>3
    <2> DEFINE p0 == left[1]
    <2>5. p0 \in Range(pods) /\ p0.name = n BY <2>3
    <2> HIDE DEF left, now, T
    <2>6. ClusterInv' BY <2>1, SameCluster DEF IInv
    <2>7. EntriesInv' BY <2>1, <2>2, SameEntries DEF IInv
    <2>8. ListedInv' BY <1>7, <2>1, <2>2, SameListed DEF IInv
    <2>9. OwnersInv' BY <1>7, <2>1, <2>2, SameOwners DEF IInv
    <2>10. PodsInv' BY <2>1, <2>2, SamePods DEF IInv
    <2>11. StatusesInv'
        <3>1. LooksInto' = LooksInto BY <2>1 DEF LooksInto, Group, Ownerless, Asked
        <3>2. DOMAIN statuses' \subseteq {p.name : p \in Range(pods)} BY <2>4, <2>5 DEF IInv, StatusesInv
        <3>3. ASSUME NEW m \in DOMAIN statuses'
              PROVE  m \in touched \/ (Is(m) /\ statuses'[m] = ContainerStatuses(cluster[m].statuses))
            <4>1. CASE m = n BY <1>7, <2>4, <4>1 DEF now
            <4>2. CASE m # n BY <2>4, <3>3, <4>2 DEF IInv, StatusesInv
            <4> QED BY <4>1, <4>2
        <3> QED BY <2>1, <2>2, <2>4, <3>1, <3>2, <3>3 DEF IInv, StatusesInv, Is
    <2>12. Claims' <=> Claims \/ Unscheduled(p0.summary, now)
        <3>1. ASSUME NEW p \in Range(pods), p.name \in DOMAIN statuses', Unscheduled(p.summary, statuses'[p.name])
              PROVE  Claims \/ Unscheduled(p0.summary, now)
            <4>1. CASE p.name = n
                <5>1. p = p0 BY <2>5, <4>1 DEF IInv, PodsInv
                <5> QED BY <2>4, <3>1, <4>1, <5>1
            <4>2. CASE p.name # n
                <5>1. p.name \in DOMAIN statuses /\ statuses'[p.name] = statuses[p.name] BY <2>4, <3>1, <4>2
                <5> QED BY <3>1, <5>1 DEF Claims
            <4> QED BY <4>1, <4>2
        <3>2. ASSUME Claims PROVE Claims'
            <4>1. PICK p \in Range(pods) : p.name \in DOMAIN statuses /\ Unscheduled(p.summary, statuses[p.name])
                BY <3>2 DEF Claims
            <4>2. p.name \in DOMAIN statuses' /\ statuses'[p.name] = statuses[p.name] BY <2>4, <4>1
            <4> QED BY <2>1, <4>1, <4>2 DEF Claims
        <3>3. ASSUME Unscheduled(p0.summary, now) PROVE Claims'
            <4>1. p0.name \in DOMAIN statuses' /\ statuses'[p0.name] = now BY <2>4, <2>5
            <4>2. Unscheduled(p0.summary, statuses'[p0.name]) BY <3>3, <4>1
            <4> QED BY <2>1, <2>5, <4>1, <4>2 DEF Claims
        <3> QED BY <2>1, <3>1, <3>2, <3>3 DEF Claims
    <2>13. NotesInv'
        <3>1. unknown' = unknown \cup (IF Unscheduled(p0.summary, now) THEN claims ELSE {}) BY <1>7
        <3>2. unknown' = (Past \cap Recorded \cap access.refused) \cup (IF Claims' THEN claims ELSE {})
            BY <2>12, <3>1 DEF IInv, NotesInv
        <3> QED BY <2>1, <2>2, <3>2 DEF IInv, NotesInv
    <2>14. ChosenInv' BY <2>1, SameChosen DEF IInv
    <2> QED BY <2>2, <2>6, <2>7, <2>8, <2>9, <2>10, <2>11, <2>13, <2>14 DEF IInv
<1> QED BY <1>4, <1>5, <1>6, <1>7

LEMMA ChooseKindInv == IInv /\ ChooseKind => IInv'
<1> SUFFICES ASSUME IInv, ChooseKind PROVE IInv' OBVIOUS
<1> DEFINE found == {w.kind : w \in {w \in Range(listed) : w.name = request.name}}
<1>1. todo # <<>> /\ Head(todo) = "choose" BY DEF ChooseKind, Reads
<1>2. \/ UNCHANGED <<world, todo, read, unknown, notes>>
      \/ /\ \E k \in found : found = {k} /\ kind' = k /\ todo' = ReportReads(k)
         /\ listed' = <<>> /\ unknown' = {}
         /\ UNCHANGED <<world, rsOwner, pods, statuses, notes>>
    BY DEF ChooseKind, Ends
<1>3. CASE UNCHANGED <<world, todo, read, unknown, notes>> BY <1>3, StayInv
<1>4. ASSUME NEW k \in found, found = {k}, kind' = k, todo' = ReportReads(k), listed' = <<>>, unknown' = {},
             UNCHANGED <<world, rsOwner, pods, statuses, notes>>
      PROVE  IInv'
    <2>1. UNCHANGED <<cluster, touched, request, access>> BY <1>4 DEF world
    <2>2. \A e \in Range(listed) : e \in Entries BY RangeOfNone DEF IInv, EntriesInv
    <2>3. k \in Range(Kinds) BY <2>2 DEF Entries
    <2>4. PlanInv' /\ Past' = {} BY <1>1, <1>4, <2>1, <2>3, ChooseStep DEF IInv
    <2>5. Past = Range(Listing) /\ request.tool = "report" /\ kind = NoKind BY <1>1, HeadFacts DEF IInv
    <2>6. "pods" \notin Past /\ Past \cap {"usage", "NetworkPolicies", "ReplicaSets", "statuses"} = {} BY <2>5, KindFacts
    <2>7. pods = <<>> BY <2>6 DEF IInv, PodsInv
    <2>8. Range(pods) = {} /\ Range(listed') = {} BY <1>4, <2>7 DEF Range
    <2>9. DOMAIN statuses = {} BY <2>8 DEF IInv, StatusesInv
    <2>10. ClusterInv' BY <2>1, SameCluster DEF IInv
    <2>11. EntriesInv' BY <1>4, <2>8, EmptySeq DEF EntriesInv
    <2>12. ListedInv' BY <2>4 DEF ListedInv
    <2>13. OwnersInv' BY <1>4, <2>4 DEF IInv, OwnersInv
    <2>14. PodsInv' BY <1>4, <2>1, <2>4, <2>6, SamePods DEF IInv
    <2>15. StatusesInv' BY <1>4, <2>4, <2>9 DEF StatusesInv
    <2>16. NotesInv'
        <3>1. ~Claims' BY <1>4, <2>9 DEF Claims
        <3>2. notes = {} BY <2>6 DEF IInv, NotesInv
        <3> QED BY <1>4, <2>4, <3>1, <3>2 DEF NotesInv
    <2>17. ChosenInv'
        <3> SUFFICES ASSUME NEW w \in Range(Names.workloads), Steady(w), w[2] = request.name, w # <<k, request.name>>
                     PROVE  Plural[w[1]] \in access.refused
            BY <1>4, <2>1 DEF ChosenInv, Asked, Steady, Is
        <3>1. w = <<w[1], w[2]>> /\ w[1] \in Range(Kinds) BY NameFacts
        <3>2. w[1] # k BY <3>1
        <3>3. Plural[w[1]] \in Past BY <2>5, <3>1, KindFacts
        <3>4. ~IsListed(w)
            <4>1. ASSUME NEW e \in Range(listed), <<e.kind, e.name>> = w PROVE FALSE
                <5>1. e.kind = w[1] /\ e.name = w[2] BY <3>1, <4>1
                <5>2. e.kind \in found BY <5>1
                <5> QED BY <1>4, <3>2, <5>1, <5>2
            <4> QED BY <4>1 DEF IsListed
        <3>5. Plural[w[1]] \in unknown BY <3>3, <3>4 DEF IInv, ListedInv
        <3>6. ~Claims BY <2>9 DEF Claims
        <3> QED BY <3>5, <3>6 DEF IInv, NotesInv
    <2> QED BY <2>4, <2>10, <2>11, <2>12, <2>13, <2>14, <2>15, <2>16, <2>17 DEF IInv
<1> QED BY <1>2, <1>3, <1>4

\* An answer leaves all of it.
LEMMA ReadTemplatesInv == IInv /\ ReadTemplates => IInv'
<1> SUFFICES ASSUME IInv, ReadTemplates PROVE IInv' OBVIOUS
<1>1. todo # <<>> /\ Head(todo) = "templates" /\ Done /\ UNCHANGED <<world, read, unknown, notes>>
    BY DEF ReadTemplates, Reads
<1> QED BY <1>1, OwnStepInv

LEMMA NextInv == IInv /\ [Next]_vars => IInv'
<1> SUFFICES ASSUME IInv, [Next]_vars PROVE IInv' OBVIOUS
<1>1. CASE Change BY <1>1, ChangeInv
<1>2. CASE Refuse BY <1>2, RefuseInv
<1>3. CASE Note BY <1>3, NoteInv
<1>4. CASE Break BY <1>4, StayInv DEF Break, Ends
<1>5. CASE ReadRelated BY <1>5, ReadRelatedInv
<1>6. CASE \E k \in Range(Kinds) : ListWorkloads(k) BY <1>6, ListWorkloadsInv
<1>7. CASE ChooseKind BY <1>7, ChooseKindInv
<1>8. CASE Match BY <1>8, MatchInv
<1>9. CASE ReadReplicaSets BY <1>9, ReadReplicaSetsInv
<1>10. CASE ListPods BY <1>10, ListPodsInv
<1>11. CASE ReadStatuses BY <1>11, ReadStatusesInv
<1>12. CASE ReadFocus BY <1>12, ReadFocusInv
<1>13. CASE ReadHistory BY <1>13, ReadHistoryInv
<1>14. CASE Write BY <1>14, StayInv DEF Write, Ends
<1>15. CASE UNCHANGED vars BY <1>15, StayInv DEF vars
<1>16. CASE ReadTemplates BY <1>16, ReadTemplatesInv
<1> QED BY <1>1, <1>2, <1>3, <1>4, <1>5, <1>6, <1>7, <1>8, <1>9, <1>10, <1>11, <1>12, <1>13, <1>14, <1>15, <1>16 DEF Next

\* What a call has read so far is true of the cluster, as far as that stood still, and
\* what it was refused is noted, at every moment of it.
THEOREM ReadsTrue == Spec => []IInv
<1>1. Init => IInv BY InitInv
<1>2. IInv /\ [Next]_vars => IInv' BY NextInv
<1> QED BY <1>1, <1>2, PTL DEF Spec

-----------------------------------------------------------------------------
(* The answer.                                                             *)

\* How a call ends.
LEMMA Endings ==
    ASSUME [Next]_vars, answer' # answer
    PROVE  /\ answer = NoAnswer
           /\ UNCHANGED <<world, todo, read, unknown, notes>>
           /\ answer'.unknown = unknown /\ answer'.notes = notes
           /\ \/ answer'.outcome = "error"
              \/ /\ answer'.outcome = "noSuchName" /\ todo # <<>> /\ Head(todo) = "choose"
                 /\ \A e \in Range(listed) : e.name # request.name
              \/ /\ answer'.outcome = "ambiguous" /\ todo # <<>> /\ Head(todo) = "choose"
                 /\ Cardinality({w.kind : w \in {w \in Range(listed) : w.name = request.name}}) > 1
              \/ /\ answer'.outcome \in {"unknown", "notFound"} /\ todo # <<>> /\ Head(todo) = "match"
                 /\ ~IsListed(Asked)
                 /\ answer'.outcome = "unknown" <=> Plural[kind] \in unknown
              \/ answer'.outcome = "report" /\ answer'.lines = Lines /\ todo = <<>>
<1>0. Next BY DEF vars
<1>1. CASE Break BY <1>1 DEF Break, Meets, Ends
<1>2. CASE ChooseKind
    <2> DEFINE found == {w.kind : w \in {w \in Range(listed) : w.name = request.name}}
    <2>1. /\ todo # <<>> /\ Head(todo) = "choose" /\ answer = NoAnswer
          /\ \/ found = {} /\ Ends("noSuchName", {})
             \/ Cardinality(found) > 1 /\ Ends("ambiguous", {})
        BY <1>2 DEF ChooseKind, Reads
    <2>2. found = {} => \A e \in Range(listed) : e.name # request.name OBVIOUS
    <2> HIDE DEF found
    <2>3. CASE found = {} /\ Ends("noSuchName", {}) BY <2>1, <2>2, <2>3 DEF Ends
    <2>4. CASE Cardinality(found) > 1 /\ Ends("ambiguous", {}) BY <2>1, <2>4 DEF Ends, found
    <2> QED BY <2>1, <2>3, <2>4
<1>3. CASE Match
    <2>1. /\ todo # <<>> /\ Head(todo) = "match" /\ answer = NoAnswer /\ ~IsListed(Asked)
          /\ Ends(IF Plural[kind] \in unknown THEN "unknown" ELSE "notFound", {})
        BY <1>3 DEF Match, Reads
    <2> QED BY <2>1 DEF Ends
<1>4. CASE ReadStatuses BY <1>4 DEF ReadStatuses, Reads, Ends
<1>5. CASE ReadFocus BY <1>5 DEF ReadFocus, Reads, Ends
<1>6. CASE ReadHistory BY <1>6 DEF ReadHistory, Reads, Ends
<1>7. CASE Write BY <1>7 DEF Write, Ends
<1>8. ~(\/ Change \/ Refuse \/ Note \/ ReadRelated \/ ReadTemplates
       \/ (\E k \in Range(Kinds) : ListWorkloads(k)) \/ ReadReplicaSets \/ ListPods)
    BY DEF Change, Refuse, Note, ReadRelated, ReadTemplates, ListWorkloads, ReadReplicaSets, ListPods
<1> QED BY <1>0, <1>1, <1>2, <1>3, <1>4, <1>5, <1>6, <1>7, <1>8 DEF Next

\* After it, nothing changes.
LEMMA Answers ==
    ASSUME [Next]_vars, answer' = answer, answer' # NoAnswer
    PROVE  UNCHANGED vars
BY DEF vars, Next, Change, Refuse, Note, Break, ReadRelated, ListWorkloads, ChooseKind, Match, ReadReplicaSets,
       ListPods, ReadStatuses, ReadFocus, ReadHistory, ReadTemplates, Write, Reads, Meets

\* "Unknown is never none": what a report reads through _recorded, or of the usage, and
\* was refused is named in its notes, and nothing else is; not the histories by which
\* namespace_health dates changes (_recorded, _not_recorded_notes, _usage).
THEOREM Refusals == Spec => []RefusalsNamed
<1>1. Init => RefusalsNamed BY DEF Init, RefusalsNamed
<1>2. IInv /\ RefusalsNamed /\ [Next]_vars => RefusalsNamed'
    <2> SUFFICES ASSUME IInv, RefusalsNamed, [Next]_vars, answer' # NoAnswer PROVE RefusalsNamed' BY DEF RefusalsNamed
    <2>1. CASE answer' = answer
        <3>1. UNCHANGED vars BY <2>1, Answers
        <3> QED BY <3>1 DEF RefusalsNamed, Plan, vars, world, read
    <2>2. CASE answer' # answer
        <3>1. UNCHANGED <<world, todo, read, unknown, notes>> /\ answer'.unknown = unknown /\ answer'.notes = notes
            BY <2>2, Endings
        <3>2. UNCHANGED <<request, access, kind, pods, statuses>> BY <3>1 DEF world, read
        <3>3. "usage" \notin Recorded /\ "NetworkPolicies" \in Recorded BY KindFacts DEF Recorded, Related
        <3> DEFINE due == (Range(Plan) \cap access.refused) \cap (Recorded \cup {"usage"})
                   asked == IF Claims THEN {"PersistentVolumeClaims"} \cap access.refused ELSE {}
        <3>4. ASSUME answer'.outcome = "report"
              PROVE  /\ unknown = (due \ {"usage"}) \cup asked
                     /\ notes = (due \cap {"usage"}) \cup ({"NetworkPolicies"} \cap access.failing)
            <4>1. todo = <<>> BY <2>2, <3>4, Endings
            <4>2. Past = Range(Plan) BY <4>1, AllRead DEF IInv
            <4>3. /\ unknown = (Range(Plan) \cap Recorded \cap access.refused) \cup asked
                  /\ notes = (Range(Plan) \cap {"usage"} \cap access.refused)
                             \cup (Range(Plan) \cap {"NetworkPolicies"} \cap access.failing)
                BY <4>2 DEF IInv, NotesInv
            <4>4. "NetworkPolicies" \in Range(Plan) BY <4>2, PlanHas DEF IInv, PlanInv
            <4> QED BY <3>3, <4>3, <4>4
        <3>5. ASSUME answer'.outcome = "noSuchName" PROVE unknown = Range(Listing) \cap access.refused
            <4>1. todo # <<>> /\ Head(todo) = "choose" BY <2>2, <3>5, Endings
            <4>2. Past = Range(Listing) BY <4>1, HeadFacts DEF IInv
            <4>3. "pods" \notin Past BY <4>2, KindFacts
            <4>4. Range(pods) = {} BY <4>3 DEF IInv, PodsInv, Range
            <4>5. ~Claims BY <4>4 DEF Claims
            <4>6. Range(Listing) \subseteq Recorded BY DEF Recorded
            <4> QED BY <4>2, <4>5, <4>6 DEF IInv, NotesInv
        <3>6. Plan' = Plan /\ Claims' = Claims BY <3>2, SameClaims DEF Plan
        <3> HIDE DEF due, asked
        <3> QED BY <3>1, <3>2, <3>4, <3>5 DEF RefusalsNamed, Plan, Claims, due, asked
    <2> QED BY <2>1, <2>2
<1>3. IInv /\ [Next]_vars => IInv' BY NextInv
<1> QED BY <1>1, <1>2, <1>3, InitInv, PTL DEF Spec

\* workload_report never calls absent a workload that was there all along: not found,
\* it can be listed; unnamed, its kind is known; and of several of one name it tells
\* of one only if the kinds of the others are named unknown (_find_kind).
THEOREM NotFounds == Spec => []NotFoundHonest
<1>1. Init => NotFoundHonest BY DEF Init, NotFoundHonest
<1>2. IInv /\ NotFoundHonest /\ [Next]_vars => NotFoundHonest'
    <2> SUFFICES ASSUME IInv, NotFoundHonest, [Next]_vars, answer' # NoAnswer, request'.tool = "report"
                 PROVE  NotFoundHonest'
        BY DEF NotFoundHonest
    <2>1. CASE answer' = answer
        <3>1. UNCHANGED vars BY <2>1, Answers
        <3> QED BY <3>1 DEF NotFoundHonest, Steady, Is, Named, Asked, vars, world, read
    <2>2. CASE answer' # answer
        <3>1. UNCHANGED <<world, todo, read, unknown, notes>> /\ answer'.unknown = unknown BY <2>2, Endings
        <3>2. UNCHANGED <<request, access, kind, cluster, touched, unknown>> BY <3>1 DEF world, read
        <3> DEFINE same == {w \in Range(Names.workloads) : w[2] = request.name /\ Steady(w)}
        <3>3. ASSUME answer'.outcome \in {"unknown", "notFound"}
              PROVE  /\ answer'.outcome = "notFound" => Asked \notin same
                     /\ answer'.outcome = "unknown" => Plural[kind] \in access.refused
            <4>1. /\ todo # <<>> /\ Head(todo) = "match" /\ ~IsListed(Asked)
                  /\ answer'.outcome = "unknown" <=> Plural[kind] \in unknown
                BY <2>2, <3>3, Endings
            <4>2. Range(Listing) \subseteq Past BY <4>1, HeadFacts, KindFacts DEF IInv
            <4>3. ASSUME Asked \in same PROVE Plural[kind] \in unknown
                <5>1. Asked[1] = kind BY DEF Asked
                <5>2. Plural[kind] \in Past BY <4>2, <4>3, <5>1, NameFacts, KindFacts
                <5> QED BY <4>1, <4>3, <5>1, <5>2 DEF IInv, ListedInv
            <4>4. unknown \subseteq access.refused BY DEF IInv, NotesInv
            <4> QED BY <4>1, <4>3, <4>4
        <3>4. ASSUME answer'.outcome = "noSuchName", NEW w \in same PROVE Plural[w[1]] \in unknown
            <4>1. /\ todo # <<>> /\ Head(todo) = "choose" /\ \A e \in Range(listed) : e.name # request.name
                BY <2>2, <3>4, Endings
            <4>2. Past = Range(Listing) BY <4>1, HeadFacts DEF IInv
            <4>3. w = <<w[1], w[2]>> /\ Plural[w[1]] \in Past BY <4>2, NameFacts, KindFacts
            <4>4. ~IsListed(w) BY <4>1, <4>3 DEF IsListed
            <4> QED BY <4>3, <4>4 DEF IInv, ListedInv
        <3>5. ASSUME answer'.outcome = "report", request.kind = NoKind, NEW w \in same \ {Asked}
              PROVE  Plural[w[1]] \in unknown
            <4>1. todo = <<>> BY <2>2, <3>5, Endings
            <4>2. Past = Range(Plan) BY <4>1, AllRead DEF IInv
            <4>3. kind # NoKind /\ Range(Listing) \subseteq Past BY <3>2, <4>2, PlanHas DEF IInv, PlanInv
            <4>4. Plural[w[1]] \in access.refused BY <3>2, <3>5, <4>3 DEF IInv, ChosenInv
            <4>5. Plural[w[1]] \in Past \cap Recorded BY <4>3, NameFacts, KindFacts DEF Recorded
            <4> QED BY <4>4, <4>5 DEF IInv, NotesInv
        <3>6. ASSUME answer'.outcome = "ambiguous"
              PROVE  \E v, w \in Range(Names.workloads) :
                        v # w /\ v[2] = w[2] /\ (Is(v) \/ v \in touched) /\ (Is(w) \/ w \in touched)
            <4> DEFINE found == {w.kind : w \in {w \in Range(listed) : w.name = request.name}}
            <4>1. Cardinality(found) > 1 BY <2>2, <3>6, Endings
            <4>2. \E k, l \in found : k # l
                <5> HIDE DEF found
                <5>1. found # {} BY <4>1, FS_EmptySet
                <5>2. PICK k \in found : TRUE BY <5>1
                <5>3. found # {k} BY <4>1, FS_Singleton
                <5> QED BY <5>2, <5>3
            <4>3. PICK e \in Range(listed), f \in Range(listed) : e.kind # f.kind /\ e.name = f.name BY <4>2
            <4>4. \A x \in Range(listed) :
                    /\ <<x.kind, x.name>> \in Range(Names.workloads)
                    /\ Is(<<x.kind, x.name>>) \/ <<x.kind, x.name>> \in touched
                BY DEF IInv, EntriesInv
            <4> QED BY <4>3, <4>4
        <3>7. /\ same' = same /\ Asked' = Asked /\ \A o : Is(o)' = Is(o) BY <3>2 DEF Steady, Is, Asked
        <3> HIDE DEF same
        <3>8. NotFoundHonest' <=> (
                /\ answer'.outcome = "notFound" => Asked \notin same
                /\ answer'.outcome = "unknown" => Plural[kind] \in access.refused
                /\ answer'.outcome = "noSuchName" => \A w \in same : Plural[w[1]] \in unknown
                /\ answer'.outcome = "report" /\ request.kind = NoKind => \A w \in same \ {Asked} : Plural[w[1]] \in unknown
                /\ answer'.outcome = "ambiguous" =>
                    \E v, w \in Range(Names.workloads) :
                        v # w /\ v[2] = w[2] /\ (Is(v) \/ v \in touched) /\ (Is(w) \/ w \in touched))
            BY <3>1, <3>2 DEF NotFoundHonest, Named, Asked, Steady, Is, same
        <3> QED BY <3>3, <3>4, <3>5, <3>6, <3>8
    <2> QED BY <2>1, <2>2
<1>3. IInv /\ [Next]_vars => IInv' BY NextInv
<1> QED BY <1>1, <1>2, <1>3, InitInv, PTL DEF Spec

-----------------------------------------------------------------------------
(* Which line a pod is in.                                                 *)

Counted(p) == GroupOf(p.name, p.summary, rsOwner, listed)

\* What a pod counts for: its ReplicaSet's Deployment, its owner, what its name could
\* come from if its owner isn't recorded, or itself.
LEMMA CountedFor ==
    ASSUME NEW p, listed \in Seq(Entries)
    PROVE  LET o == p.summary.owner IN
           \/ /\ o[1] = "ReplicaSet" /\ o[2] \in DOMAIN rsOwner /\ rsOwner[o[2]] # NoOwner
              /\ Counted(p) = rsOwner[o[2]]
           \/ o[1] \in Range(Kinds) /\ Counted(p) = o
           \/ /\ o = NotRecorded
              /\ \E r \in DOMAIN rsOwner : /\ rsOwner[r] # NoOwner /\ <<"ReplicaSet", r>> \in Resembles[p.name]
                                           /\ Counted(p) = rsOwner[r]
           \/ /\ o = NotRecorded
              /\ \E e \in Range(listed) : /\ <<e.kind, e.name>> \in Resembles[p.name]
                                          /\ Counted(p) = <<e.kind, e.name>>
           \/ /\ Counted(p) = p.name /\ o[1] \notin Range(Kinds)
              /\ o[1] = "ReplicaSet" /\ o[2] \in DOMAIN rsOwner => rsOwner[o[2]] = NoOwner
<1> DEFINE o == p.summary.owner
           like(k) == Those(listed, {w \in Range(listed) : w.kind = k /\ <<k, w.name>> \in Resembles[p.name]})
           others == (like("StatefulSet") \o like("Job")) \o like("DaemonSet")
           rss == {r \in DOMAIN rsOwner : rsOwner[r] # NoOwner /\ <<"ReplicaSet", r>> \in Resembles[p.name]}
           match == MatchByName(p.name, rsOwner, listed)
<1>1. /\ o[1] = "ReplicaSet" /\ o[2] \in DOMAIN rsOwner /\ rsOwner[o[2]] # NoOwner => Counted(p) = rsOwner[o[2]]
      /\ ~(o[1] = "ReplicaSet" /\ o[2] \in DOMAIN rsOwner /\ rsOwner[o[2]] # NoOwner) =>
            Counted(p) = IF o[1] \in Range(Kinds) THEN o ELSE IF o = NotRecorded THEN match ELSE p.name
    <2> HIDE DEF match
    <2> QED BY DEF Counted, GroupOf, match
<1>2. \/ rss # {} /\ match = rsOwner[CHOOSE r \in rss : TRUE]
      \/ rss = {} /\ others # <<>> /\ match = <<others[1].kind, others[1].name>>
      \/ match = p.name
    <2> HIDE DEF like
    <2> QED BY DEF MatchByName, like
<1>3. \A k : like(k) \in Seq(Entries) /\ Range(like(k)) \subseteq {w \in Range(listed) : w.kind = k /\ <<k, w.name>> \in Resembles[p.name]}
    BY ThoseLemma
<1>4. others \in Seq(Entries) /\ Range(others) = (Range(like("StatefulSet")) \cup Range(like("Job"))) \cup Range(like("DaemonSet"))
    <2> DEFINE a == like("StatefulSet")
               b == like("Job")
               c == like("DaemonSet")
    <2>1. a \in Seq(Entries) /\ b \in Seq(Entries) /\ c \in Seq(Entries) BY <1>3
    <2> HIDE DEF a, b, c
    <2> DEFINE ab == a \o b
    <2>2. ab \in Seq(Entries) /\ Range(ab) = Range(a) \cup Range(b) BY <2>1, ConcatProperties, RangeConcatenation
    <2> HIDE DEF ab
    <2>3. ab \o c \in Seq(Entries) /\ Range(ab \o c) = Range(ab) \cup Range(c)
        BY <2>1, <2>2, ConcatProperties, RangeConcatenation
    <2> QED BY <2>2, <2>3 DEF ab, a, b, c
<1>5. others # <<>> => \E e \in Range(listed) : e = others[1] /\ <<e.kind, e.name>> \in Resembles[p.name]
    <2>1. \A w \in Range(others) : w \in Range(listed) /\ <<w.kind, w.name>> \in Resembles[p.name] BY <1>3, <1>4
    <2> HIDE DEF others
    <2> QED BY <1>4, <2>1, RangeOfNone
<1>6. rss # {} => (CHOOSE r \in rss : TRUE) \in rss OBVIOUS
<1> HIDE DEF others, match, like
<1>7. CASE o[1] = "ReplicaSet" /\ o[2] \in DOMAIN rsOwner /\ rsOwner[o[2]] # NoOwner BY <1>1, <1>7
<1>8. CASE ~(o[1] = "ReplicaSet" /\ o[2] \in DOMAIN rsOwner /\ rsOwner[o[2]] # NoOwner)
    <2>1. CASE o[1] \in Range(Kinds) BY <1>1, <1>8, <2>1
    <2>2. CASE o[1] \notin Range(Kinds) /\ o = NotRecorded
        <3>1. Counted(p) = match BY <1>1, <1>8, <2>2
        <3>2. CASE rss # {} /\ match = rsOwner[CHOOSE r \in rss : TRUE] BY <1>6, <2>2, <3>1, <3>2
        <3>3. CASE rss = {} /\ others # <<>> /\ match = <<others[1].kind, others[1].name>> BY <1>5, <2>2, <3>1, <3>3
        <3>4. CASE match = p.name BY <1>8, <2>2, <3>1, <3>4
        <3> QED BY <1>2, <3>2, <3>3, <3>4
    <2>3. CASE o[1] \notin Range(Kinds) /\ o # NotRecorded BY <1>1, <1>8, <2>3
    <2> QED BY <2>1, <2>2, <2>3
<1> QED BY <1>7, <1>8

\* So what a pod that stood still counts for is a workload there at some time or other,
\* that it is of; or itself, if it is of none that could be known.
LEMMA CountedWell ==
    ASSUME IInv, NEW p \in Range(pods), p.name \notin touched
    PROVE  \/ Counted(p) \in Whose(p.name) /\ Counted(p) \in Range(Names.workloads)
           \/ /\ Counted(p) = p.name
              /\ \/ p.summary.owner = NotRecorded
                 \/ rsOwner # ReplicaSets
                 \/ Whose(p.name) \cap Range(Names.workloads) = {}
<1> DEFINE o == p.summary.owner
           up(x) == IF x[1] = "ReplicaSet" /\ x[2] \in DOMAIN ReplicaSets THEN ReplicaSets[x[2]] ELSE x
<1>1. /\ p.name \in Range(Names.pods) /\ Is(p.name) /\ p.summary = cluster[p.name].summary
      /\ p.name[1] = "Pod"
    BY NameFacts DEF IInv, PodsInv
<1>2. o[1] \in Range(Kinds) => o \in Range(Names.workloads)
    BY <1>1 DEF IInv, ClusterInv, Proper
<1>3. Whose(p.name) = {up(x) : x \in IF o = NotRecorded THEN Resembles[p.name] ELSE {o}}
    BY <1>1 DEF Whose
<1>4. \A r \in DOMAIN rsOwner :
        /\ rsOwner = ReplicaSets
        /\ rsOwner[r] # NoOwner => rsOwner[r] \in Range(Names.workloads)
        /\ up(<<"ReplicaSet", r>>) = rsOwner[r]
    <2>1. rsOwner = <<>> \/ rsOwner = ReplicaSets BY DEF IInv, OwnersInv
    <2>2. DOMAIN <<>> = {} OBVIOUS
    <2> QED BY <2>1, <2>2, NamesAssumption
<1>5. \A x : x[1] \in Range(Kinds) => up(x) = x BY KindFacts
<1>6. NotRecorded[1] \notin Range(Kinds) /\ NotRecorded[1] # "ReplicaSet" BY KindFacts DEF NotRecorded
<1>7. NoOwner \notin Range(Names.workloads)
    <2>1. NoOwner[1] \notin Range(Kinds) BY KindFacts DEF NoOwner
    <2> QED BY <2>1, NameFacts
<1>8. CASE /\ o[1] = "ReplicaSet" /\ o[2] \in DOMAIN rsOwner /\ rsOwner[o[2]] # NoOwner
           /\ Counted(p) = rsOwner[o[2]]
    <2>1. up(o) = rsOwner[o[2]] /\ o # NotRecorded BY <1>4, <1>6, <1>8
    <2> QED BY <1>3, <1>4, <1>8, <2>1
<1>9. CASE o[1] \in Range(Kinds) /\ Counted(p) = o
    <2>1. up(o) = o /\ o # NotRecorded BY <1>5, <1>6, <1>9
    <2> QED BY <1>2, <1>3, <1>9, <2>1
<1>10. CASE /\ o = NotRecorded
            /\ \E r \in DOMAIN rsOwner : /\ rsOwner[r] # NoOwner /\ <<"ReplicaSet", r>> \in Resembles[p.name]
                                         /\ Counted(p) = rsOwner[r]
    <2>1. PICK r \in DOMAIN rsOwner : /\ rsOwner[r] # NoOwner /\ <<"ReplicaSet", r>> \in Resembles[p.name]
                                      /\ Counted(p) = rsOwner[r]
        BY <1>10
    <2>2. up(<<"ReplicaSet", r>>) \in Whose(p.name) BY <1>3, <1>10, <2>1
    <2> QED BY <1>4, <2>1, <2>2
<1>11. CASE /\ o = NotRecorded
            /\ \E e \in Range(listed) : /\ <<e.kind, e.name>> \in Resembles[p.name]
                                        /\ Counted(p) = <<e.kind, e.name>>
    <2>1. PICK e \in Range(listed) : <<e.kind, e.name>> \in Resembles[p.name] /\ Counted(p) = <<e.kind, e.name>>
        BY <1>11
    <2>2. <<e.kind, e.name>> \in Range(Names.workloads) BY DEF IInv, EntriesInv
    <2>3. up(<<e.kind, e.name>>) = <<e.kind, e.name>> BY <1>5, <2>2, NameFacts
    <2>4. up(<<e.kind, e.name>>) \in Whose(p.name) BY <1>3, <1>11, <2>1
    <2> QED BY <2>1, <2>2, <2>3, <2>4
<1>12. CASE /\ Counted(p) = p.name /\ o[1] \notin Range(Kinds)
            /\ o[1] = "ReplicaSet" /\ o[2] \in DOMAIN rsOwner => rsOwner[o[2]] = NoOwner
    <2>1. CASE o = NotRecorded \/ rsOwner # ReplicaSets BY <1>12, <2>1
    <2>2. CASE o # NotRecorded /\ rsOwner = ReplicaSets
        <3>2. Whose(p.name) = {up(o)} BY <1>3, <2>2
        <3>3. up(o) = NoOwner \/ up(o) = o BY <1>12, <2>2
        <3>4. o \notin Range(Names.workloads) BY <1>12, NameFacts
        <3> QED BY <1>7, <1>12, <3>2, <3>3, <3>4
    <2> QED BY <2>1, <2>2
<1>13. listed \in Seq(Entries) BY DEF IInv, EntriesInv
<1> HIDE DEF up
<1> QED BY <1>8, <1>9, <1>10, <1>11, <1>12, <1>13, CountedFor

WorkloadLine(e) == LineOf(<<e.kind, e.name>>, e.is, Group(<<e.kind, e.name>>))
PodLine(p) == LineOf(p.name, Alone(p), <<p>>)

\* The lines of namespace_health, and which pods each is of.
LEMMA LineFacts ==
    ASSUME IInv, request.tool = "health"
    PROVE  /\ Lines = {WorkloadLine(e) : e \in Range(listed)}
                      \cup {PodLine(p) : p \in {p \in Range(pods) : Counted(p)[1] = "Pod"}}
           /\ \A e : /\ WorkloadLine(e).label = <<e.kind, e.name>>
                     /\ WorkloadLine(e).pods = {p.name : p \in {p \in Range(pods) : Counted(p) = <<e.kind, e.name>>}}
           /\ \A p : PodLine(p).label = p.name /\ PodLine(p).pods = {p.name}
<1>1. pods \in Seq(Listed) BY DEF IInv, PodsInv, Listed
<1>2. Range(Ownerless) = {p \in Range(pods) : Counted(p)[1] = "Pod"} BY <1>1, OwnerlessFacts DEF Counted
<1>3. Lines = {WorkloadLine(e) : e \in Range(listed)} \cup {PodLine(p) : p \in Range(Ownerless)}
    BY DEF Lines, WorkloadLine, PodLine
<1>4. ASSUME NEW e
      PROVE  /\ WorkloadLine(e).label = <<e.kind, e.name>>
             /\ WorkloadLine(e).pods = {p.name : p \in {p \in Range(pods) : Counted(p) = <<e.kind, e.name>>}}
    <2>1. Range(Group(<<e.kind, e.name>>)) = {p \in Range(pods) : Counted(p) = <<e.kind, e.name>>}
        BY <1>1, GroupFacts DEF Counted
    <2>2. WorkloadLine(e).label = <<e.kind, e.name>> BY DEF WorkloadLine, LineOf
    <2>3. WorkloadLine(e).pods = {p.name : p \in Range(Group(<<e.kind, e.name>>))} BY DEF WorkloadLine, LineOf
    <2> QED BY <2>1, <2>2, <2>3
<1>5. ASSUME NEW p PROVE PodLine(p).label = p.name /\ PodLine(p).pods = {p.name}
    <2>1. Range(<<p>>) = {p} BY DEF Range
    <2>2. PodLine(p).label = p.name /\ PodLine(p).pods = {q.name : q \in Range(<<p>>)} BY DEF PodLine, LineOf
    <2> QED BY <2>1, <2>2
<1> QED BY <1>2, <1>3, <1>4, <1>5

LEMMA AtMostOne ==
    ASSUME NEW S, \A x, y \in S : x = y
    PROVE  Cardinality(S) <= 1 /\ (S # {} => Cardinality(S) = 1)
<1>1. CASE S = {} BY <1>1, FS_EmptySet
<1>2. CASE S # {}
    <2>1. PICK x \in S : TRUE BY <1>2
    <2>2. S = {x} BY <2>1
    <2> QED BY <1>2, <2>2, FS_Singleton
<1> QED BY <1>1, <1>2

\* What a call that ends with a report has read.
LEMMA HealthRead ==
    ASSUME IInv, todo = <<>>, request.tool = "health"
    PROVE  {"ReplicaSets", "pods", "statuses"} \cup Range(Listing) \subseteq Past
<1>1. Past = Range(Plan) BY AllRead DEF IInv
<1> QED BY <1>1, PlanHas DEF IInv, PlanInv

\* Each workload there all along has a line, or its kind is named.
LEMMA WorkloadsAccounted ==
    ASSUME IInv, todo = <<>>, request.tool = "health", NEW w \in Range(Names.workloads), Steady(w)
    PROVE  Plural[w[1]] \in unknown \/ Cardinality({l \in Lines : l.label = w}) = 1
<1> DEFINE its == {l \in Lines : l.label = w}
<1>1. Plural[w[1]] \in Past BY HealthRead, NameFacts, KindFacts
<1>2. Plural[w[1]] \in unknown \/ IsListed(w) BY <1>1 DEF IInv, ListedInv
<1>3. ASSUME IsListed(w) PROVE its # {}
    <2>1. PICK e \in Range(listed) : <<e.kind, e.name>> = w BY <1>3 DEF IsListed
    <2>2. WorkloadLine(e) \in Lines /\ WorkloadLine(e).label = w BY <2>1, LineFacts
    <2> QED BY <2>2
<1>4. \A l \in its : \E e \in Range(listed) : <<e.kind, e.name>> = w /\ l = WorkloadLine(e)
    <2> SUFFICES ASSUME NEW l \in its PROVE \E e \in Range(listed) : <<e.kind, e.name>> = w /\ l = WorkloadLine(e)
        OBVIOUS
    <2>1. CASE \E e \in Range(listed) : l = WorkloadLine(e) BY <2>1, LineFacts
    <2>2. CASE \E p \in Range(pods) : l = PodLine(p)
        <3>1. PICK p \in Range(pods) : l = PodLine(p) BY <2>2
        <3>2. l.label = p.name BY <3>1, LineFacts
        <3>3. p.name \in Range(Names.pods) BY DEF IInv, PodsInv
        <3> QED BY <3>2, <3>3, NameFacts
    <2>3. l \in {WorkloadLine(e) : e \in Range(listed)} \cup {PodLine(p) : p \in {p \in Range(pods) : Counted(p)[1] = "Pod"}}
        BY LineFacts
    <2> QED BY <2>1, <2>2, <2>3
<1>5. \A e, f \in Range(listed) : e.kind = f.kind /\ e.name = f.name => e = f BY DEF IInv, EntriesInv
<1> HIDE DEF its
<1>6. \A l, m \in its : l = m
    <2> TAKE l \in its, m \in its
    <2>1. PICK e \in Range(listed) : <<e.kind, e.name>> = w /\ l = WorkloadLine(e) BY <1>4
    <2>2. PICK f \in Range(listed) : <<f.kind, f.name>> = w /\ m = WorkloadLine(f) BY <1>4
    <2> QED BY <1>5, <2>1, <2>2
<1>7. its # {} => Cardinality(its) = 1 BY <1>6, AtMostOne
<1> QED BY <1>2, <1>3, <1>7 DEF its

\* Each pod there all along is in the line of what it counts for, and in no other.
LEMMA PodsAccounted ==
    ASSUME IInv, todo = <<>>, request.tool = "health", NEW p \in Range(Names.pods), Steady(p)
    PROVE  LET lines == {l \in Lines : p \in l.pods} IN
           /\ Cardinality(lines) <= 1
           /\ lines = {} => \E w \in Whose(p) : w \in Range(Names.workloads) /\ (Plural[w[1]] \in unknown \/ ~Steady(w))
           /\ \A l \in lines : l.label \notin Whose(p) /\ Whose(p) \cap Range(Names.workloads) # {} =>
                "ReplicaSets" \in unknown \/ cluster[p].summary.owner = NotRecorded
<1> DEFINE lines == {l \in Lines : p \in l.pods}
<1>1. PICK q \in Range(pods) : q.name = p
    <2>1. "pods" \in Past BY HealthRead
    <2> QED BY <2>1 DEF IInv, PodsInv
<1>2. \A r \in Range(pods) : r.name = p => r = q BY <1>1 DEF IInv, PodsInv
<1>3. p \notin touched /\ q.summary = cluster[p].summary /\ p[1] = "Pod"
    BY <1>1, NameFacts DEF Steady, IInv, PodsInv
<1>4. \A e \in Range(listed) : <<e.kind, e.name>> \in Range(Names.workloads) /\ e.kind # "Pod"
    <2>1. \A e \in Range(listed) : <<e.kind, e.name>> \in Range(Names.workloads) BY DEF IInv, EntriesInv
    <2>2. \A e : <<e.kind, e.name>>[1] = e.kind OBVIOUS
    <2>3. \A e \in Range(listed) : e.kind \in Range(Kinds) BY <2>1, <2>2, NameFacts
    <2> QED BY <2>1, <2>3, KindFacts
<1>5. \A l \in lines : \/ \E e \in Range(listed) : l = WorkloadLine(e) /\ Counted(q) = <<e.kind, e.name>>
                       \/ l = PodLine(q) /\ Counted(q)[1] = "Pod"
    <2> TAKE l \in lines
    <2>1. ASSUME NEW e \in Range(listed), l = WorkloadLine(e) PROVE Counted(q) = <<e.kind, e.name>>
        <3>1. p \in {r.name : r \in {r \in Range(pods) : Counted(r) = <<e.kind, e.name>>}} BY <2>1, LineFacts
        <3> QED BY <1>2, <3>1
    <2>2. ASSUME NEW r \in Range(pods), Counted(r)[1] = "Pod", l = PodLine(r) PROVE r = q
        <3>1. r.name = p BY <2>2, LineFacts
        <3> QED BY <1>2, <3>1
    <2>3. l \in {WorkloadLine(e) : e \in Range(listed)} \cup {PodLine(r) : r \in {r \in Range(pods) : Counted(r)[1] = "Pod"}}
        BY LineFacts
    <2> QED BY <2>1, <2>2, <2>3
<1>6. \A e \in Range(listed) : Counted(q) = <<e.kind, e.name>> => WorkloadLine(e) \in lines
    <2> TAKE e \in Range(listed)
    <2>1. WorkloadLine(e) \in Lines BY LineFacts
    <2>2. Counted(q) = <<e.kind, e.name>> => p \in WorkloadLine(e).pods BY <1>1, LineFacts
    <2> QED BY <2>1, <2>2
<1>7. Counted(q)[1] = "Pod" => PodLine(q) \in lines
    <2>1. Counted(q)[1] = "Pod" => PodLine(q) \in Lines BY LineFacts
    <2>2. p \in PodLine(q).pods BY <1>1, LineFacts
    <2> QED BY <2>1, <2>2
<1> HIDE DEF lines
<1>8. \A l, m \in lines : l = m
    <2>1. \A e, f \in Range(listed) : e.kind = f.kind /\ e.name = f.name => e = f BY DEF IInv, EntriesInv
    <2> QED BY <1>4, <1>5, <2>1
<1>9. Cardinality(lines) <= 1 BY <1>8, AtMostOne
<1>10. \/ Counted(q) \in Whose(p) /\ Counted(q) \in Range(Names.workloads)
       \/ /\ Counted(q) = p
          /\ \/ q.summary.owner = NotRecorded
             \/ rsOwner # ReplicaSets
             \/ Whose(p) \cap Range(Names.workloads) = {}
    BY <1>1, <1>3, CountedWell
<1>11. ASSUME lines = {}
       PROVE  \E w \in Whose(p) : w \in Range(Names.workloads) /\ (Plural[w[1]] \in unknown \/ ~Steady(w))
    <2>1. Counted(q) \in Whose(p) /\ Counted(q) \in Range(Names.workloads) BY <1>3, <1>7, <1>10, <1>11
    <2>2. ~IsListed(Counted(q)) BY <1>6, <1>11 DEF IsListed
    <2>3. Plural[Counted(q)[1]] \in Past BY <2>1, HealthRead, NameFacts, KindFacts
    <2>4. Steady(Counted(q)) => Plural[Counted(q)[1]] \in unknown BY <2>1, <2>2, <2>3 DEF IInv, ListedInv
    <2> QED BY <2>1, <2>4
<1>12. ASSUME NEW l \in lines, l.label \notin Whose(p), Whose(p) \cap Range(Names.workloads) # {}
       PROVE  "ReplicaSets" \in unknown \/ cluster[p].summary.owner = NotRecorded
    <2>1. l.label = Counted(q) \/ Counted(q)[1] = "Pod"
        <3>1. \A e : WorkloadLine(e).label = <<e.kind, e.name>> BY LineFacts
        <3> QED BY <1>5, <3>1
    <2>2. Counted(q) = p
        <3>1. Counted(q) \in Range(Names.workloads) => Counted(q)[1] # "Pod" BY NameFacts, KindFacts
        <3> QED BY <1>10, <1>12, <2>1, <3>1
    <2>3. q.summary.owner = NotRecorded \/ rsOwner # ReplicaSets
        <3>1. p \notin Range(Names.workloads) BY NameFacts
        <3> QED BY <1>10, <1>12, <2>2, <3>1
    <2>4. "ReplicaSets" \in Past BY HealthRead
    <2> QED BY <1>3, <2>3, <2>4 DEF IInv, OwnersInv
<1> QED BY <1>9, <1>11, <1>12 DEF lines

\* Nothing drops out of namespace_health between the workloads and the pods: each
\* workload there all along has a line, or its kind is named unknown; each such pod
\* is in one line and no other, or the workload it counts for has no line because
\* its kind is named or it came or went (_workloads, _pods_by_workload).
THEOREM AllAccounted == Spec => []NothingDropped
<1>1. Init => NothingDropped BY DEF Init, NothingDropped, Answered
<1>2. IInv /\ NothingDropped /\ [Next]_vars => NothingDropped'
    <2> SUFFICES ASSUME IInv, NothingDropped, [Next]_vars, Answered("health", "report")' PROVE NothingDropped'
        BY DEF NothingDropped
    <2>0. answer' # NoAnswer /\ request'.tool = "health" /\ answer'.outcome = "report" BY DEF Answered
    <2>1. CASE answer' = answer
        <3>1. UNCHANGED vars BY <2>0, <2>1, Answers
        <3>2. UNCHANGED <<cluster, touched, request, answer>> BY <3>1 DEF vars, world
        <3>3. \A p : Whose(p)' = Whose(p) /\ Steady(p)' = Steady(p) /\ Named(p)' = Named(p)
            BY <3>2 DEF Whose, Steady, Is, Named
        <3> QED BY <3>2, <3>3 DEF NothingDropped, Answered
    <2>2. CASE answer' # answer
        <3>1. /\ UNCHANGED <<world, todo, read, unknown, notes>> /\ answer'.unknown = unknown
              /\ answer'.lines = Lines /\ todo = <<>>
            BY <2>0, <2>2, Endings
        <3>2. UNCHANGED <<request, cluster, touched, unknown>> BY <3>1 DEF world, read
        <3>3. \A p : /\ Whose(p)' = Whose(p) /\ Steady(p)' = Steady(p)
                     /\ Named(p)' <=> Plural[p[1]] \in unknown
            BY <3>1, <3>2 DEF Whose, Steady, Is, Named
        <3>4. request.tool = "health" BY <2>0, <3>2
        <3>5. \A w \in Range(Names.workloads) : Steady(w)' =>
                Named(w)' \/ Cardinality({l \in answer'.lines : l.label = w}) = 1
            BY <3>1, <3>3, <3>4, WorkloadsAccounted
        <3>6. ASSUME NEW p \in Range(Names.pods), Steady(p)'
              PROVE  LET lines == {l \in answer'.lines : p \in l.pods} IN
                     /\ Cardinality(lines) <= 1
                     /\ lines = {} => \E w \in Whose(p)' : w \in Range(Names.workloads) /\ (Named(w)' \/ ~Steady(w)')
                     /\ \A l \in lines : l.label \notin Whose(p)' /\ Whose(p)' \cap Range(Names.workloads) # {} =>
                        "ReplicaSets" \in answer'.unknown \/ cluster'[p].summary.owner = NotRecorded
            <4> DEFINE lines == {l \in Lines : p \in l.pods}
            <4>1. /\ Cardinality(lines) <= 1
                  /\ lines = {} => \E w \in Whose(p) : w \in Range(Names.workloads) /\ (Plural[w[1]] \in unknown \/ ~Steady(w))
                  /\ \A l \in lines : l.label \notin Whose(p) /\ Whose(p) \cap Range(Names.workloads) # {} =>
                        "ReplicaSets" \in unknown \/ cluster[p].summary.owner = NotRecorded
                <5>1. Steady(p) BY <3>3, <3>6
                <5> QED BY <3>1, <3>4, <5>1, PodsAccounted
            <4>2. lines = {l \in answer'.lines : p \in l.pods} BY <3>1
            <4> HIDE DEF lines
            <4> QED BY <3>1, <3>2, <3>3, <4>1, <4>2
        <3> QED BY <3>5, <3>6 DEF NothingDropped
    <2> QED BY <2>1, <2>2
<1>3. IInv /\ [Next]_vars => IInv' BY NextInv
<1> QED BY <1>1, <1>2, <1>3, InitInv, PTL DEF Spec

-----------------------------------------------------------------------------
(* What is in trouble.                                                     *)

\* A status as get_pod_container_statuses returns it: a native sidecar is an app
\* container.
AsApp(c) == IF c.init /\ c.sidecar THEN [c EXCEPT !.init = FALSE] ELSE c

LEMMA AsAppFacts ==
    ASSUME NEW c \in Containers
    PROVE  /\ AsApp(c) \in Containers
           /\ AsApp(c).init <=> c.init /\ ~c.sidecar
           /\ AsApp(c).state = c.state /\ AsApp(c).exit = c.exit /\ AsApp(c).ended = c.ended
BY DEF AsApp, Containers

LEMMA ContainerFacts ==
    ASSUME NEW st \in Seq(Containers)
    PROVE  /\ ContainerStatuses(st) \in Seq(Containers)
           /\ Range(ContainerStatuses(st)) = {AsApp(c) : c \in Range(st)}
           /\ ContainerStatuses(st) = <<>> <=> st = <<>>
<1> DEFINE A == {c \in Range(st) : ~c.init}
           B == {c \in Range(st) : c.init /\ c.sidecar}
           C == {c \in Range(st) : c.init /\ ~c.sidecar}
           sidecars == Those(st, B)
           b == [i \in DOMAIN sidecars |-> [sidecars[i] EXCEPT !.init = FALSE]]
<1>1. \A T : Those(st, T) \in Seq(Containers) /\ Range(Those(st, T)) = Range(st) \cap T BY ThoseLemma
<1>2. Range(st) \cap A = A /\ Range(st) \cap B = B /\ Range(st) \cap C = C OBVIOUS
<1>3. Range(st) \subseteq Containers BY RangeOfNone
<1>4. b \in Seq(Containers) /\ Range(b) = {[c EXCEPT !.init = FALSE] : c \in B}
    <2>1. sidecars \in Seq(Containers) /\ Range(sidecars) = B BY <1>1, <1>2
    <2> HIDE DEF sidecars
    <2>2. \A i \in DOMAIN sidecars : sidecars[i] \in Containers BY <2>1, LenProperties
    <2>3. b \in [DOMAIN sidecars -> Containers]
        <3>1. \A c \in Containers : [c EXCEPT !.init = FALSE] \in Containers BY DEF Containers
        <3> QED BY <2>2, <3>1
    <2>4. b \in Seq(Containers) /\ Range(b) = {b[i] : i \in DOMAIN sidecars}
        <3> HIDE DEF b
        <3> QED BY <2>1, <2>3, MappedLemma
    <2>5. {b[i] : i \in DOMAIN sidecars} = {[c EXCEPT !.init = FALSE] : c \in Range(sidecars)} BY DEF Range
    <2> QED BY <2>1, <2>4, <2>5
<1> DEFINE a == Those(st, A)
           d == Those(st, C)
           ab == a \o b
<1>5. a \in Seq(Containers) /\ Range(a) = A /\ d \in Seq(Containers) /\ Range(d) = C BY <1>1, <1>2
<1>6. ContainerStatuses(st) = ab \o d BY DEF ContainerStatuses
<1> HIDE DEF a, b, d
<1>7. ab \in Seq(Containers) /\ Range(ab) = A \cup Range(b)
    BY <1>4, <1>5, ConcatProperties, RangeConcatenation
<1> HIDE DEF ab
<1>8. ab \o d \in Seq(Containers) /\ Range(ab \o d) = Range(ab) \cup C
    BY <1>5, <1>7, ConcatProperties, RangeConcatenation
<1>9. Range(ContainerStatuses(st)) = {AsApp(c) : c \in Range(st)}
    <2>1. Range(ContainerStatuses(st)) = (A \cup {[c EXCEPT !.init = FALSE] : c \in B}) \cup C BY <1>4, <1>6, <1>7, <1>8
    <2>2. \A c \in A \cup C : AsApp(c) = c BY DEF AsApp
    <2>3. \A c \in B : AsApp(c) = [c EXCEPT !.init = FALSE] BY DEF AsApp
    <2>4. Range(st) = (A \cup B) \cup C OBVIOUS
    <2> HIDE DEF A, B, C
    <2>5. {[c EXCEPT !.init = FALSE] : c \in B} = {AsApp(c) : c \in B} BY <2>3
    <2>6. A = {AsApp(c) : c \in A} /\ C = {AsApp(c) : c \in C} BY <2>2
    <2>7. Range(ContainerStatuses(st)) = ({AsApp(c) : c \in A} \cup {AsApp(c) : c \in B}) \cup {AsApp(c) : c \in C}
        BY <2>1, <2>5, <2>6
    <2> QED BY <2>4, <2>7
<1>10. ContainerStatuses(st) = <<>> <=> st = <<>>
    <2>1. st = <<>> <=> Range(st) = {} BY RangeOfNone
    <2>2. ContainerStatuses(st) = <<>> <=> Range(ContainerStatuses(st)) = {} BY <1>6, <1>8, RangeOfNone
    <2> QED BY <1>9, <2>1, <2>2
<1> QED BY <1>6, <1>8, <1>9, <1>10

\* A pod waits, or shows a container, as the statuses in the cluster say.
HeldBack(st) ==
    \E c \in Range(st) :
        IF c.init /\ ~c.sidecar THEN c.state # "terminated" \/ c.exit # 0 ELSE c.state = "waiting"

LEMMA WaitingFacts ==
    ASSUME NEW st \in Seq(Containers)
    PROVE  /\ Waiting(ContainerStatuses(st)) <=> HeldBack(st)
           /\ Shown(ContainerStatuses(st)) \in Seq(Containers)
           /\ Range(Shown(ContainerStatuses(st))) =
                {AsApp(c) : c \in {c \in Range(st) : (c.init => c.sidecar) \/ ~InitCompleted(c)}}
<1> DEFINE now == ContainerStatuses(st)
<1>1. now \in Seq(Containers) /\ Range(now) = {AsApp(c) : c \in Range(st)} BY ContainerFacts
<1>2. \A c \in Range(st) : /\ AsApp(c).init <=> c.init /\ ~c.sidecar
                           /\ AsApp(c).state = c.state /\ AsApp(c).exit = c.exit
    <2>1. Range(st) \subseteq Containers BY RangeOfNone
    <2> QED BY <2>1, AsAppFacts
<1> HIDE DEF now
<1>3. \A T : Those(now, T) \in Seq(Containers) /\ Range(Those(now, T)) = Range(now) \cap T BY <1>1, ThoseLemma
<1>4. Held(now) # <<>> <=> \E c \in Range(now) : c.init /\ ~InitCompleted(c)
    <2>1. Held(now) \in Seq(Containers) /\ Range(Held(now)) = {c \in Range(now) : c.init /\ ~InitCompleted(c)}
        BY <1>3 DEF Held
    <2>2. Held(now) # <<>> <=> Range(Held(now)) # {} BY <2>1, RangeOfNone
    <2> QED BY <2>1, <2>2
<1>5. (\E c \in Range(now) : c.init /\ ~InitCompleted(c))
        <=> \E c \in Range(st) : c.init /\ ~c.sidecar /\ (c.state # "terminated" \/ c.exit # 0)
    BY <1>1, <1>2 DEF InitCompleted
<1>6. (\E c \in Range(now) : ~c.init /\ c.state = "waiting")
        <=> \E c \in Range(st) : ~(c.init /\ ~c.sidecar) /\ c.state = "waiting"
    BY <1>1, <1>2
<1>7. Waiting(now) <=> HeldBack(st) BY <1>4, <1>5, <1>6 DEF Waiting, HeldBack
<1>8. Shown(now) \in Seq(Containers) /\ Range(Shown(now)) = {c \in Range(now) : ~c.init \/ ~InitCompleted(c)}
    BY <1>3 DEF Shown
<1>9. {c \in Range(now) : ~c.init \/ ~InitCompleted(c)}
        = {AsApp(c) : c \in {c \in Range(st) : (c.init => c.sidecar) \/ ~InitCompleted(c)}}
    <2>1. \A c \in Range(st) : (~AsApp(c).init \/ ~InitCompleted(AsApp(c)))
                                <=> ((c.init => c.sidecar) \/ ~InitCompleted(c))
        BY <1>2 DEF InitCompleted
    <2> QED BY <1>1, <2>1
<1> QED BY <1>7, <1>8, <1>9 DEF now

\* The latest of some containers is one whose time is known, and none is later.
LEMMA LatestFacts ==
    ASSUME NEW cs \in Seq(Containers)
    PROVE  \/ Latest(cs) = NoAge /\ \A c \in Range(cs) : c.ended = NoAge
           \/ /\ Latest(cs) # NoAge /\ Latest(cs) \in Range(cs) /\ Latest(cs).ended # NoAge
              /\ \A c \in Range(cs) : c.ended # NoAge => Latest(cs).ended <= c.ended
<1> DEFINE T == {c \in Range(cs) : c.ended # NoAge}
           ended == Those(cs, T)
           newest == {i \in DOMAIN ended : \A j \in DOMAIN ended : ended[i].ended <= ended[j].ended}
<1>1. ended \in Seq(Containers) /\ Range(ended) = T
    <2>1. Range(cs) \cap T = T OBVIOUS
    <2> HIDE DEF T
    <2> QED BY <2>1, ThoseLemma
<1>2. Latest(cs) = IF ended = <<>> THEN NoAge ELSE ended[Min(newest)] BY DEF Latest
<1>3. ended = <<>> <=> T = {} BY <1>1, RangeOfNone
<1>4. ASSUME T # {}
      PROVE  /\ Latest(cs) # NoAge /\ Latest(cs) \in T
             /\ \A c \in T : Latest(cs).ended <= c.ended
    <2>1. \A c \in T : c.ended \in Nat
        <3>1. Range(cs) \subseteq Containers BY RangeOfNone
        <3> QED BY <3>1 DEF Containers
    <2>2. Len(ended) \in Nat /\ DOMAIN ended = 1 .. Len(ended) BY <1>1, LenProperties
    <2>3. \A i \in DOMAIN ended : ended[i] \in T BY <1>1, RangeOfNone
    <2>4. \A c \in T : \E i \in DOMAIN ended : ended[i] = c BY <1>1 DEF Range
    <2> HIDE DEF T, ended
    <2>5. PICK n \in {c.ended : c \in T} : \A m \in {c.ended : c \in T} : n <= m
        <3>1. {c.ended : c \in T} \in SUBSET Nat /\ {c.ended : c \in T} # {} BY <1>4, <2>1
        <3> QED BY <3>1, LeastNumber
    <2>6. newest # {} /\ newest \in SUBSET Nat
        <3>1. PICK c \in T : c.ended = n BY <2>5
        <3>2. PICK i \in DOMAIN ended : ended[i] = c BY <2>4
        <3>3. i \in newest BY <2>3, <2>5, <3>1, <3>2
        <3> QED BY <2>2, <3>3
    <2>7. Min(newest) \in newest
        <3> HIDE DEF newest
        <3> QED BY <2>6, MinIsLeast
    <2>8. Latest(cs) = ended[Min(newest)] BY <1>2, <1>3, <1>4
    <2>9. Min(newest) \in DOMAIN ended /\ \A j \in DOMAIN ended : ended[Min(newest)].ended <= ended[j].ended BY <2>7
    <2>10. Latest(cs) \in T BY <2>3, <2>8, <2>9
    <2>11. \A c \in T : Latest(cs).ended <= c.ended BY <2>4, <2>8, <2>9
    <2>12. Latest(cs) # NoAge
        <3>1. T \subseteq Containers BY <1>1, RangeOfNone
        <3> QED BY <2>10, <3>1, StatesAssumption
    <2> QED BY <2>10, <2>11, <2>12
<1>5. ASSUME T = {} PROVE Latest(cs) = NoAge BY <1>2, <1>3, <1>5
<1> QED BY <1>4, <1>5

\* The containers that a workload's pods show.
AllShown(of) == FlattenSeq([i \in DOMAIN of |-> Shown(of[i].statuses)])

LEMMA TroubleClass ==
    ASSUME NEW k, NEW ready \in Int, NEW desired \in Int, NEW failing \in BOOLEAN, NEW of
    PROVE  Assess(k, ready, desired, failing, of) = "trouble" <=>
            \/ ready < desired \/ failing
            \/ \E p \in Range(of) : Waiting(p.statuses)
            \/ k = "Job" /\ Latest(AllShown(of)) # NoAge /\ Latest(AllShown(of)).exit # 0
            \/ \E p \in Range(of) : Unscheduled(p.summary, p.statuses)
<1> DEFINE shown == AllShown(of)
           restart == Latest(Those(shown, {c \in Range(shown) : c.state # "terminated"}))
           failedJob == k = "Job" /\ Latest(shown) # NoAge /\ Latest(shown).exit # 0
           unscheduled == \E p \in Range(of) : Unscheduled(p.summary, p.statuses)
           waiting == \E p \in Range(of) : Waiting(p.statuses)
           recent == restart # NoAge /\ restart.ended <= Window
<1>1. Assess(k, ready, desired, failing, of) =
        IF ready < desired \/ waiting \/ failedJob \/ unscheduled \/ failing THEN "trouble"
        ELSE IF recent THEN "recovering" ELSE "healthy"
    BY DEF Assess, AllShown
<1> HIDE DEF failedJob, unscheduled, waiting, recent
<1>2. Assess(k, ready, desired, failing, of) = "trouble"
        <=> ready < desired \/ waiting \/ failedJob \/ unscheduled \/ failing
    BY <1>1
<1> QED BY <1>2 DEF failedJob, unscheduled, waiting

\* The pods of a workload of which nothing changed: those listed that count for it are
\* those that are of it, with the statuses that the cluster has.
LEMMA ItsPods ==
    ASSUME IInv, todo = <<>>, request.tool = "health", "ReplicaSets" \notin access.refused,
           NEW e \in Range(listed), NEW w, w = <<e.kind, e.name>>,
           touched \cap (Its(w) \cup {p.name : p \in Range(Group(w))}) = {},
           \A p \in Its(w) : cluster[p].summary.owner # NotRecorded
    PROVE  /\ {p.name : p \in Range(Group(w))} = Its(w)
           /\ \A p \in Range(Group(w)) :
                /\ p.summary = cluster[p.name].summary
                /\ statuses[p.name] = ContainerStatuses(cluster[p.name].statuses)
<1>1. pods \in Seq(Listed) /\ listed \in Seq(Entries) BY DEF IInv, PodsInv, EntriesInv, Listed
<1>2. Range(Group(w)) = {p \in Range(pods) : Counted(p) = w} BY <1>1, GroupFacts DEF Counted
<1>3. w \in Range(Names.workloads) BY DEF IInv, EntriesInv
<1>4. rsOwner = ReplicaSets
    <2>1. "ReplicaSets" \in Past BY HealthRead
    <2>2. "ReplicaSets" \notin unknown BY DEF IInv, NotesInv
    <2> QED BY <2>1, <2>2 DEF IInv, OwnersInv
<1>5. ASSUME NEW p \in Range(Group(w))
      PROVE  /\ p.name \in Its(w) /\ p.summary = cluster[p.name].summary
             /\ statuses[p.name] = ContainerStatuses(cluster[p.name].statuses)
    <2>1. p \in Range(pods) /\ Counted(p) = w /\ p.name \notin touched BY <1>2, <1>5
    <2>2. p.name \in Range(Names.pods) /\ Is(p.name) /\ p.summary = cluster[p.name].summary
        BY <2>1 DEF IInv, PodsInv
    <2>3. w \in Whose(p.name)
        <3>1. p.name \notin Range(Names.workloads) BY <2>2, NameFacts
        <3> QED BY <1>3, <2>1, <3>1, CountedWell
    <2>4. p \in Range(LooksInto) BY <1>1, <1>5, LooksIntoFacts
    <2>5. p.name \in DOMAIN statuses
        <3>1. "statuses" \in Past BY HealthRead
        <3> QED BY <2>4, <3>1 DEF IInv, StatusesInv
    <2> QED BY <2>1, <2>2, <2>3, <2>5 DEF IInv, StatusesInv, Its
<1>6. ASSUME NEW p \in Its(w) PROVE \E q \in Range(Group(w)) : q.name = p
    <2>1. p \in Range(Names.pods) /\ Is(p) /\ w \in Whose(p) /\ p \notin touched
          /\ cluster[p].summary.owner # NotRecorded
        BY <1>6 DEF Its
    <2>2. PICK q \in Range(pods) : q.name = p
        <3>1. "pods" \in Past BY HealthRead
        <3> QED BY <2>1, <3>1 DEF IInv, PodsInv, Steady
    <2>3. q.summary = cluster[p].summary BY <2>1, <2>2 DEF IInv, PodsInv
    <2>4. \A v \in Whose(p) : v = w BY <2>1 DEF Whose
    <2>5. Counted(q) \in Whose(p) BY <1>3, <1>4, <2>1, <2>2, <2>3, CountedWell
    <2> QED BY <1>2, <2>2, <2>4, <2>5
<1>7. {p.name : p \in Range(Group(w))} = Its(w) BY <1>5, <1>6
<1> QED BY <1>5, <1>7

\* What the workload's pods show of a container that terminated, and whether one waits.
LEMMA ItsContainers ==
    ASSUME IInv, NEW some \in Seq(Listed), NEW its \in SUBSET Range(Names.pods),
           {p.name : p \in Range(some)} = its, \A p \in its : Is(p),
           \A p \in Range(some) : /\ p.summary = cluster[p.name].summary
                                  /\ statuses[p.name] = ContainerStatuses(cluster[p.name].statuses)
    PROVE  LET of == WithStatuses(some) IN
           /\ (\E p \in Range(of) : Waiting(p.statuses)) <=> \E p \in its : HeldBack(cluster[p].statuses)
           /\ (\E p \in Range(of) : Unscheduled(p.summary, p.statuses))
                <=> \E p \in its : ~cluster[p].summary.node /\ cluster[p].statuses = <<>>
           /\ AllShown(of) \in Seq(Containers)
           /\ Range(AllShown(of)) =
                UNION {{AsApp(c) : c \in {c \in Range(cluster[p].statuses) : (c.init => c.sidecar) \/ ~InitCompleted(c)}}
                       : p \in its}
<1> DEFINE of == WithStatuses(some)
           st(n) == cluster[n].statuses
<1>1. Len(some) \in Nat /\ DOMAIN some = 1 .. Len(some) BY LenProperties
<1>2. \A p \in its : st(p) \in Seq(Containers) /\ Proper(cluster[p])
    <2>1. its \subseteq Objects BY DEF Objects
    <2>2. \A p \in its : cluster[p] \in PodStates BY <2>1, NameFacts DEF IInv, ClusterInv
    <2> QED BY <2>2 DEF IInv, ClusterInv, PodStates
<1>3. /\ DOMAIN of = DOMAIN some
      /\ \A i \in DOMAIN some : /\ some[i].name \in its /\ some[i] \in Range(some)
                                /\ of[i].summary = cluster[some[i].name].summary
                                /\ of[i].statuses = ContainerStatuses(st(some[i].name))
    <2>1. \A i \in DOMAIN some : some[i] \in Range(some) BY RangeOfNone
    <2> QED BY <2>1 DEF WithStatuses
<1>4. \A n \in its : \E i \in DOMAIN some : some[i].name = n BY DEF Range
<1> HIDE DEF of
<1>5. (\E p \in Range(of) : Waiting(p.statuses)) <=> \E p \in its : HeldBack(st(p))
    <2>1. \A i \in DOMAIN some : Waiting(of[i].statuses) <=> HeldBack(st(some[i].name)) BY <1>2, <1>3, WaitingFacts
    <2>2. (\E p \in Range(of) : Waiting(p.statuses)) <=> \E i \in DOMAIN some : Waiting(of[i].statuses)
        BY <1>3 DEF Range
    <2> HIDE DEF st
    <2> QED BY <1>3, <1>4, <2>1, <2>2
<1>6. (\E p \in Range(of) : Unscheduled(p.summary, p.statuses))
        <=> \E p \in its : ~cluster[p].summary.node /\ st(p) = <<>>
    <2>1. \A n \in its : Unscheduled(cluster[n].summary, ContainerStatuses(st(n)))
                            <=> ~cluster[n].summary.node /\ st(n) = <<>>
        BY <1>2, ContainerFacts DEF Unscheduled, Proper
    <2>2. (\E p \in Range(of) : Unscheduled(p.summary, p.statuses))
            <=> \E i \in DOMAIN some : Unscheduled(of[i].summary, of[i].statuses)
        BY <1>3 DEF Range
    <2> HIDE DEF st
    <2> QED BY <1>3, <1>4, <2>1, <2>2
<1> DEFINE ss == [i \in DOMAIN of |-> Shown(of[i].statuses)]
           shown(n) == {AsApp(c) : c \in {c \in Range(st(n)) : (c.init => c.sidecar) \/ ~InitCompleted(c)}}
<1>7. \A i \in DOMAIN some : ss[i] \in Seq(Containers) /\ Range(ss[i]) = shown(some[i].name)
    BY <1>2, <1>3, WaitingFacts
<1>8. ss \in Seq(Seq(Containers)) /\ Len(ss) = Len(some)
    <2>1. ss \in [DOMAIN some -> Seq(Containers)] BY <1>3, <1>7
    <2>2. DOMAIN ss = DOMAIN some BY <1>3
    <2> HIDE DEF ss
    <2>3. ss \in Seq(Seq(Containers)) BY <2>1, MappedLemma
    <2>4. DOMAIN ss = 1 .. Len(ss) /\ Len(ss) \in Nat BY <2>3, LenProperties
    <2> QED BY <1>1, <2>2, <2>3, <2>4
<1>9. AllShown(of) = FlattenSeq(ss) BY DEF AllShown
<1> HIDE DEF ss, shown, st
<1>10. AllShown(of) \in Seq(Containers) /\ Range(AllShown(of)) = UNION {Range(ss[i]) : i \in 1 .. Len(some)}
    BY <1>8, <1>9, FlattenLemma
<1>11. UNION {Range(ss[i]) : i \in 1 .. Len(some)} = UNION {shown(n) : n \in its}
    BY <1>1, <1>3, <1>4, <1>7
<1> QED BY <1>5, <1>6, <1>10, <1>11 DEF of, shown, st

\* A line of a workload that stood still, with its pods, is where TroubleShown says.
LEMMA LineInTrouble ==
    ASSUME IInv, todo = <<>>, request.tool = "health", "ReplicaSets" \notin access.refused,
           NEW l \in Lines, l.label \in Range(Names.workloads)
    PROVE  ShownTruly(l)
<1> DEFINE w == l.label
           its == {p \in Range(Names.pods) : Is(p) /\ w \in Whose(p)}
           all == UNION {Range(cluster[p].statuses) : p \in its}
           runs == {c \in all : c.ended # NoAge /\ (c.init => c.sidecar)}
           newest == {c \in runs : \A d \in runs : c.ended <= d.ended}
           failed == w[1] = "Job" /\ \E c \in newest : c.exit # 0
           podTrouble == \E p \in its : PodTrouble(p)
           trouble == cluster[w].ready < cluster[w].desired \/ cluster[w].failing \/ podTrouble
<1> SUFFICES ASSUME Steady(w), touched \cap (its \cup l.pods) = {},
                    \A p \in its : cluster[p].summary.owner # NotRecorded
             PROVE  /\ l.class = "trouble" => trouble \/ failed
                    /\ trouble \/ (failed /\ \A c \in newest : c.exit # 0) => l.class = "trouble"
    <2>1. its = Its(w) BY DEF Its
    <2> HIDE DEF its, w
    <2>2. newest = LastRuns(w) BY <2>1 DEF LastRuns
    <2>3. trouble <=> InTrouble(w) BY <2>1 DEF InTrouble
    <2> HIDE DEF newest, trouble
    <2> QED BY <2>1, <2>2, <2>3 DEF ShownTruly, w
<1>1. PICK e \in Range(listed) : l = WorkloadLine(e) /\ w = <<e.kind, e.name>>
    <2>1. CASE \E e \in Range(listed) : l = WorkloadLine(e) BY <2>1, LineFacts
    <2>2. CASE \E p \in Range(pods) : l = PodLine(p)
        <3>1. PICK p \in Range(pods) : l = PodLine(p) BY <2>2
        <3>2. l.label = p.name BY <3>1, LineFacts
        <3>3. p.name \in Range(Names.pods) BY DEF IInv, PodsInv
        <3> QED BY <3>2, <3>3, NameFacts
    <2>3. l \in {WorkloadLine(e) : e \in Range(listed)} \cup {PodLine(p) : p \in {p \in Range(pods) : Counted(p)[1] = "Pod"}}
        BY LineFacts
    <2> QED BY <2>1, <2>2, <2>3
<1> DEFINE some == Group(w)
           of == WithStatuses(some)
<1>2. /\ l.class = Assess(w[1], e.is.ready, e.is.desired, e.is.failing, of)
      /\ l.pods = {p.name : p \in Range(some)}
    BY <1>1 DEF WorkloadLine, LineOf
<1>3. e.is = cluster[w] /\ e.is \in WorkloadStates
    <2>1. e \in Entries /\ w \notin touched BY RangeOfNone DEF IInv, EntriesInv, Steady
    <2> QED BY <1>1, <2>1 DEF IInv, EntriesInv, Entries
<1>4. /\ {p.name : p \in Range(some)} = its
      /\ \A p \in Range(some) : /\ p.summary = cluster[p.name].summary
                                /\ statuses[p.name] = ContainerStatuses(cluster[p.name].statuses)
    <2>1. touched \cap (its \cup {p.name : p \in Range(some)}) = {} BY <1>2
    <2>2. its = Its(w) BY DEF Its
    <2>3. \A p \in its : cluster[p].summary.owner # NotRecorded OBVIOUS
    <2> HIDE DEF w, its
    <2> QED BY <1>1, <2>1, <2>2, <2>3, ItsPods
<1>5. some \in Seq(Listed) BY GroupFacts DEF IInv, PodsInv, Listed
<1>6. its \in SUBSET Range(Names.pods) /\ \A p \in its : Is(p) OBVIOUS
<1>7. all \subseteq Containers
    <2> SUFFICES ASSUME NEW p \in its PROVE Range(cluster[p].statuses) \subseteq Containers OBVIOUS
    <2>1. p \in Objects /\ StatesOf(p) = PodStates BY <1>6, NameFacts DEF Objects
    <2>2. cluster[p] \in PodStates BY <1>6, <2>1 DEF IInv, ClusterInv
    <2>3. cluster[p].statuses \in Seq(Containers) BY <2>2 DEF PodStates
    <2> QED BY <2>3, RangeOfNone
<1> DEFINE shown == AllShown(of)
           last == Latest(shown)
<1>8. /\ (\E p \in Range(of) : Waiting(p.statuses)) <=> \E p \in its : HeldBack(cluster[p].statuses)
      /\ (\E p \in Range(of) : Unscheduled(p.summary, p.statuses))
            <=> \E p \in its : ~cluster[p].summary.node /\ cluster[p].statuses = <<>>
      /\ shown \in Seq(Containers)
      /\ Range(shown) = UNION {{AsApp(c) : c \in {c \in Range(cluster[p].statuses) : (c.init => c.sidecar) \/ ~InitCompleted(c)}}
                               : p \in its}
    <2> HIDE DEF its, some, w
    <2> QED BY <1>4, <1>5, <1>6, ItsContainers
<1>9. Range(shown) = {AsApp(c) : c \in {c \in all : (c.init => c.sidecar) \/ ~InitCompleted(c)}}
    <2> HIDE DEF its, shown
    <2> QED BY <1>8
<1> DEFINE failedJob == w[1] = "Job" /\ last # NoAge /\ last.exit # 0
<1>10. l.class = "trouble" <=> cluster[w].ready < cluster[w].desired \/ cluster[w].failing \/ podTrouble \/ failedJob
    <2>1. podTrouble <=> (\E p \in its : ~cluster[p].summary.node /\ cluster[p].statuses = <<>>)
                         \/ (\E p \in its : HeldBack(cluster[p].statuses))
        <3> HIDE DEF its
        <3> QED BY DEF PodTrouble, HeldBack
    <2>2. /\ e.is.ready \in Int /\ e.is.desired \in Int /\ e.is.failing \in BOOLEAN BY <1>3 DEF WorkloadStates
    <2> HIDE DEF its, w, of, podTrouble
    <2>3. Assess(w[1], e.is.ready, e.is.desired, e.is.failing, of) = "trouble" <=>
            \/ e.is.ready < e.is.desired \/ e.is.failing
            \/ \E p \in Range(of) : Waiting(p.statuses)
            \/ failedJob
            \/ \E p \in Range(of) : Unscheduled(p.summary, p.statuses)
        BY <2>2, TroubleClass
    <2> HIDE DEF failedJob
    <2> QED BY <1>2, <1>3, <1>8, <2>1, <2>3
<1>11. \/ last = NoAge /\ \A c \in Range(shown) : c.ended = NoAge
       \/ /\ last # NoAge /\ last \in Range(shown) /\ last.ended # NoAge
          /\ \A c \in Range(shown) : c.ended # NoAge => last.ended <= c.ended
    <2> HIDE DEF shown
    <2> QED BY <1>8, LatestFacts
<1>12. \A c \in all : AsApp(c).ended = c.ended /\ AsApp(c).exit = c.exit BY <1>7, AsAppFacts
<1>13. \A c \in runs : AsApp(c) \in Range(shown) BY <1>9
<1>14. ASSUME ~podTrouble, last # NoAge PROVE \E c \in newest : c.exit = last.exit
    <2>1. \A c \in all : (c.init => c.sidecar) \/ InitCompleted(c)
        <3> SUFFICES ASSUME NEW p \in its, NEW c \in Range(cluster[p].statuses), c.init /\ ~c.sidecar PROVE InitCompleted(c)
            OBVIOUS
        <3>1. ~PodTrouble(p) BY <1>14
        <3> QED BY <3>1 DEF PodTrouble, InitCompleted
    <2>2. PICK c \in all : last = AsApp(c) /\ ((c.init => c.sidecar) \/ ~InitCompleted(c)) BY <1>9, <1>11, <1>14
    <2> HIDE DEF last, all, shown
    <2>3. c \in runs /\ c.exit = last.exit /\ c.ended = last.ended BY <1>11, <1>12, <1>14, <2>1, <2>2
    <2>4. \A d \in runs : last.ended <= d.ended BY <1>11, <1>12, <1>13, <1>14
    <2> QED BY <2>3, <2>4
<1>15. ASSUME ~podTrouble, failedJob PROVE failed BY <1>14, <1>15
<1>16. ASSUME ~podTrouble, failed, \A c \in newest : c.exit # 0 PROVE failedJob
    <2>1. PICK c \in newest : TRUE BY <1>16
    <2>2. last # NoAge
        <3>1. c \in runs /\ c.ended # NoAge BY <2>1
        <3>2. AsApp(c) \in Range(shown) /\ AsApp(c).ended # NoAge BY <1>12, <1>13, <3>1
        <3> HIDE DEF last, shown
        <3> QED BY <1>11, <3>2
    <2> QED BY <1>14, <1>16, <2>2
<1> HIDE DEF podTrouble, failed, failedJob, newest
<1> QED BY <1>10, <1>15, <1>16

\* Nothing that a line is judged by depends on more than the cluster and what changed.
LEMMA JudgedByCluster ==
    ASSUME UNCHANGED <<cluster, touched>>, NEW l
    PROVE  ShownTruly(l)' <=> ShownTruly(l)
<1> DEFINE w == l.label
<1>1. Steady(w)' <=> Steady(w) BY DEF Steady, Is
<1>3. Its(w)' = Its(w)
    <2>1. ASSUME NEW p PROVE (Is(p) /\ w \in Whose(p))' <=> Is(p) /\ w \in Whose(p) BY DEF Is, Whose
    <2>2. ASSUME NEW p \in Range(Names.pods) PROVE p \in Its(w)' <=> p \in Its(w) BY <2>1 DEF Its
    <2>3. Its(w)' \subseteq Range(Names.pods) /\ Its(w) \subseteq Range(Names.pods) BY DEF Its
    <2> QED BY <2>2, <2>3
<1>4. LastRuns(w)' = LastRuns(w)
    <2>1. UNION {Range(cluster'[p].statuses) : p \in Its(w)'} = UNION {Range(cluster[p].statuses) : p \in Its(w)} BY <1>3
    <2> QED BY <2>1 DEF LastRuns
<1>5. InTrouble(w)' <=> InTrouble(w)
    <2>1. ASSUME NEW p PROVE PodTrouble(p)' <=> PodTrouble(p) BY DEF PodTrouble
    <2>2. (\E p \in Its(w) : PodTrouble(p))' <=> \E p \in Its(w) : PodTrouble(p) BY <1>3, <2>1
    <2> QED BY <2>2 DEF InTrouble
<1> QED BY <1>1, <1>3, <1>4, <1>5 DEF ShownTruly

\* namespace_health puts a workload that stood still, with its pods, among those in
\* trouble exactly when it is: short of pods, unable to make progress, with a pod that
\* isn't scheduled or is held back, or a Job whose last run failed (assess).
THEOREM TroubleTold == Spec => []TroubleShown
<1>1. Init => TroubleShown BY DEF Init, TroubleShown, Answered
<1>2. IInv /\ TroubleShown /\ [Next]_vars => TroubleShown'
    <2> SUFFICES ASSUME IInv, TroubleShown, [Next]_vars, Answered("health", "report")', "ReplicaSets" \notin access'.refused,
                        NEW l \in answer'.lines, l.label \in Range(Names.workloads)
                 PROVE  ShownTruly(l)'
        BY DEF TroubleShown
    <2>0. answer' # NoAnswer /\ request'.tool = "health" /\ answer'.outcome = "report" BY DEF Answered
    <2>1. CASE answer' = answer
        <3>1. UNCHANGED vars BY <2>0, <2>1, Answers
        <3>2. UNCHANGED <<request, cluster, touched, access, answer>> BY <3>1 DEF vars, world
        <3>3. Answered("health", "report") /\ "ReplicaSets" \notin access.refused BY <2>0, <3>2 DEF Answered
        <3>4. ShownTruly(l) BY <3>2, <3>3 DEF TroubleShown
        <3> QED BY <3>2, <3>4, JudgedByCluster
    <2>2. CASE answer' # answer
        <3>1. UNCHANGED <<world, todo, read, unknown, notes>> /\ answer'.lines = Lines /\ todo = <<>>
            BY <2>0, <2>2, Endings
        <3>2. UNCHANGED <<request, cluster, touched, access>> BY <3>1 DEF world
        <3>3. request.tool = "health" /\ "ReplicaSets" \notin access.refused BY <2>0, <3>2
        <3>4. ShownTruly(l) BY <3>1, <3>3, LineInTrouble
        <3> QED BY <3>2, <3>4, JudgedByCluster
    <2> QED BY <2>1, <2>2
<1>3. IInv /\ [Next]_vars => IInv' BY NextInv
<1> QED BY <1>1, <1>2, <1>3, InitInv, PTL DEF Spec
=============================================================================
