--------------------------- MODULE CaptureProofs ----------------------------
(***************************************************************************)
(* Proofs about captures and their replay, for any namespaces, names and   *)
(* options.  The argument: the capture asks each question at most once     *)
(* (Fresh), so what the file holds for it can only come from that one      *)
(* reply (Recorded, Refusals).                                             *)
(***************************************************************************)
EXTENDS Replay, TLAPS

ClusterKeys == {"namespaces", "nodes", "metrics"}
NamespaceKeys == Keys \ ClusterKeys

-----------------------------------------------------------------------------
(* The inductive invariant.                                                *)

\* A list holds what the cluster answered, and only that.
Recorded ==
    \A k \in ListKeys, p \in Places, x \in Objects :
        <<p, x>> \in lists[k] <=> told[k][p] \notin {Unasked, Refused} /\ x \in told[k][p]

\* A refusal is recorded, or the key is one the file will not have; and
\* nothing else is.
Refusals ==
    /\ \A k \in Keys, p \in Places :
           told[k][p] = Refused =>
               <<k, p>> \in unreadable \/ k \in Unpulled \/ k \in missing
    /\ \A k \in Keys, p \in Places : <<k, p>> \in unreadable => told[k][p] = Refused
    /\ \A k \in Unpulled, p \in Places : told[k][p] \in {Unasked, Refused}
    /\ missing \subseteq {"metrics"} \cup Unpulled
    /\ "metrics" \in missing => told["metrics"][Cluster] = Refused
    /\ phase = "done" => Unpulled \subseteq missing /\ (version = "1" => unreadable = {})

\* Cluster-wide kinds are asked of the whole cluster, the others of a namespace.
Scoped ==
    \A k \in Keys, p \in Places :
        told[k][p] # Unasked => (p = Cluster <=> k \in ClusterKeys)

\* What is still to be read was never asked about.
Fresh ==
    /\ phase = "namespaces" => left = {} /\ told["namespaces"][Cluster] = Unasked
    /\ phase \in {"namespaces", "nodes"} =>
           told["nodes"][Cluster] = Unasked
           /\ \A k \in NamespaceKeys, p \in Places : told[k][p] = Unasked
    /\ phase \in {"namespaces", "nodes", "kinds", "metrics"} =>
           told["metrics"][Cluster] = Unasked /\ missing = {}
    /\ \A k \in NamespaceKeys, p \in left : told[k][p] = Unasked
    /\ phase = "kinds" =>
           /\ ns \notin left
           /\ \A i \in Position : i > at => told[KindOrder[i]][ns] = Unasked
           /\ key \notin {"workload_histories", "configmaps", "pods"} =>
                  told[key][ns] = Unasked

IInv == TypeOK /\ Recorded /\ Refusals /\ Scoped /\ Fresh

-----------------------------------------------------------------------------
(* The order of the kinds.                                                 *)

LEMMA KindOrderKeys ==
    /\ Len(KindOrder) = 16 /\ Position = 1 .. 16
    /\ \A i \in Position : KindOrder[i] \in NamespaceKeys
<1>1. Len(KindOrder) = 16 /\ Position = 1 .. 16
  BY DEF KindOrder, Position
<1>2. \A i \in Position : KindOrder[i] \in NamespaceKeys
  BY <1>1 DEF KindOrder, NamespaceKeys, Keys, ListKeys, ClusterKeys
<1> QED BY <1>1, <1>2

LEMMA KindOrderInjective ==
    \A i, j \in Position : KindOrder[i] = KindOrder[j] => i = j
BY KindOrderKeys DEF KindOrder

-----------------------------------------------------------------------------
(* How the capture is run never changes.                                   *)

LEMMA OptionsFacts ==
    ASSUME options \in Options
    PROVE  /\ Requested \subseteq Namespaces
           /\ Unpulled \subseteq ListKeys \ {"namespaces", "nodes", "pods", "metrics", "events"}
BY ConstantsAssumption DEF Requested, Unpulled, Required

LEMMA SameOptions ==
    ASSUME [Next]_vars
    PROVE  options' = options /\ Unpulled' = Unpulled
<1>1. options' = options
  <2>1. CASE Next
    BY <2>1 DEF Next, ReadNamespaces, ReadNodes, ReadKind, ReadHistory, ListConfigMaps,
         ReadConfigMap, ListPods, ReadPod, EndLoop, ReadMetrics, ReadDefinitions, ReadInstances,
         EndCustoms, Finish, Fail
  <2>2. CASE UNCHANGED vars
    BY <2>2 DEF vars
  <2> QED BY <2>1, <2>2
<1> QED BY <1>1 DEF Unpulled

-----------------------------------------------------------------------------
(* Types.                                                                  *)

LEMMA ReadType ==
    ASSUME TypeOK, NEW k \in ListKeys, NEW p \in Places,
           Answered(k, p) \/ RefusedRead(k, p) \/ UnpulledRead(k, p)
    PROVE  /\ lists' \in [ListKeys -> SUBSET (Places \X Objects)]
           /\ unreadable' \subseteq Keys \X Places
           /\ told' \in [Keys -> [Places -> (SUBSET Objects) \cup {Unasked, Refused}]]
<1> USE DEF TypeOK, Keys
<1>1. CASE Answered(k, p)
  <2>1. PICK found \in MayAnswer(k) :
            /\ told' = [told EXCEPT ![k][p] = found]
            /\ lists' = [lists EXCEPT ![k] = @ \cup ({p} \X found)]
            /\ unreadable' = unreadable
    BY <1>1 DEF Answered
  <2>2. found \in SUBSET Objects
    BY DEF MayAnswer, Objects
  <2> QED BY <2>1, <2>2
<1>2. CASE RefusedRead(k, p)
  BY <1>2 DEF RefusedRead
<1>3. CASE UnpulledRead(k, p)
  BY <1>3 DEF UnpulledRead
<1> QED BY <1>1, <1>2, <1>3

LEMMA AdvanceType ==
    ASSUME TypeOK, phase = "kinds", Advance
    PROVE  /\ phase' \in {"kinds", "metrics"} /\ left' \subseteq Namespaces
           /\ ns' \in Namespaces /\ at' \in Position /\ visited' = {}
BY KindOrderKeys DEF TypeOK, Advance, Places

LEMMA InstancesType ==
    ASSUME TypeOK, ReadInstances
    PROVE  /\ instances' \in [CustomTypes -> {Unasked, Refused} \cup SUBSET (Places \X Names)]
           /\ offered' \in [CustomTypes -> {Unasked, Refused} \cup SUBSET (Places \X Names)]
<1> USE DEF TypeOK
<1>1. PICK t \in TypesLeft :
        \/ \E items \in SUBSET (InstancePlaces(t) \X Names) :
              /\ offered' = [offered EXCEPT ![t] = items]
              /\ \E kept \in Kept(items) : instances' = [instances EXCEPT ![t] = kept]
        \/ /\ offered' = [offered EXCEPT ![t] = Refused]
           /\ instances' = [instances EXCEPT ![t] = IF Import THEN {} ELSE Refused]
  BY DEF ReadInstances
<1>2. t \in CustomTypes
  BY DEF TypesLeft
<1>3. CASE \E items \in SUBSET (InstancePlaces(t) \X Names) :
              /\ offered' = [offered EXCEPT ![t] = items]
              /\ \E kept \in Kept(items) : instances' = [instances EXCEPT ![t] = kept]
  <2>1. PICK items \in SUBSET (InstancePlaces(t) \X Names) :
              /\ offered' = [offered EXCEPT ![t] = items]
              /\ \E kept \in Kept(items) : instances' = [instances EXCEPT ![t] = kept]
    BY <1>3
  <2>4. PICK kept \in Kept(items) : instances' = [instances EXCEPT ![t] = kept]
    BY <2>1
  <2>2. InstancePlaces(t) \subseteq Places
    BY OptionsFacts DEF InstancePlaces, Places
  <2>3. items \in SUBSET (Places \X Names) /\ kept \in SUBSET (Places \X Names)
    <3>1. kept \subseteq items
      BY DEF Kept
    <3> QED BY <2>2, <3>1
  <2> QED BY <1>2, <2>1, <2>3, <2>4
<1>4. CASE /\ offered' = [offered EXCEPT ![t] = Refused]
           /\ instances' = [instances EXCEPT ![t] = IF Import THEN {} ELSE Refused]
  BY <1>2, <1>4
<1> QED BY <1>1, <1>3, <1>4

LEMMA CustomsType ==
    ASSUME TypeOK, [Next]_vars
    PROVE  /\ definitions' \in {Unasked, Refused, Unknown} \cup SUBSET CustomTypes
           /\ instances' \in [CustomTypes -> {Unasked, Refused} \cup SUBSET (Places \X Names)]
           /\ offered' \in [CustomTypes -> {Unasked, Refused} \cup SUBSET (Places \X Names)]
<1> USE DEF TypeOK
<1>1. CASE ReadDefinitions
  BY <1>1 DEF ReadDefinitions
<1>2. CASE ReadInstances
  <2>1. definitions' = definitions
    BY <1>2 DEF ReadInstances
  <2> QED BY <1>2, <2>1, InstancesType
<1>3. CASE Finish
  BY <1>3 DEF Finish, ImportedDefinitions, ImportedInstances
<1>4. CASE \/ ReadNamespaces \/ ReadNodes \/ ReadKind \/ ReadHistory \/ ListConfigMaps
           \/ ReadConfigMap \/ ListPods \/ ReadPod \/ EndLoop \/ ReadMetrics \/ EndCustoms
           \/ Fail \/ UNCHANGED vars
  <2>1. UNCHANGED customs
    BY <1>4 DEF ReadNamespaces, ReadNodes, ReadKind, ReadHistory, ListConfigMaps,
         ReadConfigMap, ListPods, ReadPod, EndLoop, ReadMetrics, EndCustoms, Fail, vars
  <2> QED BY <2>1 DEF customs
<1> QED BY <1>1, <1>2, <1>3, <1>4 DEF Next

\* Every step of the capture keeps the dictionary well-formed.
LEMMA TypeStep == TypeOK /\ [Next]_vars => TypeOK'
<1> SUFFICES ASSUME TypeOK, [Next]_vars PROVE TypeOK'
  OBVIOUS
<1> USE DEF TypeOK
<1>0. /\ Cluster \in Places /\ Namespaces \subseteq Places
      /\ Requested \subseteq Namespaces
      /\ {"namespaces", "nodes", "metrics"} \subseteq ListKeys
      /\ Unpulled \subseteq ListKeys /\ options' = options
  BY OptionsFacts, SameOptions DEF Places, ListKeys
<1>c. /\ definitions' \in {Unasked, Refused, Unknown} \cup SUBSET CustomTypes
      /\ instances' \in [CustomTypes -> {Unasked, Refused} \cup SUBSET (Places \X Names)]
      /\ offered' \in [CustomTypes -> {Unasked, Refused} \cup SUBSET (Places \X Names)]
  BY CustomsType
<1>1. CASE ReadNamespaces
  BY <1>0, <1>c, <1>1, ReadType DEF ReadNamespaces
<1>2. CASE ReadNodes
  BY <1>0, <1>c, <1>2, ReadType DEF ReadNodes, Read
<1>3. CASE ReadKind
  <2>1. key \in ListKeys
    BY <1>3, KindOrderKeys DEF ReadKind, key, NamespaceKeys, Keys
  <2> QED BY <1>0, <1>c, <1>3, <2>1, ReadType, AdvanceType DEF ReadKind, Read
<1>4. CASE ReadHistory
  <2>1. PICK w \in WorkloadsLeft :
          /\ visited' = visited \cup {w}
          /\ \/ /\ histories' = histories \cup {<<w[1], ns, w[2]>>}
                /\ UNCHANGED <<unreadable, told>>
             \/ /\ told' = [told EXCEPT ![key][ns] = Refused]
                /\ unreadable' = unreadable \cup {<<key, ns>>}
                /\ UNCHANGED histories
             \/ UNCHANGED <<histories, unreadable, told>>
    BY <1>4 DEF ReadHistory
  <2>2. w \in Workloads \X Names
    BY DEF WorkloadsLeft
  <2>3. key \in Keys /\ ns \in Namespaces
    BY <1>4 DEF ReadHistory, Keys
  <2>4. /\ visited' \subseteq Names \cup (Workloads \X Names)
        /\ histories' \subseteq Workloads \X Namespaces \X Names
    BY <1>0, <2>1, <2>2, <2>3
  <2>5. unreadable' \subseteq Keys \X Places
    BY <1>0, <2>1, <2>3
  <2>6. told' \in [Keys -> [Places -> (SUBSET Objects) \cup {Unasked, Refused}]]
    BY <1>0, <2>1, <2>3
  <2> QED BY <1>0, <1>c, <1>4, <2>4, <2>5, <2>6 DEF ReadHistory
<1>5. CASE ListConfigMaps
  <2>1. key \in ListKeys
    BY <1>5 DEF ListConfigMaps, ListKeys
  <2> QED BY <1>0, <1>c, <1>5, <2>1, ReadType DEF ListConfigMaps, Read, place
<1>6. CASE ReadConfigMap
  BY <1>0, <1>c, <1>6 DEF ReadConfigMap
<1>7. CASE ListPods
  <2>1. key \in ListKeys
    BY <1>7 DEF ListPods, ReadLabels, ListKeys
  <2> QED BY <1>0, <1>c, <1>7, <2>1, ReadType DEF ListPods, ReadLabels, place
<1>8. CASE ReadPod
  BY <1>0, <1>c, <1>8 DEF ReadPod
<1>9. CASE EndLoop
  BY <1>0, <1>c, <1>9, AdvanceType DEF EndLoop, file
<1>10. CASE ReadMetrics
  <2>1. CASE Answered("metrics", Cluster) /\ UNCHANGED missing
    BY <1>0, <1>c, <1>10, <2>1, ReadType DEF ReadMetrics
  <2>2. CASE told' = [told EXCEPT !["metrics"][Cluster] = Refused]
             /\ missing' = missing \cup {"metrics"} /\ UNCHANGED <<lists, unreadable>>
    BY <1>0, <1>c, <1>10, <2>2 DEF ReadMetrics, Keys
  <2> QED BY <1>10, <2>1, <2>2 DEF ReadMetrics
<1>11. CASE Finish
  BY <1>0, <1>c, <1>11 DEF Finish, KeptHistories
<1>12. CASE Fail
  BY <1>0, <1>c, <1>12 DEF Fail, file
<1>13. CASE UNCHANGED vars
  BY <1>0, <1>c, <1>13 DEF vars, place, file
<1>14. CASE ReadDefinitions \/ ReadInstances
  <2>1. UNCHANGED <<place, file, told>>
    BY <1>14 DEF ReadDefinitions, ReadInstances
  <2> QED BY <1>0, <1>c, <2>1 DEF place, file
<1>15. CASE EndCustoms
  BY <1>0, <1>c, <1>15 DEF EndCustoms, file
<1> QED
  BY <1>1, <1>2, <1>3, <1>4, <1>5, <1>6, <1>7, <1>8, <1>9, <1>10, <1>11, <1>12, <1>13,
     <1>14, <1>15
  DEF Next

LEMMA TypeInit == Init => TypeOK
BY ConstantsAssumption, KindOrderKeys
   DEF Init, TypeOK, Places, PodDetail, NoDetail, Keys, Position

\* Whatever the cluster answers, the capture's state is well-formed.
THEOREM TypeCorrect == Spec => []TypeOK
<1>1. Init => TypeOK
  BY TypeInit
<1>2. TypeOK /\ [Next]_vars => TypeOK'
  BY TypeStep
<1> QED BY <1>1, <1>2, PTL DEF Spec

-----------------------------------------------------------------------------
(* Each question is asked once.                                            *)

\* A first reading of a question records its answer or its refusal, and
\* touches nothing else that was asked.
LEMMA FirstReading ==
    ASSUME TypeOK, Recorded, Refusals, Scoped,
           NEW k \in ListKeys, NEW p \in Places,
           told[k][p] = Unasked, p = Cluster <=> k \in ClusterKeys,
           Answered(k, p) \/ RefusedRead(k, p) \/ UnpulledRead(k, p),
           missing' = missing, Unpulled' = Unpulled, phase' # "done"
    PROVE  /\ Recorded' /\ Refusals' /\ Scoped'
           /\ \A kk \in Keys, q \in Places :
                  kk # k \/ q # p => told'[kk][q] = told[kk][q]
<1> USE DEF TypeOK, Keys
<1>0. /\ \A S \in SUBSET Objects : S \notin {Unasked, Refused}
      /\ Unasked # Refused /\ "metrics" \notin Unpulled /\ Unpulled \subseteq Keys
  BY ConstantsAssumption, OptionsFacts
<1>1. PICK reply \in (SUBSET Objects) \cup {Refused} :
          /\ told' = [told EXCEPT ![k][p] = reply]
          /\ reply # Refused =>
                 /\ lists' = [lists EXCEPT ![k] = @ \cup ({p} \X reply)]
                 /\ unreadable' = unreadable /\ k \notin Unpulled
          /\ reply = Refused =>
                 /\ lists' = lists
                 /\ \/ unreadable' = unreadable \cup {<<k, p>>}
                    \/ k \in Unpulled /\ unreadable' = unreadable
  <2>1. CASE Answered(k, p)
    <3>1. PICK found \in MayAnswer(k) :
              /\ told' = [told EXCEPT ![k][p] = found]
              /\ lists' = [lists EXCEPT ![k] = @ \cup ({p} \X found)]
              /\ unreadable' = unreadable /\ k \notin Unpulled
      BY <2>1 DEF Answered
    <3>2. found \in SUBSET Objects /\ found # Refused
      BY <1>0 DEF MayAnswer, Objects
    <3> QED BY <3>1, <3>2
  <2>2. CASE RefusedRead(k, p)
    BY <2>2 DEF RefusedRead
  <2>3. CASE UnpulledRead(k, p)
    BY <2>3 DEF UnpulledRead
  <2> QED BY <2>1, <2>2, <2>3
<1>2. /\ told'[k][p] = reply /\ reply # Unasked
      /\ \A kk \in Keys, q \in Places :
             kk # k \/ q # p => told'[kk][q] = told[kk][q]
  <2>1. told' = [told EXCEPT ![k][p] = reply]
    BY <1>1
  <2>2. reply # Unasked
    BY <1>0
  <2> QED BY <2>1, <2>2
<1>3. Recorded'
  <2> SUFFICES ASSUME NEW kk \in ListKeys, NEW q \in Places, NEW x \in Objects
               PROVE  <<q, x>> \in lists'[kk]
                          <=> told'[kk][q] \notin {Unasked, Refused} /\ x \in told'[kk][q]
    BY DEF Recorded
  <2>1. CASE kk = k /\ q = p
    <3>1. <<p, x>> \notin lists[k]
      BY DEF Recorded
    <3>2. CASE reply = Refused
      BY <1>1, <1>2, <2>1, <3>1, <3>2
    <3>3. CASE reply # Refused
      BY <1>1, <1>2, <2>1, <3>1, <3>3
    <3> QED BY <3>2, <3>3
  <2>2. CASE kk # k \/ q # p
    <3>1. <<q, x>> \in lists'[kk] <=> <<q, x>> \in lists[kk]
      BY <1>1, <2>2
    <3> QED BY <1>2, <2>2, <3>1 DEF Recorded
  <2> QED BY <2>1, <2>2
<1>4. Refusals'
  <2>1. \A kk \in Keys, q \in Places :
            told'[kk][q] = Refused =>
                <<kk, q>> \in unreadable' \/ kk \in Unpulled \/ kk \in missing'
    BY <1>0, <1>1, <1>2 DEF Refusals
  <2>2. \A kk \in Keys, q \in Places : <<kk, q>> \in unreadable' => told'[kk][q] = Refused
    BY <1>0, <1>1, <1>2 DEF Refusals
  <2>3. \A kk \in Unpulled, q \in Places : told'[kk][q] \in {Unasked, Refused}
    BY <1>0, <1>1, <1>2 DEF Refusals
  <2>4. ASSUME "metrics" \in missing PROVE told'["metrics"][Cluster] = Refused
    <3>1. told["metrics"][Cluster] = Refused
      BY <2>4 DEF Refusals
    <3>2. "metrics" \in Keys /\ Cluster \in Places /\ Refused # Unasked
      BY <1>0 DEF ListKeys, Places
    <3> QED BY <1>2, <3>1, <3>2
  <2> QED BY <2>1, <2>2, <2>3, <2>4 DEF Refusals
<1>5. Scoped'
  BY <1>2 DEF Scoped
<1> QED BY <1>2, <1>3, <1>4, <1>5

\* Going on to the next kind or namespace leaves only unasked questions ahead.
LEMMA AdvanceFresh ==
    ASSUME TypeOK, Fresh, phase = "kinds", Advance, missing' = missing,
           \A k \in Keys, p \in Places : k # key \/ p # ns => told'[k][p] = told[k][p]
    PROVE  Fresh'
<1> USE DEF TypeOK, Fresh
<1>0. /\ Len(KindOrder) = 16 /\ Position = 1 .. 16
      /\ \A i \in Position : KindOrder[i] \in NamespaceKeys
      /\ key \in NamespaceKeys /\ NamespaceKeys \subseteq Keys
      /\ ClusterKeys \subseteq Keys /\ Namespaces \subseteq Places /\ Cluster \in Places
      /\ "metrics" \in ClusterKeys
  BY KindOrderKeys DEF key, NamespaceKeys, ClusterKeys, Keys, ListKeys, Places
<1>1. told'["metrics"][Cluster] = Unasked
  <2>1. "metrics" # key /\ "metrics" \in Keys
    BY <1>0 DEF NamespaceKeys
  <2> QED BY <1>0, <2>1
<1>2. \A k \in NamespaceKeys, p \in left : told'[k][p] = Unasked
  BY <1>0
<1>3. CASE at < Len(KindOrder) /\ at' = at + 1 /\ UNCHANGED <<phase, left, ns>>
  <2>1. \A k \in NamespaceKeys, p \in left' : told'[k][p] = Unasked
    BY <1>3, <1>2
  <2>2. \A i \in Position : i > at => told'[KindOrder[i]][ns] = Unasked
    <3> SUFFICES ASSUME NEW i \in Position, i > at
                 PROVE  told'[KindOrder[i]][ns] = Unasked
      OBVIOUS
    <3>1. KindOrder[i] # key
      BY <1>0, KindOrderInjective DEF key
    <3> QED BY <1>0, <3>1
  <2> QED BY <1>0, <1>1, <1>3, <2>1, <2>2 DEF key
<1>4. CASE (\E n \in left : ns' = n /\ left' = left \ {n}) /\ at' = 1 /\ phase' = phase
  <2>1. ns' \in left /\ ns' # ns /\ left' \subseteq left /\ ns' \notin left'
    BY <1>4
  <2> QED BY <1>0, <1>1, <1>4, <1>2, <2>1 DEF key
<1>5. CASE left = {} /\ phase' = "metrics" /\ UNCHANGED <<left, ns, at>>
  BY <1>1, <1>5
<1> QED BY <1>3, <1>4, <1>5 DEF Advance

-----------------------------------------------------------------------------
(* The invariant holds of every step.                                      *)

LEMMA InvInit == Init => IInv
<1> SUFFICES ASSUME Init PROVE IInv
  OBVIOUS
<1>1. TypeOK
  BY TypeInit
<1>2. Recorded
  BY ConstantsAssumption DEF Init, Recorded, Keys
<1>3. Refusals
  <2>1. Unpulled \subseteq ListKeys
    BY OptionsFacts DEF Init
  <2> QED BY <2>1, ConstantsAssumption DEF Init, Refusals, Keys
<1>4. Scoped
  BY DEF Init, Scoped
<1>5. Fresh
  BY ConstantsAssumption DEF Init, Fresh, Places, NamespaceKeys, Keys, ListKeys
<1> QED BY <1>1, <1>2, <1>3, <1>4, <1>5 DEF IInv

LEMMA InvStep == IInv /\ [Next]_vars => IInv'
<1> SUFFICES ASSUME IInv, [Next]_vars PROVE IInv'
  OBVIOUS
<1> USE DEF IInv
<1>0. /\ TypeOK' /\ Cluster \in Places /\ Cluster \notin Namespaces
      /\ Namespaces \subseteq Places /\ Requested \subseteq Namespaces
      /\ {"namespaces", "nodes", "metrics"} = ClusterKeys
      /\ ClusterKeys \subseteq ListKeys /\ ListKeys \subseteq Keys
      /\ NamespaceKeys \subseteq Keys /\ NamespaceKeys \cap ClusterKeys = {}
      /\ ClusterKeys \cap Unpulled \subseteq ClusterKeys \ {"metrics", "namespaces", "nodes"}
      /\ Unpulled \subseteq ListKeys /\ Unpulled' = Unpulled
  BY TypeStep, ConstantsAssumption, OptionsFacts, SameOptions
  DEF TypeOK, Places, ListKeys, Keys, NamespaceKeys, ClusterKeys, Required
<1>k. phase = "kinds" => /\ key \in NamespaceKeys /\ ns \in Namespaces /\ ns \in Places
                         /\ (ns = Cluster <=> key \in ClusterKeys)
                         /\ (key # "workload_histories" => key \in ListKeys)
  BY <1>0, KindOrderKeys DEF key, TypeOK, NamespaceKeys, Keys
<1>1. CASE ReadNamespaces
  <2>1. told["namespaces"][Cluster] = Unasked /\ missing' = missing /\ phase' = "nodes"
    BY <1>1 DEF ReadNamespaces, Fresh
  <2>2. Answered("namespaces", Cluster) \/ RefusedRead("namespaces", Cluster)
    BY <1>1 DEF ReadNamespaces
  <2>3. /\ Recorded' /\ Refusals' /\ Scoped'
        /\ \A kk \in Keys, q \in Places :
              kk # "namespaces" \/ q # Cluster => told'[kk][q] = told[kk][q]
    BY <1>0, <2>1, <2>2, FirstReading
  <2>4. left' \subseteq Namespaces
    BY <1>0, <1>1 DEF ReadNamespaces
  <2>5. Fresh'
    BY <1>0, <1>1, <2>1, <2>3, <2>4 DEF ReadNamespaces, Fresh
  <2> QED BY <1>0, <2>3, <2>5
<1>2. CASE ReadNodes
  <2>1. /\ told["nodes"][Cluster] = Unasked /\ missing' = missing
        /\ phase' \in {"kinds", "metrics"} /\ phase = "nodes"
    BY <1>2 DEF ReadNodes, Fresh
  <2>2. /\ Recorded' /\ Refusals' /\ Scoped'
        /\ \A kk \in Keys, q \in Places :
              kk # "nodes" \/ q # Cluster => told'[kk][q] = told[kk][q]
    BY <1>0, <1>2, <2>1, FirstReading DEF ReadNodes, Read
  <2>3. \A k \in NamespaceKeys, p \in Places : told'[k][p] = Unasked
    BY <1>0, <2>1, <2>2 DEF Fresh
  <2>4. told'["metrics"][Cluster] = Unasked /\ missing' = {}
    BY <1>0, <2>1, <2>2 DEF Fresh
  <2>5. left' \subseteq Places /\ (phase' = "kinds" => ns' \in Places /\ ns' \notin left')
    BY <1>0, <1>2 DEF ReadNodes, TypeOK
  <2>6. Fresh'
    BY <2>1, <2>3, <2>4, <2>5, <1>0, KindOrderKeys DEF Fresh, TypeOK, key
  <2> QED BY <1>0, <2>2, <2>6
<1>3. CASE ReadKind
  <2>1. told[key][ns] = Unasked /\ missing' = missing /\ phase = "kinds" /\ Advance
    BY <1>3 DEF ReadKind, Fresh
  <2>2. phase' # "done" /\ key \in ListKeys
    BY <1>k, <1>3, <2>1, AdvanceType DEF ReadKind
  <2>3. /\ Recorded' /\ Refusals' /\ Scoped'
        /\ \A kk \in Keys, q \in Places :
              kk # key \/ q # ns => told'[kk][q] = told[kk][q]
    BY <1>0, <1>k, <1>3, <2>1, <2>2, FirstReading DEF ReadKind, Read
  <2>4. Fresh'
    BY <2>1, <2>3, AdvanceFresh
  <2> QED BY <1>0, <2>3, <2>4
<1>4. CASE ReadHistory
  <2>1. /\ phase = "kinds" /\ key = "workload_histories"
        /\ UNCHANGED <<phase, left, ns, at, lists, missing, version>>
        /\ \/ UNCHANGED <<unreadable, told>>
           \/ /\ told' = [told EXCEPT ![key][ns] = Refused]
              /\ unreadable' = unreadable \cup {<<key, ns>>}
    BY <1>4 DEF ReadHistory
  <2>2. key \notin ListKeys
    BY <2>1 DEF ListKeys
  <2>3. \A kk \in Keys, q \in Places :
            kk # key \/ q # ns => told'[kk][q] = told[kk][q]
    BY <2>1 DEF TypeOK
  <2>4. Recorded'
    BY <1>0, <2>1, <2>2, <2>3 DEF Recorded
  <2>5. Refusals'
    <3>1. "metrics" \in missing' => told'["metrics"][Cluster] = Refused
      BY <1>0, <2>1, <2>2, <2>3 DEF Refusals
    <3>2. \A k \in Keys, p \in Places :
             told'[k][p] = Refused => <<k, p>> \in unreadable' \/ k \in Unpulled \/ k \in missing'
      BY <1>0, <2>1, <2>2, <2>3 DEF Refusals
    <3>3. \A k \in Keys, p \in Places : <<k, p>> \in unreadable' => told'[k][p] = Refused
      BY <1>k, <2>1, <2>3 DEF Refusals, TypeOK
    <3>4. \A k \in Unpulled, p \in Places : told'[k][p] \in {Unasked, Refused}
      BY <1>0, <2>1, <2>2, <2>3 DEF Refusals
    <3> QED BY <1>0, <2>1, <3>1, <3>2, <3>3, <3>4 DEF Refusals
  <2>6. Scoped'
    BY <1>k, <2>1, <2>3 DEF Scoped
  <2>7. Fresh'
    <3>1. \A i \in Position : i > at => told'[KindOrder[i]][ns] = Unasked
      <4> SUFFICES ASSUME NEW i \in Position, i > at PROVE told'[KindOrder[i]][ns] = Unasked
        OBVIOUS
      <4>1. KindOrder[i] # key
        BY KindOrderKeys, KindOrderInjective DEF key, TypeOK
      <4> QED BY <1>0, <1>k, <2>1, <2>3, <4>1, KindOrderKeys DEF Fresh
    <3>2. told'["metrics"][Cluster] = Unasked
      BY <1>0, <2>1, <2>2, <2>3 DEF Fresh
    <3>3. \A k \in NamespaceKeys, p \in left : told'[k][p] = Unasked
      <4>1. ns \notin left /\ left \subseteq Places
        BY <1>0, <2>1 DEF Fresh, TypeOK
      <4> QED BY <1>0, <2>3, <4>1 DEF Fresh
    <3>4. phase' = "kinds" /\ ns' \notin left' /\ missing' = {}
      BY <2>1 DEF Fresh
    <3>5. \A k \in NamespaceKeys, p \in left' : told'[k][p] = Unasked
      BY <2>1, <3>3
    <3>6. \A i \in Position : i > at' => told'[KindOrder[i]][ns'] = Unasked
      BY <2>1, <3>1
    <3>7. key' = "workload_histories"
      BY <2>1 DEF key
    <3> QED BY <3>2, <3>4, <3>5, <3>6, <3>7 DEF Fresh
  <2> QED BY <1>0, <2>4, <2>5, <2>6, <2>7
<1>5. CASE ListConfigMaps \/ ListPods
  <2>1. /\ told[key][ns] = Unasked /\ missing' = missing /\ phase = "kinds"
        /\ key \in {"configmaps", "pods"}
        /\ UNCHANGED <<phase, left, ns, at>>
        /\ Answered(key, ns) \/ RefusedRead(key, ns) \/ UnpulledRead(key, ns)
    BY <1>5 DEF ListConfigMaps, ListPods, ReadLabels, Read, place
  <2>2. /\ Recorded' /\ Refusals' /\ Scoped'
        /\ \A kk \in Keys, q \in Places :
              kk # key \/ q # ns => told'[kk][q] = told[kk][q]
    BY <1>0, <1>k, <2>1, FirstReading
  <2>3. \A i \in Position : i > at => told'[KindOrder[i]][ns] = Unasked
    <3> SUFFICES ASSUME NEW i \in Position, i > at PROVE told'[KindOrder[i]][ns] = Unasked
      OBVIOUS
    <3>1. KindOrder[i] # key
      BY KindOrderKeys, KindOrderInjective DEF key, TypeOK
    <3> QED BY <1>0, <1>k, <2>1, <2>2, <3>1, KindOrderKeys DEF Fresh
  <2>4. told'["metrics"][Cluster] = Unasked
    BY <1>0, <1>k, <2>1, <2>2 DEF Fresh
  <2>5. \A k \in NamespaceKeys, p \in left : told'[k][p] = Unasked
    <3>1. ns \notin left /\ left \subseteq Places
      BY <1>0, <2>1 DEF Fresh, TypeOK
    <3> QED BY <1>0, <2>2, <3>1 DEF Fresh
  <2>6. Fresh'
    BY <2>1, <2>3, <2>4, <2>5 DEF Fresh, key
  <2> QED BY <1>0, <2>2, <2>6
<1>6. CASE ReadConfigMap \/ ReadPod
  <2>1. UNCHANGED <<phase, left, ns, at, lists, unreadable, missing, version, told>>
    BY <1>6 DEF ReadConfigMap, ReadPod
  <2> QED BY <1>0, <2>1 DEF Recorded, Refusals, Scoped, Fresh, key
<1>7. CASE EndLoop
  <2>1. phase = "kinds" /\ Advance /\ UNCHANGED <<file, told>>
    BY <1>7 DEF EndLoop
  <2>2. Fresh'
    BY <2>1, AdvanceFresh DEF file
  <2>3. phase' # "done"
    BY <2>1, AdvanceType
  <2> QED BY <1>0, <2>1, <2>2, <2>3 DEF Recorded, Refusals, Scoped, file
<1>8. CASE ReadMetrics
  <2>1. /\ phase = "metrics" /\ phase' = "customs" /\ UNCHANGED <<left, ns, at, version>>
        /\ told["metrics"][Cluster] = Unasked /\ missing = {}
    BY <1>8 DEF ReadMetrics, Fresh
  <2>2. CASE Answered("metrics", Cluster) /\ UNCHANGED missing
    <3>1. /\ Recorded' /\ Refusals' /\ Scoped'
          /\ \A kk \in Keys, q \in Places :
                kk # "metrics" \/ q # Cluster => told'[kk][q] = told[kk][q]
      BY <1>0, <2>1, <2>2, FirstReading
    <3> QED BY <1>0, <2>1, <3>1 DEF Fresh, TypeOK
  <2>3. CASE /\ told' = [told EXCEPT !["metrics"][Cluster] = Refused]
             /\ missing' = missing \cup {"metrics"} /\ UNCHANGED <<lists, unreadable>>
    <3>1. /\ told'["metrics"][Cluster] = Refused
          /\ \A kk \in Keys, q \in Places :
                kk # "metrics" \/ q # Cluster => told'[kk][q] = told[kk][q]
      BY <1>0, <2>3 DEF TypeOK
    <3>2. Recorded'
      <4> SUFFICES ASSUME NEW k \in ListKeys, NEW p \in Places, NEW x \in Objects
                   PROVE  <<p, x>> \in lists[k]
                              <=> told'[k][p] \notin {Unasked, Refused} /\ x \in told'[k][p]
        BY <2>3 DEF Recorded
      <4>1. CASE k = "metrics" /\ p = Cluster
        BY <2>1, <3>1, <4>1 DEF Recorded
      <4>2. CASE k # "metrics" \/ p # Cluster
        BY <1>0, <3>1, <4>2 DEF Recorded
      <4> QED BY <4>1, <4>2
    <3>3. Refusals'
      BY <1>0, <2>1, <2>3, <3>1 DEF Refusals
    <3>4. Scoped'
      BY <1>0, <2>1, <3>1 DEF Scoped
    <3>5. Fresh'
      BY <1>0, <2>1, <3>1 DEF Fresh, TypeOK
    <3> QED BY <1>0, <3>2, <3>3, <3>4, <3>5
  <2> QED BY <1>8, <2>2, <2>3 DEF ReadMetrics
<1>9. CASE Finish
  <2>1. /\ phase' = "done" /\ missing' = missing \cup Unpulled
        /\ UNCHANGED <<left, ns, at, lists, unreadable, told>>
        /\ version' = "1" => unreadable = {}
    BY <1>9 DEF Finish, KeptHistories
  <2>2. "metrics" \notin Unpulled
    BY <1>0
  <2>3. Refusals'
    BY <1>0, <2>1, <2>2 DEF Refusals
  <2>4. Fresh'
    BY <2>1 DEF Fresh
  <2> QED BY <1>0, <2>1, <2>3, <2>4 DEF Recorded, Scoped
<1>10. CASE Fail \/ ReadDefinitions \/ ReadInstances \/ EndCustoms \/ UNCHANGED vars
  <2>1. /\ UNCHANGED <<left, ns, at, lists, unreadable, missing, version, told>>
        /\ \/ phase' \in {phase, "failed"}
           \/ phase = "customs" /\ phase' = "assembled"
    BY <1>10 DEF Fail, ReadDefinitions, ReadInstances, EndCustoms, vars, place, file
  <2>2. Fresh'
    BY <1>0, <2>1 DEF Fresh, key
  <2> QED BY <1>0, <2>1, <2>2 DEF Recorded, Refusals, Scoped
<1> QED BY <1>1, <1>2, <1>3, <1>4, <1>5, <1>6, <1>7, <1>8, <1>9, <1>10 DEF Next

\* The strengthening the results below rest on.
THEOREM Invariant == Spec => []IInv
<1>1. Init => IInv
  BY InvInit
<1>2. IInv /\ [Next]_vars => IInv'
  BY InvStep
<1> QED BY <1>1, <1>2, PTL DEF Spec

-----------------------------------------------------------------------------
(* What a replay answers.                                                  *)

\* In a finished capture, a list tool says not recorded of a question that was
\* put exactly when it was refused.
LEMMA NotRecordedWhenRefused ==
    ASSUME IInv, phase = "done", NEW k \in ListKeys, NEW p \in Places, told[k][p] # Unasked
    PROVE  NotRecorded(k, p) <=> told[k][p] = Refused
<1> USE DEF IInv
<1>0. Cluster \in Places /\ ListKeys \subseteq Keys /\ p # All
      /\ Unpulled \subseteq missing /\ "metrics" \in ListKeys
  BY AllAssumption DEF Places, Keys, Refusals, ListKeys
<1>1. ASSUME told[k][p] = Refused PROVE NotRecorded(k, p)
  <2>1. <<k, p>> \in unreadable \/ k \in missing
    BY <1>0, <1>1 DEF Refusals
  <2> QED BY <2>1 DEF NotRecorded, NotReadable
<1>2. ASSUME k \in missing PROVE told[k][p] = Refused
  <2>1. CASE k \in Unpulled
    BY <2>1 DEF Refusals
  <2>2. CASE k = "metrics"
    <3>1. p = Cluster
      BY <1>0, <2>2 DEF Scoped, ClusterKeys
    <3> QED BY <1>2, <2>2, <3>1 DEF Refusals
  <2> QED BY <1>2, <2>1, <2>2 DEF Refusals
<1>3. ASSUME NotReadable(k, p) PROVE told[k][p] = Refused
  <2>1. PICK r \in unreadable : r[1] = k /\ r[2] \in {Cluster, p}
    BY <1>0, <1>3 DEF NotReadable
  <2>2. r = <<k, r[2]>> /\ r[2] \in Places
    BY <2>1 DEF TypeOK
  <2>3. told[k][r[2]] = Refused
    BY <1>0, <2>1, <2>2 DEF Refusals
  <2>4. CASE r[2] = p
    BY <2>3, <2>4
  <2>5. CASE r[2] = Cluster
    <3>1. k \in ClusterKeys
      BY <1>0, <2>3, <2>5, ConstantsAssumption DEF Scoped
    <3>2. p = Cluster
      BY <1>0, <3>1 DEF Scoped
    <3> QED BY <2>3, <2>5, <3>2
  <2> QED BY <2>1, <2>4, <2>5
<1> QED BY <1>1, <1>2, <1>3 DEF NotRecorded

LEMMA SecondsOfPairs == ASSUME NEW a, NEW S PROVE {r[2] : r \in {a} \X S} = S
<1>1. \A x \in S : <<a, x>> \in {a} \X S /\ <<a, x>>[2] = x
  OBVIOUS
<1>2. \A r \in {a} \X S : r[2] \in S
  OBVIOUS
<1>3. \A x \in S : x \in {r[2] : r \in {a} \X S}
  <2> SUFFICES ASSUME NEW x \in S PROVE \E r \in {a} \X S : x = r[2]
    OBVIOUS
  <2> WITNESS <<a, x>> \in {a} \X S
  <2> QED OBVIOUS
<1> QED BY <1>2, <1>3

LEMMA InvReplies == IInv => RepliesAsTold
<1> SUFFICES ASSUME IInv, phase = "done",
                    NEW k \in ListKeys, NEW p \in Places, told[k][p] # Unasked
             PROVE  ListReply(k, p) = IF told[k][p] = Refused THEN Unknown ELSE told[k][p]
  BY DEF RepliesAsTold
<1>1. NotRecorded(k, p) <=> told[k][p] = Refused
  BY NotRecordedWhenRefused
<1>2. CASE told[k][p] = Refused
  BY <1>1, <1>2 DEF ListReply
<1>3. CASE told[k][p] # Refused
  <2>1. told[k][p] \in SUBSET Objects
    BY <1>3 DEF IInv, TypeOK, Keys
  <2>2. InScope(k, p) = {p} \X told[k][p]
    <3>1. \A r \in lists[k] : r = <<r[1], r[2]>> /\ r[1] \in Places /\ r[2] \in Objects
      BY DEF IInv, TypeOK
    <3>2. \A x \in Objects : <<p, x>> \in lists[k] <=> x \in told[k][p]
      BY <1>3 DEF IInv, Recorded
    <3>3. InScope(k, p) = {r \in lists[k] : r[1] = p}
      BY AllAssumption DEF InScope
    <3> QED BY <2>1, <3>1, <3>2, <3>3
  <2>3. {r[2] : r \in {p} \X told[k][p]} = told[k][p]
    BY SecondsOfPairs
  <2> QED BY <1>1, <1>3, <2>2, <2>3 DEF ListReply
<1> QED BY <1>2, <1>3

\* Every list tool replays the cluster's own answer, or that it is unknown.
THEOREM Replies == Spec => []RepliesAsTold
BY Invariant, InvReplies, PTL

LEMMA InvAllNamespaces == IInv => AllNamespacesAsTold
<1> SUFFICES ASSUME IInv, phase = "done", NEW k \in ListKeys
             PROVE  IF k \in Unpulled \/ \E p \in Places : told[k][p] = Refused
                    THEN ListAllReply(k) = Unknown
                    ELSE ListAllReply(k) =
                             UNION {{p} \X told[k][p] :
                                       p \in {q \in Places : told[k][q] # Unasked}}
  BY DEF AllNamespacesAsTold
<1> USE DEF IInv
<1>0. ListKeys \subseteq Keys /\ Unpulled \subseteq missing /\ Cluster \in Places
  BY DEF Keys, Refusals, Places
<1>1. CASE k \in Unpulled \/ \E p \in Places : told[k][p] = Refused
  <2>1. k \in missing \/ \E p \in Places : <<k, p>> \in unreadable
    BY <1>0, <1>1 DEF Refusals
  <2> QED BY <1>1, <2>1 DEF ListAllReply, NotRecorded, NotReadable
<1>2. CASE ~(k \in Unpulled \/ \E p \in Places : told[k][p] = Refused)
  <2>1. ~NotReadable(k, All)
    <3> SUFFICES ASSUME NEW r \in unreadable, r[1] = k PROVE FALSE
      BY DEF NotReadable
    <3>1. r = <<k, r[2]>> /\ r[2] \in Places
      BY DEF TypeOK
    <3> QED BY <1>0, <1>2, <3>1 DEF Refusals
  <2>2. ASSUME ~NotRecorded(k, All)
        PROVE  lists[k] = UNION {{p} \X told[k][p] :
                                    p \in {q \in Places : told[k][q] # Unasked}}
    <3>1. \A r \in lists[k] : r = <<r[1], r[2]>> /\ r[1] \in Places /\ r[2] \in Objects
      BY DEF TypeOK
    <3>2. \A p \in Places, x \in Objects :
              <<p, x>> \in lists[k] <=> told[k][p] # Unasked /\ x \in told[k][p]
      BY <1>2 DEF Recorded
    <3>3. \A p \in Places : told[k][p] # Unasked => told[k][p] \in SUBSET Objects
      BY <1>0, <1>2 DEF TypeOK
    <3> QED BY <3>1, <3>2, <3>3
  <2>3. k \notin missing
    BY <1>0, <1>2 DEF Refusals
  <2> QED BY <1>2, <2>1, <2>2, <2>3 DEF ListAllReply, NotRecorded
<1> QED BY <1>1, <1>2

\* A query over all namespaces is unknown unless every namespace captured was
\* read.
THEOREM AllNamespaces == Spec => []AllNamespacesAsTold
BY Invariant, InvAllNamespaces, PTL

LEMMA InvOldReader == IInv => OldReaderNotMisled
<1>1. ListKeys \subseteq Keys
  BY DEF Keys
<1> QED BY <1>1 DEF IInv, Refusals, OldReaderNotMisled

\* A capture that older readers accept has no kind they would read as empty.
THEOREM OldReader == Spec => []OldReaderNotMisled
BY Invariant, InvOldReader, PTL

LEMMA InvHistory == IInv => HistoryNeverInvented
<1> SUFFICES ASSUME IInv, phase = "done",
                    NEW k \in Workloads, NEW p \in Namespaces, NEW n \in Names,
                    told[k][p] # Unasked
             PROVE  LET reply == HistoryReply(k, p, n) IN
                    /\ reply \in {"rebuilt", "not found"} =>
                           told["workload_histories"][p] # Refused /\ told[k][p] # Refused
                    /\ reply = "not found" => n \notin told[k][p]
                    /\ reply = "rebuilt" /\ k = "deployments" =>
                           told["replicasets"][p] # Refused
  BY DEF HistoryNeverInvented
<1>0. /\ p \in Places /\ k \in ListKeys /\ n \in Objects /\ ListKeys \subseteq Keys
      /\ "replicasets" \in ListKeys /\ "workload_histories" \in Keys \ ListKeys
  BY DEF Places, Workloads, ListKeys, Objects, Keys
<1>1. \A kk \in Keys : told[kk][p] = Refused => NotReadable(kk, p) \/ kk \in missing
  BY <1>0 DEF IInv, Refusals, NotReadable
<1>2. "workload_histories" \notin missing
  BY <1>0 DEF IInv, TypeOK
<1>3. ~NotRecorded(k, p) => told[k][p] \notin {Unasked, Refused}
  BY <1>0, NotRecordedWhenRefused
<1>4. told[k][p] \notin {Unasked, Refused} =>
          (<<p, n>> \in lists[k] <=> n \in told[k][p])
  BY <1>0 DEF IInv, Recorded
<1> QED BY <1>0, <1>1, <1>2, <1>3, <1>4 DEF HistoryReply, NotRecorded

\* A workload's history is not rebuilt, nor the workload said to be missing,
\* where the capture was refused what would tell.
THEOREM Histories == Spec => []HistoryNeverInvented
BY Invariant, InvHistory, PTL

-----------------------------------------------------------------------------
(* Logs.                                                                   *)

\* Pods are of a namespace, and only a container that restarted has the log of
\* its previous instance captured.
PodsInv ==
    /\ TypeOK
    /\ lists["pods"] \subseteq Namespaces \X Names
    /\ \A p \in Namespaces, n \in Names : details[p][n].previous => details[p][n].restarted

\* A read of another kind leaves the pods alone.
LEMMA OtherReadsKeepPods ==
    ASSUME TypeOK, NEW k \in ListKeys, k # "pods", NEW p \in Places,
           Answered(k, p) \/ RefusedRead(k, p) \/ UnpulledRead(k, p)
    PROVE  lists'["pods"] = lists["pods"]
<1>1. "pods" \in ListKeys
  BY DEF ListKeys
<1>2. CASE Answered(k, p)
  <2>1. PICK found \in MayAnswer(k) : lists' = [lists EXCEPT ![k] = @ \cup ({p} \X found)]
    BY <1>2 DEF Answered
  <2>2. lists \in [ListKeys -> SUBSET (Places \X Objects)]
    BY DEF TypeOK
  <2> QED BY <1>1, <2>1, <2>2
<1>3. CASE RefusedRead(k, p) \/ UnpulledRead(k, p)
  BY <1>3 DEF RefusedRead, UnpulledRead
<1> QED BY <1>2, <1>3

LEMMA PodsStep == PodsInv /\ [Next]_vars => PodsInv'
<1> SUFFICES ASSUME PodsInv, [Next]_vars PROVE PodsInv'
  OBVIOUS
<1> USE DEF PodsInv
<1>0. TypeOK' /\ Cluster \in Places /\ Namespaces \subseteq Places
  BY TypeStep DEF Places
<1>1. CASE ReadNamespaces \/ ReadNodes \/ ReadKind \/ ListConfigMaps \/ ReadMetrics
  <2>1. details' = details
    BY <1>1 DEF ReadNamespaces, ReadNodes, ReadKind, ListConfigMaps, ReadMetrics
  <2>2. lists'["pods"] = lists["pods"]
    <3>1. CASE ReadNamespaces
      BY <1>0, <3>1, OtherReadsKeepPods DEF ReadNamespaces, ListKeys
    <3>2. CASE ReadNodes
      BY <1>0, <3>2, OtherReadsKeepPods DEF ReadNodes, Read, ListKeys
    <3>3. CASE ReadKind
      <4>1. key \in ListKeys /\ key # "pods" /\ ns \in Places
        BY <1>0, <3>3, KindOrderKeys DEF ReadKind, key, NamespaceKeys, Keys, TypeOK
      <4> QED BY <3>3, <4>1, OtherReadsKeepPods DEF ReadKind, Read
    <3>4. CASE ListConfigMaps
      <4>1. key \in ListKeys /\ key # "pods" /\ ns \in Places
        BY <1>0, <3>4 DEF ListConfigMaps, ListKeys, TypeOK
      <4> QED BY <3>4, <4>1, OtherReadsKeepPods DEF ListConfigMaps, Read
    <3>5. CASE ReadMetrics
      BY <1>0, <3>5, OtherReadsKeepPods DEF ReadMetrics, ListKeys
    <3> QED BY <1>1, <3>1, <3>2, <3>3, <3>4, <3>5
  <2> QED BY <1>0, <2>1, <2>2
<1>2. CASE ListPods
  <2>1. PICK found \in MayAnswer("pods") : lists' = [lists EXCEPT !["pods"] = @ \cup ({ns} \X found)]
    BY <1>2 DEF ListPods, Answered
  <2>2. found \subseteq Names /\ ns \in Namespaces /\ details' = details
    BY <1>2 DEF ListPods, MayAnswer, TypeOK
  <2>3. lists'["pods"] = lists["pods"] \cup ({ns} \X found)
    BY <2>1 DEF TypeOK, ListKeys
  <2> QED BY <1>0, <2>2, <2>3
<1>3. CASE ReadPod
  <2>1. PICK n \in Names \ visited, d \in PodDetail :
            /\ d.previous => d.restarted
            /\ details' = [details EXCEPT ![ns][n] = d]
    BY <1>3 DEF ReadPod
  <2>2. lists' = lists /\ ns \in Namespaces
    BY <1>3 DEF ReadPod, TypeOK
  <2>3. \A p \in Namespaces, m \in Names : details'[p][m].previous => details'[p][m].restarted
    BY <2>1, <2>2 DEF TypeOK
  <2> QED BY <1>0, <2>2, <2>3
<1>4. CASE \/ ReadHistory \/ ReadConfigMap \/ EndLoop \/ ReadDefinitions \/ ReadInstances
           \/ EndCustoms \/ Finish \/ Fail \/ UNCHANGED vars
  <2>1. UNCHANGED <<lists, details>>
    BY <1>4 DEF ReadHistory, ReadConfigMap, EndLoop, ReadDefinitions, ReadInstances, EndCustoms,
         Finish, Fail, vars, file
  <2> QED BY <1>0, <2>1
<1> QED BY <1>1, <1>2, <1>3, <1>4 DEF Next

LEMMA PodsInit == Init => PodsInv
<1> SUFFICES ASSUME Init PROVE PodsInv
  OBVIOUS
<1>1. TypeOK
  BY TypeInit
<1>2. lists["pods"] = {}
  BY DEF Init, ListKeys
<1>3. \A p \in Namespaces, n \in Names : details[p][n].previous = FALSE
  BY DEF Init, NoDetail
<1> QED BY <1>1, <1>2, <1>3 DEF PodsInv

LEMMA InvLogs == PodsInv => LogsNotDenied
<1> SUFFICES ASSUME PodsInv, NEW r \in lists["pods"], details[r[1]][r[2]].statuses
             PROVE  /\ LogReply(r[1], r[2], TRUE) = "no previous" <=> ~details[r[1]][r[2]].restarted
                    /\ LogReply(r[1], r[2], FALSE) =
                           IF details[r[1]][r[2]].log THEN "log" ELSE "unknown"
  BY DEF LogsNotDenied
<1>1. r[1] \in Namespaces /\ r[2] \in Names
  BY DEF PodsInv
<1>2. details[r[1]][r[2]].previous => details[r[1]][r[2]].restarted
  BY <1>1 DEF PodsInv
<1> QED BY <1>2 DEF LogReply

\* Of a pod whose statuses were read, no log is denied that there was.
THEOREM Logs == Spec => []LogsNotDenied
<1>1. Init => PodsInv
  BY PodsInit
<1>2. PodsInv /\ [Next]_vars => PodsInv'
  BY PodsStep
<1>3. PodsInv => LogsNotDenied
  BY InvLogs
<1> QED BY <1>1, <1>2, <1>3, PTL DEF Spec

-----------------------------------------------------------------------------
(* Custom resources.                                                       *)

\* What was read of a type before the capture is finished: nothing, a refusal, or
\* what it held up to the limit.
TypeAsRead(t) ==
    /\ offered[t] = Unasked => instances[t] = Unasked
    /\ offered[t] # Unasked => definitions \in SUBSET CustomTypes /\ t \in definitions
    /\ offered[t] = Refused => instances[t] = IF Import THEN {} ELSE Refused
    /\ offered[t] \notin {Unasked, Refused} => ~Import /\ instances[t] \in Kept(offered[t])

\* And what the file then says of it.
TypeAsFiled(t) ==
    /\ offered[t] = Refused =>
           \/ definitions = Unknown
           \/ definitions \in SUBSET CustomTypes /\ t \in definitions /\ instances[t] = Refused
    /\ offered[t] \notin {Unasked, Refused} =>
           /\ definitions \in SUBSET CustomTypes /\ t \in definitions
           /\ instances[t] \in Kept(offered[t])

CustomsInv ==
    /\ TypeOK
    /\ phase \notin {"customs", "assembled", "done"} =>
           definitions = Unasked /\ \A t \in CustomTypes : offered[t] = Unasked
    /\ definitions = Unasked => \A t \in CustomTypes : offered[t] = Unasked
    /\ phase # "done" => definitions # Unknown /\ \A t \in CustomTypes : TypeAsRead(t)
    /\ phase = "done" => \A t \in CustomTypes : TypeAsFiled(t)

LEMMA CustomsInit == Init => CustomsInv
<1> SUFFICES ASSUME Init PROVE CustomsInv
  OBVIOUS
<1>1. TypeOK
  BY TypeInit
<1>2. \A t \in CustomTypes : offered[t] = Unasked /\ instances[t] = Unasked
  BY DEF Init
<1>3. \A t \in CustomTypes : TypeAsRead(t)
  BY <1>2, ConstantsAssumption DEF TypeAsRead
<1>4. phase = "namespaces" /\ definitions = Unasked /\ Unasked # Unknown
  BY ConstantsAssumption DEF Init
<1> QED BY <1>1, <1>2, <1>3, <1>4 DEF CustomsInv

\* What one type's read leaves: a refusal, or what it held up to the limit.
LEMMA InstancesRead ==
    ASSUME CustomsInv, ReadInstances
    PROVE  CustomsInv'
<1> USE DEF CustomsInv
<1>1. /\ TypeOK' /\ phase = "customs" /\ definitions # Unasked
      /\ UNCHANGED <<phase, definitions>> /\ Import' = Import
  BY TypeStep DEF ReadInstances, Next, place, Import
<1>2. PICK t \in TypesLeft :
        \/ ~Import /\ \E items \in SUBSET (InstancePlaces(t) \X Names) :
              /\ offered' = [offered EXCEPT ![t] = items]
              /\ \E kept \in Kept(items) : instances' = [instances EXCEPT ![t] = kept]
        \/ /\ offered' = [offered EXCEPT ![t] = Refused]
           /\ instances' = [instances EXCEPT ![t] = IF Import THEN {} ELSE Refused]
  BY DEF ReadInstances
<1>3. t \in CustomTypes /\ definitions \in SUBSET CustomTypes /\ t \in definitions
  <2>1. t \in CustomTypes /\ definitions # Refused /\ t \in definitions
    BY DEF TypesLeft
  <2> QED BY <1>1, <2>1 DEF TypeOK
<1>4. ASSUME NEW u \in CustomTypes, u # t
      PROVE  offered'[u] = offered[u] /\ instances'[u] = instances[u]
  BY <1>2, <1>4 DEF TypeOK
<1>5. TypeAsRead(t)'
  <2>1. CASE ~Import /\ \E items \in SUBSET (InstancePlaces(t) \X Names) :
              /\ offered' = [offered EXCEPT ![t] = items]
              /\ \E kept \in Kept(items) : instances' = [instances EXCEPT ![t] = kept]
    <3>1. PICK items \in SUBSET (InstancePlaces(t) \X Names) :
              /\ offered' = [offered EXCEPT ![t] = items]
              /\ \E kept \in Kept(items) : instances' = [instances EXCEPT ![t] = kept]
      BY <2>1
    <3>2. PICK kept \in Kept(items) : instances' = [instances EXCEPT ![t] = kept]
      BY <3>1
    <3>3. offered'[t] = items /\ instances'[t] = kept
      BY <1>3, <3>1, <3>2 DEF TypeOK
    <3>4. items \in SUBSET (Places \X Names)
      <4>1. InstancePlaces(t) \subseteq Places
        BY OptionsFacts DEF InstancePlaces, Places, TypeOK
      <4> QED BY <4>1
    <3>5. items \notin {Unasked, Refused}
      BY <3>4, SentinelsAssumption
    <3> QED BY <1>1, <1>3, <2>1, <3>3, <3>5 DEF TypeAsRead, Kept
  <2>2. CASE /\ offered' = [offered EXCEPT ![t] = Refused]
             /\ instances' = [instances EXCEPT ![t] = IF Import THEN {} ELSE Refused]
    <3>1. offered'[t] = Refused /\ instances'[t] = IF Import THEN {} ELSE Refused
      BY <1>3, <2>2 DEF TypeOK
    <3> QED BY <1>1, <1>3, <3>1, ConstantsAssumption DEF TypeAsRead
  <2> QED BY <1>2, <2>1, <2>2
<1>6. \A u \in CustomTypes : TypeAsRead(u)'
  <2> SUFFICES ASSUME NEW u \in CustomTypes, u # t PROVE TypeAsRead(u)'
    BY <1>5
  <2>1. TypeAsRead(u)
    BY <1>1
  <2> QED BY <1>1, <1>4, <2>1 DEF TypeAsRead, Kept
<1> QED BY <1>1, <1>6

LEMMA CustomsStep == CustomsInv /\ [Next]_vars => CustomsInv'
<1> SUFFICES ASSUME CustomsInv, [Next]_vars PROVE CustomsInv'
  OBVIOUS
<1> USE DEF CustomsInv
<1>0. TypeOK' /\ Import' = Import
  BY TypeStep, SameOptions DEF Import
<1>1. CASE \/ ReadNamespaces \/ ReadNodes \/ ReadKind \/ ReadHistory \/ ListConfigMaps
           \/ ReadConfigMap \/ ListPods \/ ReadPod \/ EndLoop \/ ReadMetrics \/ EndCustoms
           \/ Fail
  <2>1. UNCHANGED <<definitions, instances, offered>>
    BY <1>1 DEF ReadNamespaces, ReadNodes, ReadKind, ReadHistory, ListConfigMaps,
         ReadConfigMap, ListPods, ReadPod, EndLoop, ReadMetrics, EndCustoms, Fail, customs
  <2>2. /\ phase # "done" /\ phase' # "done"
        /\ phase' \notin {"customs", "assembled"} => phase \notin {"customs", "assembled"}
    <3>1. CASE ReadKind \/ EndLoop
      BY <3>1, AdvanceType DEF ReadKind, EndLoop
    <3>2. CASE ListConfigMaps \/ ListPods
      BY <3>2 DEF ListConfigMaps, ListPods, place
    <3>3. CASE \/ ReadNamespaces \/ ReadNodes \/ ReadHistory \/ ReadConfigMap \/ ReadPod
               \/ ReadMetrics \/ EndCustoms \/ Fail
      BY <3>3 DEF ReadNamespaces, ReadNodes, ReadHistory, ReadConfigMap, ReadPod, ReadMetrics,
           EndCustoms, Fail
    <3> QED BY <1>1, <3>1, <3>2, <3>3
  <2>3. \A t \in CustomTypes : TypeAsRead(t)'
    BY <1>0, <2>1, <2>2 DEF TypeAsRead, Kept
  <2> QED BY <1>0, <2>1, <2>2, <2>3
<1>2. CASE ReadDefinitions
  <2>1. /\ phase = "customs" /\ phase' = phase /\ UNCHANGED <<instances, offered>>
        /\ \A t \in CustomTypes : offered[t] = Unasked
    BY <1>2 DEF ReadDefinitions, place
  <2>2. \A t \in CustomTypes : TypeAsRead(t)'
    BY <1>0, <2>1, ConstantsAssumption DEF TypeAsRead
  <2>3. definitions' # Unknown
    BY <1>2, SentinelsAssumption, ConstantsAssumption DEF ReadDefinitions
  <2> QED BY <1>0, <2>1, <2>2, <2>3
<1>3. CASE ReadInstances
  BY <1>3, InstancesRead
<1>4. CASE Finish
  <2>1. /\ phase = "assembled" /\ phase' = "done" /\ offered' = offered
        /\ definitions' = ImportedDefinitions /\ instances' = ImportedInstances
    BY <1>4 DEF Finish
  <2>2. ASSUME NEW t \in CustomTypes PROVE TypeAsFiled(t)'
    <3>1. TypeAsRead(t)
      BY <2>1
    <3>2. instances'[t] = IF Import /\ instances[t] # Unasked THEN Refused ELSE instances[t]
      BY <2>1 DEF ImportedInstances
    <3>3. CASE offered[t] = Refused
      <4>1. {} # Unasked /\ Refused # Unasked
        BY ConstantsAssumption
      <4>2. instances'[t] = Refused
        BY <3>1, <3>2, <3>3, <4>1 DEF TypeAsRead
      <4>3. \/ definitions' \in SUBSET CustomTypes /\ t \in definitions'
            \/ definitions' = Unknown
        BY <2>1, <3>1, <3>3, <4>1 DEF TypeAsRead, ImportedDefinitions
      <4> QED BY <2>1, <3>3, <4>2, <4>3 DEF TypeAsFiled
    <3>4. CASE offered[t] \notin {Unasked, Refused}
      <4>1. ~Import
        BY <3>1, <3>4 DEF TypeAsRead
      <4>2. instances'[t] = instances[t] /\ definitions' = definitions
        BY <2>1, <3>2, <4>1 DEF ImportedDefinitions
      <4> QED BY <2>1, <3>1, <3>4, <4>2 DEF TypeAsRead, TypeAsFiled, Kept
    <3>5. CASE offered[t] = Unasked
      BY <2>1, <3>5, ConstantsAssumption DEF TypeAsFiled
    <3> QED BY <3>3, <3>4, <3>5
  <2>3. definitions' = Unasked => \A t \in CustomTypes : offered'[t] = Unasked
    BY <2>1, ConstantsAssumption DEF ImportedDefinitions
  <2> QED BY <1>0, <2>1, <2>2, <2>3
<1>5. CASE UNCHANGED vars
  <2>1. UNCHANGED <<phase, definitions, instances, offered>>
    BY <1>5 DEF vars, place, customs
  <2> QED BY <1>0, <2>1 DEF TypeAsRead, TypeAsFiled, Kept
<1> QED BY <1>1, <1>2, <1>3, <1>4, <1>5 DEF Next

LEMMA InvCustoms == CustomsInv => CustomResourcesAsTold
<1> SUFFICES ASSUME CustomsInv, phase = "done",
                    NEW t \in CustomTypes, NEW p \in Namespaces \cup {All}
             PROVE  /\ offered[t] = Refused => CustomReply(t, p) = Refused
                    /\ offered[t] \notin {Unasked, Refused} =>
                           LET there == {i \in offered[t] : p = All \/ i[1] = p} IN
                           /\ CustomReply(t, p) \subseteq there
                           /\ IF Cardinality(offered[t]) <= MaxCustom
                              THEN CustomReply(t, p) = there
                              ELSE Cardinality(CustomReply(t, All)) = MaxCustom
  BY DEF CustomResourcesAsTold
<1>1. TypeAsFiled(t)
  BY DEF CustomsInv
<1>2. ASSUME offered[t] = Refused PROVE CustomReply(t, p) = Refused
  BY <1>1, <1>2, SentinelsAssumption DEF TypeAsFiled, CustomReply
<1>3. ASSUME offered[t] \notin {Unasked, Refused}
      PROVE  LET there == {i \in offered[t] : p = All \/ i[1] = p} IN
             /\ CustomReply(t, p) \subseteq there
             /\ IF Cardinality(offered[t]) <= MaxCustom THEN CustomReply(t, p) = there
                ELSE Cardinality(CustomReply(t, All)) = MaxCustom
  <2>1. /\ definitions \in SUBSET CustomTypes /\ t \in definitions
        /\ instances[t] \in Kept(offered[t])
    BY <1>1, <1>3 DEF TypeAsFiled
  <2>2. definitions \notin {Refused, Unknown}
    BY <2>1, SentinelsAssumption
  <2>3. /\ instances[t] \in SUBSET offered[t]
        /\ IF Cardinality(offered[t]) <= MaxCustom THEN instances[t] = offered[t]
           ELSE Cardinality(instances[t]) = MaxCustom
    BY <2>1 DEF Kept
  <2>4. instances[t] # Refused
    <3>1. offered[t] \in SUBSET (Places \X Names)
      BY <1>3 DEF CustomsInv, TypeOK
    <3>2. instances[t] \in SUBSET (Places \X Names)
      BY <2>3, <3>1
    <3> QED BY <3>2, SentinelsAssumption
  <2>5. ASSUME NEW q PROVE CustomReply(t, q) = {i \in instances[t] : q = All \/ i[1] = q}
    BY <2>1, <2>2, <2>4 DEF CustomReply
  <2>6. CustomReply(t, All) = instances[t]
    BY <2>5
  <2>7. CustomReply(t, p) \subseteq {i \in offered[t] : p = All \/ i[1] = p}
    BY <2>3, <2>5
  <2>8. CASE Cardinality(offered[t]) <= MaxCustom
    BY <2>3, <2>5, <2>7, <2>8
  <2>9. CASE ~(Cardinality(offered[t]) <= MaxCustom)
    BY <2>3, <2>6, <2>7, <2>9
  <2> QED BY <2>8, <2>9
<1> QED BY <1>2, <1>3

\* A type the capture was refused replays as refused, one within the limit as
\* exactly what the cluster held, and one over it as that many of its instances.
THEOREM Customs == Spec => []CustomResourcesAsTold
<1>1. Init => CustomsInv
  BY CustomsInit
<1>2. CustomsInv /\ [Next]_vars => CustomsInv'
  BY CustomsStep
<1>3. CustomsInv => CustomResourcesAsTold
  BY InvCustoms
<1> QED BY <1>1, <1>2, <1>3, PTL DEF Spec
=============================================================================
