--------------------------- MODULE BindingProofs ----------------------------
(***************************************************************************)
(* Proofs about the cluster binding: for any contexts, API groups and      *)
(* number of threads, a server that bound at startup answers from the      *)
(* cluster its log names and from no other than the one selected.          *)
(***************************************************************************)
EXTENDS Sequences, Binding, FiniteSetTheorems, TLAPS

-----------------------------------------------------------------------------
(* Types.  TypeOK is inductive once each label says what its actor holds.  *)

Holds ==
    /\ \A a \in Actors :
        /\ pc[a] \in {"storing", "building"} => mine[a] # None
        /\ pc[a] = "requesting" /\ group[a] = Direct => mine[a] # None
        /\ pc[a] \in {"using", "clearing"} => bound # None
    /\ pc[Main] \in {"supplied", "restoring"} => saved # None

TypeInv == TypeOK /\ Holds

LEMMA TypeInit == Init => TypeInv
BY BindingAssumption DEF Init, TypeInv, TypeOK, Saves, Holds, NoClients, Actors, Labels

LEMMA ResolveType == ASSUME TypeInv, NEW a \in Actors, Resolve(a) PROVE TypeInv'
<1>. USE BindingAssumption DEF TypeInv, TypeOK, Saves, Holds, Goto, Outside, Actors, Labels
<1>1. CASE NameContext(a)
  BY <1>1 DEF NameContext, config, globals, history
<1>2. CASE Load(a)
  <2>1. named[a] \in Contexts /\ [cluster |-> named[a], context |-> named[a]] \in Bindings
    BY <1>2 DEF Load, Bindings, Clusters
  <2>. QED
    BY <1>2, <2>1 DEF Load, config, globals, history
<1>3. CASE SelectionError(a) \/ NotLoaded(a) \/ ConfigError(a)
  BY <1>3 DEF SelectionError, NotLoaded, ConfigError, config, globals, actor, history
<1>4. CASE InCluster(a)
  <2>1. [cluster |-> Pod, context |-> None] \in Bindings
    BY DEF Bindings, Clusters
  <2>. QED
    BY <1>4, <2>1 DEF InCluster, config, globals, history
<1>5. CASE StoreBinding(a)
  BY <1>5 DEF StoreBinding, config, globals, actor, history
<1>. QED
  BY <1>1, <1>2, <1>3, <1>4, <1>5 DEF Resolve

LEMMA CallType ==
    ASSUME TypeInv, NEW t \in Threads, Call(t) \/ Work(t), ~Resolve(t) PROVE TypeInv'
<1>. USE BindingAssumption DEF TypeInv, TypeOK, Saves, Holds, Goto, Outside, Actors, Labels
<1>1. CASE Call(t)
  BY <1>1 DEF Call, config, globals, history
<1>2. CASE LookForClient(t)
  BY <1>2 DEF LookForClient, config, globals, history
<1>3. CASE LookForBinding(t)
  BY <1>3 DEF LookForBinding, config, globals, actor, history
<1>4. CASE TakeBinding(t)
  BY <1>4 DEF TakeBinding, config, globals, history
<1>5. CASE BuildClient(t)
  <2>1. mine[t].cluster \in Clusters
    BY <1>5 DEF BuildClient, Bindings
  <2>. QED
    BY <1>5, <2>1 DEF BuildClient, config, actor, history
<1>6. CASE Request(t)
  <2>1. group[t] = Direct => mine[t].cluster \in Clusters
    BY <1>6 DEF Request, Bindings
  <2>2. group[t] # Direct => client[group[t]] \in Clusters \cup {None}
    OBVIOUS
  <2>. QED
    BY <1>6, <2>1, <2>2 DEF Request, config, globals
<1>7. CASE Return(t)
  BY <1>7 DEF Return, config, globals, actor, history
<1>. QED
  BY <1>1, <1>2, <1>3, <1>4, <1>5, <1>6, <1>7 DEF Work

LEMMA TypeStep == TypeInv /\ [Next]_vars => TypeInv'
<1>. SUFFICES ASSUME TypeInv, [Next]_vars PROVE TypeInv'
  OBVIOUS
<1>. USE BindingAssumption DEF TypeInv, TypeOK, Saves, Holds, Goto, Outside, Actors, Labels
<1>1. CASE UNCHANGED vars
  BY <1>1 DEF vars, config, globals, actor, history
<1>2. CASE Environment
  BY <1>2 DEF Environment, UseContext, EditContext, globals, actor, history
<1>3. CASE ClearClients
  <2>1. Described(bound) \in Clusters
    BY <1>3 DEF ClearClients, Described, Bindings, Clusters
  <2>. QED
    BY <1>3, <2>1 DEF ClearClients, NoClients, config, actor
<1>4. CASE Configure
  BY <1>4 DEF Configure, config, globals, history
<1>5. CASE Supply
  <2>1. [cluster |-> Supplied, context |-> None] \in Bindings
    BY DEF Bindings, Clusters
  <2>. QED
    BY <1>5, <2>1 DEF Supply, Quiet, config, globals, history
<1>6. CASE RestoreBinding
  BY <1>6 DEF RestoreBinding, Quiet, NoClients, config, actor, history
<1>7. CASE RestoreClients
  BY <1>7 DEF RestoreClients, config, actor, history
<1>. QED
  BY <1>1, <1>2, <1>3, <1>4, <1>5, <1>6, <1>7, ResolveType, CallType
  DEF Next, MainStep, Work

\* Every variable keeps its type: a call that reaches `return _BINDING' or a
\* client's constructor has a binding, however the threads interleave.
THEOREM TypeCorrect == Spec => []TypeOK
<1>1. TypeInv => TypeOK
  BY DEF TypeInv
<1>. QED
  BY <1>1, TypeInit, TypeStep, PTL DEF Spec

-----------------------------------------------------------------------------
(* The server.  Until it is ready nothing is asked, and what startup holds *)
(* is described truly; once it is bound, the binding, every client and     *)
(* every binding in a call's hand are the cluster it logged.               *)

Selected == IF arg # None THEN arg ELSE env

Startup ==
    /\ pc[Main] \in {"resolving", "loading", "fallback", "storing", "clearing", "ready", "exited"}
    /\ saved = None
    /\ pc[Main] # "ready" => asks[Main] = Selected
    /\ pc[Main] \in {"loading", "storing", "clearing"} /\ Selected # None =>
            named[Main] = Selected
    /\ pc[Main] = "fallback" => Selected = None /\ ~path
    /\ pc[Main] = "storing" =>
            /\ Described(mine[Main]) = mine[Main].cluster
            /\ Selected # None => mine[Main].cluster = Selected
            /\ path => mine[Main].cluster # Pod
    /\ pc[Main] = "clearing" =>
            /\ Described(bound) = bound.cluster
            /\ Selected # None => bound.cluster = Selected
            /\ path => bound.cluster # Pod

Serving ==
    /\ pc[Main] = "ready" /\ Selected # None => logged = Selected
    /\ pc[Main] = "ready" /\ path => logged \notin {None, Pod}
    /\ pc[Main] # "ready" => logged = None /\ contacted = {} /\ client = NoClients
    /\ pc[Main] # "ready" => \A t \in Threads : pc[t] = "idle"
    /\ logged # None =>
        /\ bound # None /\ bound.cluster = logged
        /\ contacted \subseteq {logged}
        /\ \A g \in Groups : client[g] \in {None, logged}
        /\ \A t \in Threads :
            /\ pc[t] \notin {"resolving", "loading", "fallback", "storing"}
            /\ pc[t] = "building" => group[t] # Direct /\ mine[t].cluster = logged
            /\ pc[t] = "requesting" =>
                IF group[t] = Direct THEN mine[t].cluster = logged
                ELSE client[group[t]] # None

\* In a program rather than the server there is nothing logged or recorded.
ServerInv == IF Library THEN logged = None /\ contacted = {} ELSE Startup /\ Serving

LEMMA ServerInit == Init => ServerInv
BY BindingAssumption DEF Init, ServerInv, Startup, Serving, Selected, Actors, NoClients

\* A step of startup.
LEMMA ServerStarts ==
    ASSUME TypeInv, ServerInv, ~Library, Resolve(Main) \/ ClearClients
    PROVE  ServerInv'
<1>. USE BindingAssumption
     DEF TypeInv, TypeOK, Saves, Holds, ServerInv, Startup, Serving, Selected, Goto, Outside, Actors
<1>1. CASE NameContext(Main)
  BY <1>1 DEF NameContext, config, globals, history, NoClients
<1>2. CASE Load(Main)
  BY <1>2 DEF Load, Described, config, globals, history, NoClients
<1>3. CASE SelectionError(Main)
  BY <1>3 DEF SelectionError, Explicit, config, globals, actor, history, NoClients
<1>4. CASE NotLoaded(Main)
  BY <1>4 DEF NotLoaded, Explicit, config, globals, actor, history, NoClients
<1>5. CASE InCluster(Main)
  BY <1>5 DEF InCluster, Described, config, globals, history, NoClients
<1>6. CASE ConfigError(Main)
  BY <1>6 DEF ConfigError, config, globals, actor, history, NoClients
<1>7. CASE StoreBinding(Main)
  BY <1>7 DEF StoreBinding, Described, config, actor, history, NoClients
<1>8. CASE ClearClients
  BY <1>8 DEF ClearClients, Described, Bindings, config, actor, NoClients
<1>. QED
  BY <1>1, <1>2, <1>3, <1>4, <1>5, <1>6, <1>7, <1>8 DEF Resolve

\* A step of a call: none resolves once the server has bound.
LEMMA ServerCalls ==
    ASSUME TypeInv, ServerInv, ~Library, NEW t \in Threads, Call(t) \/ Work(t)
    PROVE  ServerInv'
<1>. USE BindingAssumption
     DEF TypeInv, TypeOK, Saves, Holds, ServerInv, Startup, Serving, Selected, Goto, Outside, Actors
<1>1. pc[Main] = "ready"
  BY DEF Call, MayCall, Work, Resolve, NameContext, Load, SelectionError, NotLoaded, InCluster,
         ConfigError, StoreBinding, LookForClient, LookForBinding, TakeBinding, BuildClient,
         Request, Return
<1>2. CASE Call(t)
  BY <1>1, <1>2 DEF Call, config, globals, history
<1>3. CASE LookForClient(t)
  BY <1>1, <1>3 DEF LookForClient, config, globals, history
<1>4. CASE LookForBinding(t)
  BY <1>1, <1>4 DEF LookForBinding, config, globals, actor, history
<1>5. CASE TakeBinding(t)
  BY <1>1, <1>5 DEF TakeBinding, config, globals, history
<1>6. CASE BuildClient(t)
  BY <1>1, <1>6 DEF BuildClient, config, actor, history
<1>7. CASE Request(t)
  BY <1>1, <1>7 DEF Request, config, globals
<1>8. CASE Return(t)
  BY <1>1, <1>8 DEF Return, config, globals, actor, history
<1>9. CASE Resolve(t)
  <2>1. logged = None
    BY <1>9 DEF Resolve, NameContext, Load, SelectionError, NotLoaded, InCluster, ConfigError,
                StoreBinding
  <2>2. /\ UNCHANGED <<arg, env, path, logged, saved>>
        /\ pc'[Main] = "ready"
    BY <1>1, <1>9 DEF Resolve, NameContext, Load, SelectionError, NotLoaded, InCluster,
                ConfigError, StoreBinding, history, globals, config
  <2>. QED
    BY <1>1, <2>1, <2>2
<1>. QED
  BY <1>2, <1>3, <1>4, <1>5, <1>6, <1>7, <1>8, <1>9 DEF Work

LEMMA ServerStep == TypeInv /\ ServerInv /\ [Next]_vars => ServerInv'
<1>. SUFFICES ASSUME TypeInv, ServerInv, [Next]_vars PROVE ServerInv'
  OBVIOUS
<1>1. CASE UNCHANGED vars
  BY <1>1 DEF vars, config, globals, actor, history, ServerInv, Startup, Serving, Selected, Described
<1>2. CASE Environment
  BY <1>2 DEF Environment, UseContext, EditContext, globals, actor, history, ServerInv, Startup,
              Serving, Selected, Described
<1>3. CASE Library /\ Next
  <2>1. UNCHANGED logged /\ contacted' = {}
    BY <1>3 DEF ServerInv, Next, MainStep, Environment, UseContext, EditContext, Resolve,
       NameContext, Load, SelectionError, NotLoaded, InCluster, ConfigError, StoreBinding,
       ClearClients, Configure, Supply, RestoreBinding, RestoreClients, Call, Work, LookForClient,
       LookForBinding, TakeBinding, BuildClient, Request, Return, history
  <2>. QED
    BY <1>3, <2>1 DEF ServerInv
<1>4. CASE ~Library /\ MainStep
  <2>1. ~(Configure \/ Supply \/ RestoreBinding \/ RestoreClients)
    BY <1>4 DEF Configure, Supply, RestoreBinding, RestoreClients, Quiet, ServerInv, Startup
  <2>. QED
    BY <1>4, <2>1, ServerStarts DEF MainStep
<1>. QED
  BY <1>1, <1>2, <1>3, <1>4, ServerCalls DEF Next

LEMMA ServerInvariant == Spec => [](TypeInv /\ ServerInv)
BY TypeInit, TypeStep, ServerInit, ServerStep, PTL DEF Spec

\* A server that bound at startup answers from the cluster its log names, for
\* any number of threads sharing the module's globals (_binding, _set_binding).
THEOREM Logged == Spec => []AnswersAsLogged
<1>1. TypeInv /\ ServerInv => AnswersAsLogged
  BY DEF ServerInv, Serving, AnswersAsLogged
<1>. QED
  BY <1>1, ServerInvariant, PTL

\* An explicit selection is honoured or nothing is asked: _resolve_binding never
\* falls back from one, at startup or in a call.
THEOREM Honoured == Spec => []SelectionHonoured
<1>1. TypeInv /\ ServerInv => SelectionHonoured
  BY BindingAssumption DEF ServerInv, Serving, Startup, Selected, SelectionHonoured
<1>. QED
  BY <1>1, ServerInvariant, PTL

-----------------------------------------------------------------------------
(* One call at a time: a program's use of the library, or a server with    *)
(* one thread.  Then a call resolves only if nothing is bound, and until   *)
(* it returns the binding stays the one its earlier reads used.            *)

OneAtATime == Library \/ \A t, u \in Threads : t = u

Agree(b, c) == \A g \in Groups : c[g] # None => b # None /\ c[g] = b.cluster

SerialInv ==
    /\ \A t, u \in Threads : pc[t] # "idle" /\ pc[u] # "idle" => t = u
    /\ \A t \in Threads : pc[t] # "idle" => pc[Main] \in {"ready", "supplied"}
    /\ pc[Main] \notin {"clearing", "restoring"} => Agree(bound, client)
    /\ saved # None => Agree(saved.bound, saved.client)
    /\ pc[Main] = "restoring" => bound = saved.bound
    /\ \A t \in Threads :
        /\ pc[t] \in {"resolving", "loading", "fallback", "storing"} => bound = None
        /\ pc[t] = "building" => group[t] # Direct /\ mine[t] = bound
        /\ pc[t] = "requesting" =>
            /\ bound # None
            /\ IF group[t] = Direct THEN mine[t] = bound ELSE client[group[t]] # None
        /\ \E c : asked[t] \subseteq {c}
        /\ pc[t] # "idle" /\ asked[t] # {} => bound # None /\ asked[t] \subseteq {bound.cluster}
    /\ contacted # {} => bound # None /\ contacted \subseteq {bound.cluster}

LEMMA SerialInit == Init => SerialInv
BY BindingAssumption DEF Init, SerialInv, Agree, Actors, NoClients

LEMMA SerialMain ==
    ASSUME TypeInv, ServerInv, SerialInv, MainStep
    PROVE  SerialInv'
<1>. USE BindingAssumption DEF TypeInv, TypeOK, Saves, Holds, SerialInv, Goto, Outside, Actors
<1>1. CASE NameContext(Main)
  BY <1>1 DEF NameContext, Agree, config, globals, history
<1>2. CASE Load(Main)
  BY <1>2 DEF Load, Agree, config, globals, history
<1>3. CASE SelectionError(Main) \/ NotLoaded(Main) \/ ConfigError(Main)
  BY <1>3 DEF SelectionError, NotLoaded, ConfigError, Agree, config, globals, actor, history
<1>4. CASE InCluster(Main)
  BY <1>4 DEF InCluster, Agree, config, globals, history
<1>5. CASE StoreBinding(Main)
  <2>1. contacted = {}
    BY <1>5 DEF StoreBinding, ServerInv, Serving
  <2>. QED
    BY <1>5, <2>1 DEF StoreBinding, Agree, config, actor, history
<1>6. CASE ClearClients
  BY <1>6 DEF ClearClients, Agree, NoClients, config, actor
<1>7. CASE Configure
  BY <1>7 DEF Configure, Quiet, Agree, config, globals, history
<1>8. CASE Supply
  BY <1>8 DEF Supply, Quiet, Agree, config, globals, history
<1>9. CASE RestoreBinding
  <2>1. contacted = {}
    BY <1>9 DEF RestoreBinding, Quiet, ServerInv
  <2>. QED
    BY <1>9, <2>1 DEF RestoreBinding, Quiet, Agree, NoClients, config, actor, history
<1>10. CASE RestoreClients
  BY <1>10 DEF RestoreClients, Agree, config, actor, history
<1>. QED
  BY <1>1, <1>2, <1>3, <1>4, <1>5, <1>6, <1>7, <1>8, <1>9, <1>10 DEF MainStep, Resolve

LEMMA SerialCall ==
    ASSUME OneAtATime, TypeInv, ServerInv, SerialInv, NEW t \in Threads, Call(t) \/ Work(t)
    PROVE  SerialInv'
<1>. USE BindingAssumption DEF TypeInv, TypeOK, Saves, Holds, SerialInv, Goto, Outside, Actors
<1>1. CASE Call(t)
  <2>1. \A u \in Threads : u # t => pc[u] = "idle" /\ pc'[u] = "idle"
    BY <1>1 DEF Call, MayCall, OneAtATime
  <2>2. /\ pc'[t] = "choosing" /\ asked'[t] = {} /\ pc'[Main] = pc[Main]
        /\ \A u \in Threads : u # t => asked'[u] = asked[u]
        /\ UNCHANGED <<bound, client, mine, group, saved, contacted>>
    BY <1>1, BindingAssumption DEF Call, globals, history
  <2>3. pc[Main] \in {"ready", "supplied"}
    BY <1>1 DEF Call, MayCall
  <2>4. \A u \in Threads : \E c : asked'[u] \subseteq {c}
    BY <2>2
  <2>. QED
    BY <2>1, <2>2, <2>3, <2>4 DEF Agree
<1>2. CASE LookForClient(t)
  <2>1. PICK g \in Groups \cup {Direct} :
          /\ group' = [group EXCEPT ![t] = g]
          /\ Goto(t, IF g # Direct /\ client[g] # None THEN "requesting" ELSE "binding")
    BY <1>2 DEF LookForClient
  <2>2. /\ pc'[t] \in {"requesting", "binding"} /\ group'[t] = g
        /\ pc'[t] = "requesting" => g # Direct /\ client[g] # None
    BY <2>1
  <2>3. \A a \in Actors : a # t => pc'[a] = pc[a] /\ group'[a] = group[a]
    BY <2>1
  <2>4. pc[t] = "choosing" /\ UNCHANGED <<config, globals, mine, asked, saved, history>>
    BY <1>2 DEF LookForClient
  <2>5. pc'[t] = "requesting" => bound # None
    BY <2>2, <2>4 DEF Agree
  <2>. QED
    BY <2>2, <2>3, <2>4, <2>5 DEF Agree, config, globals, history
<1>3. CASE LookForBinding(t)
  BY <1>3 DEF LookForBinding, Agree, config, globals, actor, history
<1>4. CASE TakeBinding(t)
  BY <1>4 DEF TakeBinding, Agree, config, globals, history
<1>5. CASE BuildClient(t)
  <2>1. client' = [client EXCEPT ![group[t]] = bound.cluster] /\ bound # None
    BY <1>5 DEF BuildClient
  <2>2. Agree(bound, client')
    BY <1>5, <2>1 DEF BuildClient, Agree
  <2>3. \A u \in Threads : u # t => pc'[u] = "idle" /\ pc[u] = "idle"
    BY <1>5 DEF BuildClient
  <2>4. pc'[t] = "requesting" /\ group[t] # Direct /\ client'[group[t]] # None
    BY <1>5, <2>1 DEF BuildClient, Bindings
  <2>. QED
    BY <1>5, <2>1, <2>2, <2>3, <2>4 DEF BuildClient, config, actor, history
<1>6. CASE Request(t)
  <2>1. (IF group[t] = Direct THEN mine[t].cluster ELSE client[group[t]]) = bound.cluster
    BY <1>6 DEF Request, Agree
  <2>2. asked' = [asked EXCEPT ![t] = @ \cup {bound.cluster}]
    BY <1>6, <2>1 DEF Request
  <2>3. contacted' \subseteq contacted \cup {bound.cluster}
    BY <1>6, <2>1 DEF Request
  <2>4. asked'[t] \subseteq {bound.cluster}
    <3>1. asked'[t] = asked[t] \cup {bound.cluster}
      BY <2>2
    <3>2. asked[t] \subseteq {bound.cluster}
      BY <1>6 DEF Request
    <3>. QED
      BY <3>1, <3>2
  <2>5. \A u \in Threads : u # t => pc'[u] = "idle" /\ asked'[u] = asked[u]
    BY <1>6, <2>2 DEF Request
  <2>6. UNCHANGED <<globals, mine, group, saved>> /\ pc' = [pc EXCEPT ![t] = "choosing"]
    BY <1>6 DEF Request
  <2>7. bound # None
    BY <1>6 DEF Request
  <2>8. contacted' # {} => bound' # None /\ contacted' \subseteq {bound'.cluster}
    BY <2>3, <2>6, <2>7 DEF globals
  <2>9. \A u \in Threads :
          /\ \E c : asked'[u] \subseteq {c}
          /\ pc'[u] # "idle" /\ asked'[u] # {} =>
                bound' # None /\ asked'[u] \subseteq {bound'.cluster}
    BY <2>4, <2>5, <2>6, <2>7 DEF globals
  <2>10. /\ \A u, v \in Threads : pc'[u] # "idle" /\ pc'[v] # "idle" => u = v
         /\ \A u \in Threads : pc'[u] # "idle" => pc'[Main] \in {"ready", "supplied"}
    BY <1>6, <2>6 DEF Request
  <2>11. pc'[Main] = pc[Main] /\ UNCHANGED <<bound, client, saved, mine, group>>
    BY <2>6 DEF globals
  <2>12. /\ pc'[Main] \notin {"clearing", "restoring"} => Agree(bound', client')
         /\ saved' # None => Agree(saved'.bound, saved'.client)
         /\ pc'[Main] = "restoring" => bound' = saved'.bound
    BY <2>11 DEF Agree
  <2>13. \A u \in Threads : pc'[u] \in {"idle", "choosing"}
    BY <2>5, <2>6
  <2>. QED
    BY <2>8, <2>9, <2>10, <2>12, <2>13
<1>7. CASE Return(t)
  BY <1>7 DEF Return, Agree, config, globals, actor, history
<1>8. CASE NameContext(t)
  BY <1>8 DEF NameContext, Agree, config, globals, history
<1>9. CASE Load(t)
  BY <1>9 DEF Load, Agree, config, globals, history
<1>10. CASE SelectionError(t)
  BY <1>10 DEF SelectionError, Agree, config, globals, actor, history
<1>11. CASE NotLoaded(t)
  BY <1>11 DEF NotLoaded, Agree, config, globals, actor, history
<1>12. CASE ConfigError(t)
  BY <1>12 DEF ConfigError, Agree, config, globals, actor, history
<1>13. CASE InCluster(t)
  BY <1>13 DEF InCluster, Agree, config, globals, history
<1>14. CASE StoreBinding(t)
  BY <1>14 DEF StoreBinding, Agree, config, actor, history
<1>. QED
  BY <1>1, <1>2, <1>3, <1>4, <1>5, <1>6, <1>7, <1>8, <1>9, <1>10, <1>11, <1>12, <1>13, <1>14
  DEF Work, Resolve

LEMMA SerialInvariant ==
    ASSUME OneAtATime PROVE Spec => [](TypeInv /\ SerialInv)
<1>1. TypeInv /\ ServerInv /\ SerialInv /\ [Next]_vars => SerialInv'
  <2>. SUFFICES ASSUME TypeInv, ServerInv, SerialInv, [Next]_vars PROVE SerialInv'
    OBVIOUS
  <2>1. CASE UNCHANGED vars
    BY <2>1 DEF vars, config, globals, actor, history, SerialInv, Agree
  <2>2. CASE Environment
    BY <2>2 DEF Environment, UseContext, EditContext, globals, actor, history, SerialInv, Agree
  <2>. QED
    BY <2>1, <2>2, SerialMain, SerialCall DEF Next
<1>. QED
  BY <1>1, SerialInit, ServerInvariant, PTL DEF Spec

LEMMA AtMostOne == ASSUME NEW S, NEW c, S \subseteq {c} PROVE Cardinality(S) <= 1
<1>1. IsFiniteSet({c}) /\ Cardinality({c}) = 1
  BY FS_Singleton
<1>2. Cardinality(S) <= Cardinality({c})
  BY <1>1, FS_Subset
<1>. QED
  BY <1>1, <1>2

\* One call at a time: between calls every client is on the cluster bound, after
\* any configures, failed or not, and any use_api_client blocks.
THEOREM Clients == OneAtATime /\ Spec => []OneCluster
<1>. SUFFICES ASSUME OneAtATime PROVE Spec => []OneCluster
  OBVIOUS
<1>1. TypeInv /\ SerialInv => OneCluster
  BY DEF SerialInv, Agree, OneCluster
<1>. QED
  BY <1>1, SerialInvariant, PTL

\* One call at a time: no answer mixes two clusters.
THEOREM OneAnswer == OneAtATime /\ Spec => []CallFromOneCluster
<1>. SUFFICES ASSUME OneAtATime PROVE Spec => []CallFromOneCluster
  OBVIOUS
<1>1. TypeInv /\ SerialInv => CallFromOneCluster
  BY AtMostOne DEF SerialInv, CallFromOneCluster
<1>. QED
  BY <1>1, SerialInvariant, PTL

\* A server with one thread answers from one cluster all its life, even one
\* started without a configuration.
THEOREM OneServer == OneAtATime /\ Spec => []ServerFromOneCluster
<1>. SUFFICES ASSUME OneAtATime PROVE Spec => []ServerFromOneCluster
  OBVIOUS
<1>1. TypeInv /\ SerialInv => ServerFromOneCluster
  <2>. SUFFICES ASSUME SerialInv PROVE Cardinality(contacted) <= 1
    BY DEF ServerFromOneCluster
  <2>1. \E c : contacted \subseteq {c}
    BY DEF SerialInv
  <2>. QED
    BY <2>1, AtMostOne
<1>. QED
  BY <1>1, SerialInvariant, PTL

-----------------------------------------------------------------------------
(* One call at a time: the binding and its clients do what Selection       *)
(* promises a program.                                                     *)

\* A program's main thread is ready only outside a block, and binds the client it was
\* given right after saving what was bound.
BlockInv ==
    /\ pc[Main] = "ready" => saved = None
    /\ \A a \in Actors : pc[a] = "storing" /\ mine[a].cluster = Supplied =>
        a = Main /\ saved # None /\ saved.bound = bound

LEMMA BlockInit == Init => BlockInv
BY BindingAssumption DEF Init, BlockInv, Actors

LEMMA BlockResolves ==
    ASSUME TypeInv, SerialInv, BlockInv, NEW a \in Actors, Resolve(a)
    PROVE  BlockInv'
<1>. USE BindingAssumption DEF TypeInv, TypeOK, Saves, Holds, SerialInv, BlockInv, Goto, Outside, Actors
<1>0. pc[Main] = "storing" => \A t \in Threads : pc[t] = "idle"
  OBVIOUS
<1>1. CASE NameContext(a)
  BY <1>1 DEF NameContext, config, globals, history
<1>2. CASE Load(a)
  BY <1>2 DEF Load, config, globals, history
<1>3. CASE SelectionError(a) \/ NotLoaded(a) \/ ConfigError(a)
  BY <1>3 DEF SelectionError, NotLoaded, ConfigError, config, globals, actor, history
<1>4. CASE InCluster(a)
  BY <1>4 DEF InCluster, config, globals, history
<1>5. CASE StoreBinding(a)
  BY <1>0, <1>5 DEF StoreBinding, config, actor, history
<1>. QED
  BY <1>1, <1>2, <1>3, <1>4, <1>5 DEF Resolve

LEMMA BlockStep == TypeInv /\ SerialInv /\ BlockInv /\ [Next]_vars => BlockInv'
<1>. SUFFICES ASSUME TypeInv, SerialInv, BlockInv, [Next]_vars PROVE BlockInv'
  OBVIOUS
<1>1. ASSUME NEW t \in Threads, Call(t) \/ Work(t), ~Resolve(t) PROVE BlockInv'
  <2>. USE BindingAssumption DEF TypeInv, TypeOK, Saves, Holds, SerialInv, BlockInv, Goto, Actors
  <2>1. pc'[Main] = pc[Main] /\ UNCHANGED <<bound, saved>>
    BY <1>1 DEF Call, Work, LookForClient, LookForBinding, TakeBinding, BuildClient, Request, Return, globals, history
  <2>2. pc'[t] # "storing" /\ \A a \in Actors \ {t} : pc'[a] = pc[a] /\ mine'[a] = mine[a]
    BY <1>1 DEF Call, Work, LookForClient, LookForBinding, TakeBinding, BuildClient, Request, Return, actor
  <2>. QED
    BY <2>1, <2>2
<1>2. CASE MainStep /\ ~Resolve(Main)
  <2>. USE BindingAssumption DEF TypeInv, TypeOK, Saves, Holds, SerialInv, BlockInv, Goto, Outside, Quiet, Actors
  <2>1. CASE ClearClients BY <2>1 DEF ClearClients, config, actor
  <2>2. CASE Configure BY <2>2 DEF Configure, config, globals, history
  <2>3. CASE Supply BY <2>3 DEF Supply, config, globals, history
  <2>4. CASE RestoreBinding BY <2>4 DEF RestoreBinding, config, actor, history
  <2>5. CASE RestoreClients BY <2>5 DEF RestoreClients, config, actor, history
  <2>. QED
    BY <1>2, <2>1, <2>2, <2>3, <2>4, <2>5 DEF MainStep
<1>3. CASE Environment \/ UNCHANGED vars
  BY <1>3 DEF BlockInv, Environment, UseContext, EditContext, vars, globals, actor, history
<1>. QED
  BY <1>1, <1>2, <1>3, BlockResolves DEF Next, MainStep, Work, Actors

\* What the one call that runs was answered from.
LEMMA RunningOne ==
    ASSUME SerialInv, NEW t \in Threads, pc[t] # "idle"
    PROVE  Running = {t} /\ Answered = asked[t]
<1>1. Running = {t}
  BY DEF SerialInv, Running
<1>. QED
  BY <1>1 DEF Answered

\* A step of a call is one of its steps there, or none.
LEMMA CallSelects ==
    ASSUME OneAtATime, TypeInv, SerialInv, BlockInv, NEW t \in Threads, Call(t) \/ Work(t)
    PROVE  [Sel!Next]_(Sel!vars)
<1>. USE DEF Sel!Next, Sel!vars
<1>1. pc'[Main] = pc[Main] /\ mine'[Main] = mine[Main] /\ saved' = saved
  BY BindingAssumption DEF TypeInv, TypeOK, Goto, Call, Work, Resolve, NameContext, Load, SelectionError, NotLoaded,
     InCluster, ConfigError, StoreBinding, LookForClient, LookForBinding, TakeBinding, BuildClient,
     Request, Return, actor, Actors
<1>2. ToRestore' = ToRestore
  BY <1>1 DEF ToRestore, InBlock, Entering
<1>3. \A u \in Threads \ {t} : pc'[u] = pc[u] /\ asked'[u] = asked[u]
  BY DEF TypeInv, TypeOK, Goto, Call, Work, Resolve, NameContext, Load, SelectionError, NotLoaded,
     InCluster, ConfigError, StoreBinding, LookForClient, LookForBinding, TakeBinding, BuildClient,
     Request, Return, actor, Actors
<1>4. CASE Call(t)
  <2>1. \A u \in Threads : pc[u] = "idle"
    BY <1>4 DEF Call, MayCall, OneAtATime
  <2>2. pc'[t] # "idle" /\ asked'[t] = {} /\ bound' = bound
    BY <1>4 DEF Call, Goto, TypeInv, TypeOK, Actors, globals
  <2>3. Running = {} /\ Answered = {}
    BY <2>1 DEF Running, Answered
  <2>4. Running' = {t}
    BY <1>3, <2>1, <2>2 DEF Running
  <2>5. Answered' = {}
    BY <2>2, <2>4 DEF Answered
  <2>. QED
    BY <1>2, <2>2, <2>3, <2>4, <2>5 DEF Sel!Begin
<1>5. CASE Work(t)
  <2>1. pc[t] # "idle"
    BY <1>5 DEF Work, Resolve, NameContext, Load, SelectionError, NotLoaded, InCluster, ConfigError, StoreBinding,
       LookForClient, LookForBinding, TakeBinding, BuildClient, Request, Return
  <2>2. Running = {t} /\ Answered = asked[t]
    BY <2>1, RunningOne
  <2>3. Running' = IF pc'[t] = "idle" THEN {} ELSE {t}
    BY <1>3, <2>2 DEF Running
  <2>4. Answered' = IF pc'[t] = "idle" THEN {} ELSE asked'[t]
    BY <2>3 DEF Answered
  <2>5. CASE Return(t) \/ SelectionError(t) \/ ConfigError(t)
    <3>1. pc'[t] = "idle" /\ bound' = bound
      BY <2>5, BindingAssumption DEF Return, SelectionError, ConfigError, Goto, TypeInv, TypeOK, Actors, globals
    <3>. QED
      BY <1>2, <2>2, <2>3, <2>4, <3>1 DEF Sel!End
  <2>6. CASE Request(t)
    <3> DEFINE cluster == IF group[t] = Direct THEN mine[t].cluster ELSE client[group[t]]
    <3>1. pc'[t] # "idle" /\ bound' = bound /\ asked'[t] = asked[t] \cup {cluster}
      BY <2>6 DEF Request, Goto, TypeInv, TypeOK, Actors, globals
    <3>2. bound # None /\ cluster = bound.cluster
      <4>1. pc[t] = "requesting" BY <2>6 DEF Request
      <4>2. pc[Main] \in {"ready", "supplied"} /\ Agree(bound, client) BY <2>1 DEF SerialInv
      <4>3. group[t] # Direct => group[t] \in Groups BY DEF TypeInv, TypeOK, Actors
      <4>. QED
        BY <4>1, <4>2, <4>3 DEF SerialInv, Agree
    <3>3. ClusterOf(bound) = cluster /\ cluster \in Clusters
      BY <3>2 DEF ClusterOf, TypeInv, TypeOK, Bindings
    <3>4. ClusterOf(bound) # None
      BY <3>3, BindingAssumption
    <3> HIDE DEF cluster
    <3>. QED
      BY <1>2, <2>2, <2>3, <2>4, <3>1, <3>3, <3>4 DEF Sel!Ask, ClusterOf
  <2>7. CASE StoreBinding(t)
    <3>1. pc'[t] # "idle" /\ bound' = mine[t] /\ asked'[t] = asked[t]
      BY <2>7, BindingAssumption DEF StoreBinding, Goto, TypeInv, TypeOK, Actors, actor
    <3>2. pc[t] = "storing" /\ bound = None /\ mine[t] # None /\ mine[t] \in Bindings
      BY <2>7 DEF StoreBinding, SerialInv, TypeInv, TypeOK, Holds, Actors
    <3>3. mine[t].cluster \in Clusters \ {Supplied}
      BY <3>2, BindingAssumption DEF BlockInv, Bindings, Actors
    <3>4. ClusterOf(bound) = None /\ ClusterOf(bound)' = mine[t].cluster
      BY <3>1, <3>2 DEF ClusterOf
    <3>. QED
      BY <1>2, <2>2, <2>3, <2>4, <3>1, <3>3, <3>4 DEF Sel!First, Sel!Select
  <2>8. CASE ~(Return(t) \/ SelectionError(t) \/ ConfigError(t) \/ Request(t) \/ StoreBinding(t))
    <3>1. pc'[t] # "idle" /\ bound' = bound /\ asked'[t] = asked[t]
      BY <1>5, <2>8 DEF Work, Resolve, NameContext, Load, NotLoaded, InCluster, LookForClient, LookForBinding,
         TakeBinding, BuildClient, Goto, TypeInv, TypeOK, Actors, globals, actor
    <3>. QED
      BY <1>2, <2>2, <2>3, <2>4, <3>1 DEF ClusterOf
  <2>. QED
    BY <2>5, <2>6, <2>7, <2>8
<1>. QED
  BY <1>4, <1>5

\* A step of the main thread, while no call runs, configures, or begins or ends a block.
LEMMA MainSelects ==
    ASSUME TypeInv, SerialInv, BlockInv, MainStep
    PROVE  [Sel!Next]_(Sel!vars)
<1>. USE DEF Sel!Next, Sel!vars
<1>1. \A t \in Threads : pc[t] = "idle" /\ pc'[t] = "idle"
  <2>1. \A t \in Threads : pc[t] = "idle"
    BY DEF SerialInv, MainStep, Resolve, NameContext, Load, SelectionError, NotLoaded, InCluster, ConfigError,
       StoreBinding, ClearClients, Configure, Supply, RestoreBinding, RestoreClients, Quiet
  <2>2. \A t \in Threads : pc'[t] = pc[t]
    BY BindingAssumption DEF TypeInv, TypeOK, Goto, MainStep, Resolve, NameContext, Load, SelectionError, NotLoaded,
       InCluster, ConfigError, StoreBinding, ClearClients, Configure, Supply, RestoreBinding, RestoreClients, Actors
  <2>. QED
    BY <2>1, <2>2
<1>2. Running = {} /\ Running' = {} /\ Answered = {} /\ Answered' = {}
  BY <1>1 DEF Running, Answered
<1>. USE BindingAssumption DEF TypeInv, TypeOK, Saves, Holds, Goto, Outside, Actors
<1>3. CASE NameContext(Main) \/ Load(Main) \/ SelectionError(Main) \/ NotLoaded(Main) \/ InCluster(Main) \/ ConfigError(Main)
  <2>1. pc[Main] \notin {"storing", "restoring"} /\ pc'[Main] # "restoring" /\ saved' = saved /\ bound' = bound
    BY <1>3 DEF NameContext, Load, SelectionError, NotLoaded, InCluster, ConfigError, globals
  <2>2. pc'[Main] = "storing" => mine'[Main].cluster # Supplied
    BY <1>3 DEF NameContext, Load, SelectionError, NotLoaded, InCluster, ConfigError, globals
  <2>3. ToRestore' = ToRestore
    BY <2>1, <2>2 DEF ToRestore, InBlock, Entering
  <2>. QED
    BY <1>2, <2>1, <2>3 DEF ClusterOf
<1>4. CASE StoreBinding(Main)
  <2>1. /\ pc[Main] = "storing" /\ pc'[Main] = "clearing" /\ saved' = saved /\ bound' = mine[Main]
        /\ mine[Main] \in Bindings /\ mine[Main] # None
    BY <1>4 DEF StoreBinding
  <2>2. ClusterOf(bound)' = mine[Main].cluster /\ mine[Main].cluster \in Clusters
    BY <2>1 DEF ClusterOf, Bindings
  <2>3. CASE Entering
    <3>1. saved # None /\ saved.bound = bound /\ mine[Main].cluster = Supplied
      BY <2>1, <2>3 DEF Entering, BlockInv
    <3>2. ToRestore = <<>> /\ ToRestore' = <<ClusterOf(bound)>>
      BY <2>1, <2>3, <3>1 DEF ToRestore, InBlock, Entering
    <3>. QED
      BY <1>2, <2>2, <3>1, <3>2 DEF Sel!Enter
  <2>4. CASE ~Entering
    <3>1. ToRestore' = ToRestore /\ mine[Main].cluster # Supplied
      BY <2>1, <2>4 DEF ToRestore, InBlock, Entering
    <3>. QED
      BY <1>2, <2>2, <3>1 DEF Sel!Configure, Sel!Select
  <2>. QED
    BY <2>3, <2>4
<1>5. CASE ClearClients \/ Configure
  <2>1. /\ {pc[Main], pc'[Main]} \cap {"storing", "restoring"} = {} /\ saved' = saved /\ bound' = bound
    BY <1>5 DEF ClearClients, Configure, globals
  <2>2. ToRestore' = ToRestore
    BY <2>1 DEF ToRestore, InBlock, Entering
  <2>. QED
    BY <1>2, <2>1, <2>2 DEF ClusterOf
<1>6. CASE Supply
  <2>1. saved = None /\ bound' = bound
    BY <1>6 DEF Supply, BlockInv, globals
  <2>2. pc'[Main] = "storing" /\ mine'[Main].cluster = Supplied
    BY <1>6 DEF Supply
  <2>3. ToRestore = <<>> /\ ToRestore' = <<>>
    BY <2>1, <2>2 DEF ToRestore, InBlock, Entering
  <2>. QED
    BY <1>2, <2>1, <2>3 DEF ClusterOf
<1>7. CASE RestoreBinding
  <2>1. pc[Main] = "supplied" /\ pc'[Main] = "restoring" /\ saved # None /\ bound' = saved.bound
    BY <1>7 DEF RestoreBinding
  <2>2. ToRestore = <<ClusterOf(saved.bound)>> /\ ToRestore' = <<>>
    BY <2>1 DEF ToRestore, InBlock, Entering
  <2>3. Head(ToRestore) = ClusterOf(saved.bound) /\ ToRestore # <<>>
    BY <2>2
  <2>4. ClusterOf(bound)' = ClusterOf(saved.bound)
    BY <2>1 DEF ClusterOf
  <2>. QED
    BY <1>2, <2>2, <2>3, <2>4 DEF Sel!Leave
<1>8. CASE RestoreClients
  <2>1. pc[Main] = "restoring" /\ saved' = None /\ bound' = bound
    BY <1>8 DEF RestoreClients
  <2>2. ToRestore = <<>> /\ ToRestore' = <<>>
    BY <2>1 DEF ToRestore, InBlock
  <2>. QED
    BY <1>2, <2>1, <2>2 DEF ClusterOf
<1>. QED
  BY <1>3, <1>4, <1>5, <1>6, <1>7, <1>8 DEF MainStep, Resolve

\* One call at a time: the binding, its clients and use_api_client's saving of both
\* implement Selection, so that each call is answered from the cluster selected and no
\* other, and nothing selected in a block outlives it, whatever becomes of the
\* kubeconfig and whichever configures fail.
THEOREM SelectionImplemented == OneAtATime /\ Spec => SelectionKept
<1>. SUFFICES ASSUME OneAtATime PROVE Spec => SelectionKept
  OBVIOUS
<1>1. Init => Sel!Init
  <2>. SUFFICES ASSUME Init PROVE Sel!Init
    OBVIOUS
  <2>1. \A t \in Threads : pc[t] = "idle"
    BY BindingAssumption DEF Init, Actors
  <2>2. Running = {} /\ Answered = {}
    BY <2>1 DEF Running, Answered
  <2>3. ToRestore = <<>> /\ ClusterOf(bound) = None
    BY DEF Init, ToRestore, InBlock, ClusterOf
  <2>. QED
    BY <2>2, <2>3 DEF Sel!Init
<1>2. TypeInv /\ SerialInv /\ BlockInv /\ [Next]_vars => [Sel!Next]_(Sel!vars)
  <2>. SUFFICES ASSUME TypeInv, SerialInv, BlockInv, [Next]_vars PROVE [Sel!Next]_(Sel!vars)
    OBVIOUS
  <2>1. CASE Environment \/ UNCHANGED vars
    BY <2>1 DEF Sel!vars, ClusterOf, ToRestore, InBlock, Entering, Running, Answered,
       Environment, UseContext, EditContext, vars, globals, actor, history
  <2>. QED
    BY <2>1, CallSelects, MainSelects DEF Next
<1>3. TypeInv /\ SerialInv /\ BlockInv /\ [Next]_vars => BlockInv'
  BY BlockStep
<1>. QED
  BY <1>1, <1>2, <1>3, BlockInit, SerialInvariant, PTL DEF Spec, SelectionKept, Sel!Spec
=============================================================================
