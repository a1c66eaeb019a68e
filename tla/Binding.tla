------------------------------ MODULE Binding -------------------------------
(***************************************************************************)
(* Which cluster the tools answer from (k8s_tools.py: _BINDING and the     *)
(* clients built on it).  The server binds at startup, or starts unbound   *)
(* if it has no configuration, and each tool call then tries (mcp_server); *)
(* a program using the library may rebind between calls, or answer from a  *)
(* supplied client for a while (use_api_client).                           *)
(*                                                                         *)
(* Meanwhile the kubeconfig changes under the process.  Calls run on       *)
(* threads, which can be switched out between any two accesses of the      *)
(* module's globals or of the file, so each access is a step.              *)
(***************************************************************************)
EXTENDS Naturals, FiniteSets

CONSTANTS
    Contexts,     \* the kubeconfig's contexts, each of a cluster of its own
    Pod,          \* the cluster the process runs in
    InPod,        \* whether it runs in one
    Supplied,     \* the cluster behind use_api_client's client
    Given,        \* what --context and K8STOOLS_CONTEXT may be given, None for neither
    Groups,       \* API groups whose client is kept in a global
    Direct,       \* the groups read through a client made for the call
    Threads,
    Main,         \* the main thread: startup, configure and use_api_client
    Library,      \* FALSE: the MCP server; TRUE: a program, calling one tool at a time
    None

Actors == Threads \cup {Main}
Clusters == Contexts \cup {Pod, Supplied}
Bindings == [cluster : Clusters, context : Contexts \cup {None}]
Saves == [bound : Bindings \cup {None}, client : [Groups -> Clusters \cup {None}]]

ASSUME BindingAssumption ==
    /\ Given \subseteq Contexts \cup {None}
    /\ None \notin Clusters \cup Bindings \cup Saves
    /\ Pod \notin Contexts /\ Supplied \notin Contexts /\ Supplied # Pod
    /\ Main \notin Threads /\ Direct \notin Groups
    /\ InPod \in BOOLEAN /\ Library \in BOOLEAN

VARIABLES
    \* The environment.
    current,      \* the kubeconfig's current-context, None without a usable one
    loadable,     \* the contexts that load
    arg, env,     \* --context and K8STOOLS_CONTEXT, for good
    path,         \* whether startup, or configure, was given a kubeconfig's path
    \* The module's globals.
    bound,        \* _BINDING
    client,       \* the group clients, by the cluster of the ApiClient they hold
    \* Per actor.
    pc,
    asks,         \* the explicit context it resolves with, or None
    named,        \* the context it will load
    mine,         \* the binding it has in hand
    group,        \* the API group it reads next
    asked,        \* history: the clusters its call has sent requests to
    saved,        \* what use_api_client will restore
    \* History of the server.
    logged,       \* the cluster its startup log named, None if it started unbound
    contacted     \* the clusters requests went to

globals == <<bound, client>>
config == <<current, loadable, arg, env, path>>
actor == <<asks, named, mine, group, asked>>
history == <<logged, contacted>>
vars == <<config, globals, pc, actor, saved, history>>

NoClients == [g \in Groups |-> None]

Init ==
    /\ arg \in Given /\ env \in Given /\ path \in BOOLEAN
    /\ current \in Contexts \cup {None} /\ loadable \in SUBSET Contexts
    /\ bound = None /\ client = NoClients
    /\ pc = [a \in Actors |->
                IF a # Main THEN "idle" ELSE IF Library THEN "ready" ELSE "resolving"]
    /\ asks = [a \in Actors |-> IF a = Main /\ arg # None THEN arg ELSE env]
    /\ named = [a \in Actors |-> None]
    /\ mine = [a \in Actors |-> None]
    /\ group = [a \in Actors |-> Direct]
    /\ asked = [a \in Actors |-> {}]
    /\ saved = None
    /\ logged = None /\ contacted = {}

Goto(a, label) == pc' = [pc EXCEPT ![a] = label]

-----------------------------------------------------------------------------
(* The kubeconfig: `kubectl config use-context', or an edit of the file.   *)

UseContext ==
    /\ \E c \in Contexts \cup {None} : c # current /\ current' = c
    /\ UNCHANGED <<loadable, arg, env, path, globals, pc, actor, saved, history>>

EditContext ==
    /\ \E c \in Contexts : loadable' = (loadable \ {c}) \cup ({c} \ loadable)
    /\ UNCHANGED <<current, arg, env, path, globals, pc, actor, saved, history>>

-----------------------------------------------------------------------------
(* _resolve_binding: name a context, load exactly that one, and without an *)
(* explicit selection fall back to the pod's own cluster.                  *)

Explicit(a) == asks[a] # None \/ (a = Main /\ path)

\* Where the main thread goes on, outside or inside a use_api_client block.
Outside == IF saved = None THEN "ready" ELSE "supplied"

\* Without an explicit context or a current one, nothing will load.
NameContext(a) ==
    /\ pc[a] = "resolving"
    /\ named' = [named EXCEPT ![a] = IF asks[a] # None THEN asks[a] ELSE current]
    /\ Goto(a, "loading")
    /\ UNCHANGED <<config, globals, asks, mine, group, asked, saved, history>>

\* A bug to catch: load_kube_config reads current-context again.
LoadCurrent(a) ==
    /\ pc[a] = "loading" /\ named[a] \in loadable
    /\ mine' = [mine EXCEPT ![a] = [cluster |-> IF asks[a] = None THEN current ELSE named[a],
                                    context |-> named[a]]]
    /\ Goto(a, "storing")
    /\ UNCHANGED <<config, globals, asks, named, group, asked, saved, history>>

Load(a) ==
    /\ pc[a] = "loading" /\ named[a] \in loadable
    /\ mine' = [mine EXCEPT ![a] = [cluster |-> named[a], context |-> named[a]]]
    /\ Goto(a, "storing")
    /\ UNCHANGED <<config, globals, asks, named, group, asked, saved, history>>

\* K8sClusterSelectionError: the server exits; a call fails.
SelectionError(a) ==
    /\ pc[a] = "loading" /\ named[a] \notin loadable /\ Explicit(a)
    /\ Goto(a, IF a # Main THEN "idle" ELSE IF Library THEN Outside ELSE "exited")
    /\ UNCHANGED <<config, globals, actor, saved, history>>

\* A bug to catch: falling back from an explicit selection too.
NotLoadedAnyway(a) ==
    /\ pc[a] = "loading" /\ named[a] \notin loadable
    /\ Goto(a, "fallback")
    /\ UNCHANGED <<config, globals, actor, saved, history>>

NotLoaded(a) ==
    /\ pc[a] = "loading" /\ named[a] \notin loadable /\ ~Explicit(a)
    /\ Goto(a, "fallback")
    /\ UNCHANGED <<config, globals, actor, saved, history>>

InCluster(a) ==
    /\ pc[a] = "fallback" /\ InPod
    /\ mine' = [mine EXCEPT ![a] = [cluster |-> Pod, context |-> None]]
    /\ Goto(a, "storing")
    /\ UNCHANGED <<config, globals, asks, named, group, asked, saved, history>>

\* K8sConfigError: the server starts unbound; a call fails, and the next one
\* tries again.
ConfigError(a) ==
    /\ pc[a] = "fallback" /\ ~InPod
    /\ Goto(a, IF a = Main THEN Outside ELSE "idle")
    /\ UNCHANGED <<config, globals, actor, saved, history>>

\* _binding's `_BINDING = ...', or _set_binding's, which then clears the group
\* clients.
StoreBinding(a) ==
    /\ pc[a] = "storing"
    /\ bound' = mine[a]
    /\ Goto(a, IF a = Main THEN "clearing" ELSE "using")
    /\ UNCHANGED <<config, client, actor, saved, history>>

\* Then configure describes the binding, for the server's log.
Described(b) == IF b.context # None THEN b.context ELSE b.cluster

\* A bug to catch: the clients built on the old binding stay.
KeepClients ==
    /\ pc[Main] = "clearing"
    /\ Goto(Main, Outside)
    /\ logged' = IF Library THEN None ELSE Described(bound)
    /\ UNCHANGED <<config, globals, actor, saved, contacted>>

ClearClients ==
    /\ pc[Main] = "clearing"
    /\ client' = NoClients
    /\ Goto(Main, Outside)
    /\ logged' = IF Library THEN None ELSE Described(bound)
    /\ UNCHANGED <<config, bound, actor, saved, contacted>>

-----------------------------------------------------------------------------
(* A tool call: a read of one API group after another.                     *)

\* The server serves once it has started; a program makes one call at a time.
MayCall(t) ==
    IF Library THEN pc[Main] \in {"ready", "supplied"} /\ \A u \in Threads : pc[u] = "idle"
    ELSE pc[Main] = "ready"

Call(t) ==
    /\ pc[t] = "idle" /\ MayCall(t)
    /\ asks' = [asks EXCEPT ![t] = env]
    /\ asked' = [asked EXCEPT ![t] = {}]
    /\ Goto(t, "choosing")
    /\ UNCHANGED <<config, globals, named, mine, group, saved, history>>

\* `if K8S is None'.
LookForClient(t) ==
    /\ pc[t] = "choosing"
    /\ \E g \in Groups \cup {Direct} :
        /\ group' = [group EXCEPT ![t] = g]
        /\ Goto(t, IF g # Direct /\ client[g] # None THEN "requesting" ELSE "binding")
    /\ UNCHANGED <<config, globals, asks, named, mine, asked, saved, history>>

\* Two bugs to catch: every API group loads the kubeconfig for itself, as they
\* once did, and only startup resolves.
ResolveAgain(t) ==
    /\ pc[t] = "binding"
    /\ Goto(t, "resolving")
    /\ UNCHANGED <<config, globals, actor, saved, history>>

NeverResolve(t) ==
    /\ pc[t] = "binding"
    /\ Goto(t, IF bound = None THEN "idle" ELSE "using")
    /\ UNCHANGED <<config, globals, actor, saved, history>>

\* _binding(): `if _BINDING is None'.
LookForBinding(t) ==
    /\ pc[t] = "binding"
    /\ Goto(t, IF bound = None THEN "resolving" ELSE "using")
    /\ UNCHANGED <<config, globals, actor, saved, history>>

\* Its `return _BINDING'.
TakeBinding(t) ==
    /\ pc[t] = "using"
    /\ mine' = [mine EXCEPT ![t] = bound]
    /\ Goto(t, IF group[t] = Direct THEN "requesting" ELSE "building")
    /\ UNCHANGED <<config, globals, asks, named, group, asked, saved, history>>

\* `K8S = _get_api_client()'.
BuildClient(t) ==
    /\ pc[t] = "building"
    /\ client' = [client EXCEPT ![group[t]] = mine[t].cluster]
    /\ Goto(t, "requesting")
    /\ UNCHANGED <<config, bound, actor, saved, history>>

Request(t) ==
    /\ pc[t] = "requesting"
    /\ LET cluster == IF group[t] = Direct THEN mine[t].cluster ELSE client[group[t]] IN
        /\ asked' = [asked EXCEPT ![t] = @ \cup {cluster}]
        /\ contacted' = IF Library THEN {} ELSE contacted \cup {cluster}
    /\ Goto(t, "choosing")
    /\ UNCHANGED <<config, globals, asks, named, mine, group, saved, logged>>

Return(t) ==
    /\ pc[t] = "choosing" /\ asked[t] # {}
    /\ Goto(t, "idle")
    /\ UNCHANGED <<config, globals, actor, saved, history>>

-----------------------------------------------------------------------------
(* The library's other entry points, between calls.                        *)

Quiet == Library /\ \A t \in Threads : pc[t] = "idle"

\* configure(kubeconfig, context=c); a use_api_client block may call it too.
Configure ==
    /\ Quiet /\ pc[Main] \in {"ready", "supplied"}
    /\ \E c \in Contexts \cup {None} :
        asks' = [asks EXCEPT ![Main] = IF c # None THEN c ELSE env]
    /\ path' \in BOOLEAN
    /\ Goto(Main, "resolving")
    /\ UNCHANGED <<current, loadable, arg, env, globals, named, mine, group, asked, saved, history>>

\* with use_api_client(...): save, and bind to the client given.
Supply ==
    /\ Quiet /\ pc[Main] = "ready"
    /\ saved' = [bound |-> bound, client |-> client]
    /\ mine' = [mine EXCEPT ![Main] = [cluster |-> Supplied, context |-> None]]
    /\ Goto(Main, "storing")
    /\ UNCHANGED <<config, globals, asks, named, group, asked, history>>

\* A bug to catch: a configure within the block outlives it.
RestoreUnlessConfigured ==
    /\ Quiet /\ pc[Main] = "supplied"
    /\ bound' = IF bound.cluster = Supplied THEN saved.bound ELSE bound
    /\ client' = NoClients
    /\ Goto(Main, "restoring")
    /\ UNCHANGED <<config, actor, saved, history>>

\* The end of the block, reached normally or by an exception: _set_binding,
\* then the clients.
RestoreBinding ==
    /\ Quiet /\ pc[Main] = "supplied"
    /\ bound' = saved.bound
    /\ client' = NoClients
    /\ Goto(Main, "restoring")
    /\ UNCHANGED <<config, actor, saved, history>>

RestoreClients ==
    /\ pc[Main] = "restoring"
    /\ client' = saved.client
    /\ saved' = None
    /\ Goto(Main, "ready")
    /\ UNCHANGED <<config, bound, actor, history>>

-----------------------------------------------------------------------------

Resolve(a) ==
    \/ NameContext(a) \/ Load(a) \/ SelectionError(a) \/ NotLoaded(a)
    \/ InCluster(a) \/ ConfigError(a) \/ StoreBinding(a)

Work(t) ==
    \/ LookForClient(t) \/ LookForBinding(t) \/ TakeBinding(t) \/ BuildClient(t)
    \/ Request(t) \/ Return(t) \/ Resolve(t)

Environment == UseContext \/ EditContext

MainStep ==
    \/ Resolve(Main) \/ ClearClients
    \/ Configure \/ Supply \/ RestoreBinding \/ RestoreClients

Next ==
    \/ Environment \/ MainStep
    \/ \E t \in Threads : Call(t) \/ Work(t)

Spec == Init /\ [][Next]_vars

\* Every call runs on, whatever it waits for returning.
FairSpec ==
    /\ Spec
    /\ WF_vars(Resolve(Main) \/ ClearClients)
    /\ \A t \in Threads : WF_vars(Work(t))

-----------------------------------------------------------------------------
(* Properties.                                                             *)

Labels == {"idle", "choosing", "binding", "using", "building", "requesting",
           "resolving", "loading", "fallback", "storing", "clearing", "ready", "supplied",
           "restoring", "exited"}

TypeOK ==
    /\ {arg, env} \subseteq Contexts \cup {None} /\ path \in BOOLEAN
    /\ current \in Contexts \cup {None} /\ loadable \subseteq Contexts
    /\ bound \in Bindings \cup {None}
    /\ client \in [Groups -> Clusters \cup {None}]
    /\ pc \in [Actors -> Labels]
    /\ asks \in [Actors -> Contexts \cup {None}]
    /\ named \in [Actors -> Contexts \cup {None}]
    /\ mine \in [Actors -> Bindings \cup {None}]
    /\ group \in [Actors -> Groups \cup {Direct}]
    /\ asked \in [Actors -> SUBSET (Clusters \cup {None})]
    /\ saved \in Saves \cup {None}
    /\ logged \in Clusters \cup {None}
    /\ contacted \subseteq Clusters \cup {None}

\* Between one call and the next, every client built is on the cluster bound:
\* one left from before a configure or a use_api_client block would answer
\* from another cluster.
OneCluster ==
    pc[Main] \in {"ready", "supplied"} /\ (\A t \in Threads : pc[t] = "idle") =>
        \A g \in Groups : client[g] # None => bound # None /\ client[g] = bound.cluster

\* One tool call's answer comes from one cluster, whatever happens to the
\* kubeconfig between its reads.
CallFromOneCluster == \A t \in Threads : Cardinality(asked[t]) <= 1

\* The server's answers all come from one cluster.
ServerFromOneCluster == Cardinality(contacted) <= 1

\* A server that bound at startup only ever asks the cluster its log names, on
\* any thread and whatever happened to the kubeconfig while it resolved.
AnswersAsLogged == logged # None => contacted \subseteq {logged}

\* A context selected explicitly is never replaced by another cluster, and with
\* any explicit selection, a kubeconfig's path too, the pod's own never answers
\* when what was selected doesn't load.
SelectionHonoured ==
    /\ arg # None => contacted \subseteq {arg}
    /\ arg = None /\ env # None => contacted \subseteq {env}
    /\ ~Library /\ path => Pod \notin contacted

\* A server started without a configuration asks a cluster once there is one,
\* if calls keep coming: a failed resolution leaves nothing that stops the next.
Settled(c) == current = c /\ c \in loadable

Recovers ==
    (\E c \in Contexts : <>[]Settled(c)) /\ (\A t \in Threads : []<>(pc[t] = "choosing"))
        => <>(contacted # {})
-----------------------------------------------------------------------------
(* What a program sees of it: the cluster selected is the one bound; a     *)
(* use_api_client block begins when its client is bound and ends when the  *)
(* binding saved is restored, and what it is to restore is in `saved'.     *)

ClusterOf(b) == IF b = None THEN None ELSE b.cluster
Entering == pc[Main] = "storing" /\ mine[Main].cluster = Supplied
InBlock == saved # None /\ ~Entering /\ pc[Main] # "restoring"
ToRestore == IF InBlock THEN <<ClusterOf(saved.bound)>> ELSE <<>>
Running == {t \in Threads : pc[t] # "idle"}
Answered == UNION {asked[t] : t \in Running}

Sel == INSTANCE Selection WITH
    now <- ClusterOf(bound), outer <- ToRestore, calling <- Running # {}, answered <- Answered

\* Each call is answered from the cluster selected and no other, whatever becomes of
\* the kubeconfig, and nothing selected in a use_api_client block outlives it
\* (_binding, _set_binding, configure, use_api_client).
SelectionKept == Sel!Spec
=============================================================================
