----------------------------- MODULE Selection ------------------------------
(***************************************************************************)
(* What a program using the library is promised of where its answers come  *)
(* from, with no mention of bindings, clients or a kubeconfig: at any time *)
(* one cluster is selected, or none yet; a call is answered from that one  *)
(* alone; what is selected changes between calls, or in the first call     *)
(* that needs one; and what a use_api_client block supplies, or anything   *)
(* that is selected within it, ends with the block.                        *)
(***************************************************************************)
EXTENDS Sequences

CONSTANTS
    Clusters,
    Supplied,    \* the cluster a block supplies
    None

VARIABLES
    now,         \* the cluster selected, or None
    outer,       \* in a block, what was selected before it; else empty
    calling,
    answered     \* the clusters the running call was answered from

vars == <<now, outer, calling, answered>>

Init == now = None /\ outer = <<>> /\ calling = FALSE /\ answered = {}

Select(c) == now' = c /\ UNCHANGED <<outer, calling, answered>>

\* A configure, and a call that finds none selected.
Configure(c) == ~calling /\ Select(c)
First(c) == calling /\ now = None /\ Select(c)

Begin == ~calling /\ calling' = TRUE /\ UNCHANGED <<now, outer, answered>>
Ask == calling /\ now # None /\ answered' = answered \cup {now} /\ UNCHANGED <<now, outer, calling>>
End == calling /\ calling' = FALSE /\ answered' = {} /\ UNCHANGED <<now, outer>>

Enter == ~calling /\ outer = <<>> /\ outer' = <<now>> /\ now' = Supplied /\ UNCHANGED <<calling, answered>>
Leave == ~calling /\ outer # <<>> /\ now' = Head(outer) /\ outer' = <<>> /\ UNCHANGED <<calling, answered>>

Next ==
    \/ \E c \in Clusters \ {Supplied} : Configure(c) \/ First(c)
    \/ Begin \/ Ask \/ End \/ Enter \/ Leave

Spec == Init /\ [][Next]_vars
=============================================================================
