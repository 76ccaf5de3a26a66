------------------------- MODULE PreemptionContract -------------------------
(***************************************************************************)
(* What the watch-and-bind scheduler promises the cluster, as the spec     *)
(* states it (sections 4.5, 6 and the bind loop of section 2), with the    *)
(* scheduler's own state hidden.  Only three things of the cluster are     *)
(* visible: each pod's phase, its node and its deletion mark.              *)
(*                                                                         *)
(*   - the scheduler binds a pending, unbound pod to a schedulable node;   *)
(*   - it evicts a running pod of a schedulable node only on behalf of a   *)
(*     pending pod of strictly higher priority;                            *)
(*   - everything else is the cluster's: it never binds, never evicts,     *)
(*     never makes a pod pending again, and deletes only evicted pods.     *)
(*                                                                         *)
(* PreemptiveScheduler implements this specification with the identity    *)
(* mapping on these three variables (ImplementsContract).                  *)
(***************************************************************************)
EXTENDS Integers

CONSTANTS Nodes, Pods, NoNode, Prio, InitNode, Schedulable

VARIABLES phase, nodeOf, deleting

cvars == <<phase, nodeOf, deleting>>

Phases == {"Pending", "Bound", "Running", "Failed", "Gone"}

Init ==
    /\ phase = [p \in Pods |-> IF InitNode[p] = NoNode THEN "Pending" ELSE "Bound"]
    /\ nodeOf = InitNode
    /\ deleting = [p \in Pods |-> FALSE]

\* A pending, unbound pod is bound to a schedulable node.
BindPod(p, n) ==
    /\ phase[p] = "Pending" /\ nodeOf[p] = NoNode
    /\ n \in Schedulable
    /\ nodeOf' = [nodeOf EXCEPT ![p] = n]
    /\ phase' = [phase EXCEPT ![p] = "Bound"]
    /\ UNCHANGED deleting

\* A running pod of a schedulable node is evicted for a pending pod of
\* strictly higher priority.
EvictPod(q) ==
    /\ phase[q] = "Running" /\ nodeOf[q] \in Schedulable
    /\ \E p \in Pods : phase[p] = "Pending" /\ nodeOf[p] = NoNode /\ Prio[q] < Prio[p]
    /\ deleting' = [deleting EXCEPT ![q] = TRUE]
    /\ UNCHANGED <<phase, nodeOf>>

\* The kubelets and the API server: pods start, fail or are deleted, but
\* only a pod with a deletion mark is deleted, a pending pod stays pending
\* and no pod becomes pending.
ClusterStep ==
    /\ phase' \in [Pods -> Phases]
    /\ \A p \in Pods : (phase'[p] = "Pending") = (phase[p] = "Pending")
    /\ \A p \in Pods : phase'[p] = "Gone" /\ phase[p] # "Gone" => deleting[p]
    /\ UNCHANGED <<nodeOf, deleting>>

Next ==
    \/ \E p \in Pods, n \in Nodes : BindPod(p, n)
    \/ \E q \in Pods : EvictPod(q)
    \/ ClusterStep

Spec == Init /\ [][Next]_cvars

=============================================================================
