-------------------- MODULE PreemptionContract_proofs ---------------------
(***************************************************************************)
(* Proof that the watch-and-bind scheduler of PreemptiveScheduler, run    *)
(* next to the kubelets and Prometheus, implements PreemptionContract      *)
(* under the identity mapping on phase, nodeOf and deleting, for every     *)
(* value of the constants that satisfies ConstantsAssumption.              *)
(*                                                                         *)
(* The goroutine decides on state it read steps earlier: the pod list of   *)
(* watchForUnscheduledPods, the node findNodeForPod chose, the candidates  *)
(* of attemptPreemptionMulti.  The refinement holds because the cluster    *)
(* never undoes what those reads saw in the ways that matter: a pending   *)
(* pod stays pending and unbound until this goroutine binds it, and a     *)
(* running pod on a node only stops running by being deleted.  RInv says  *)
(* so about the values the goroutine holds.                               *)
(***************************************************************************)
EXTENDS PreemptiveScheduler_proofs

Unbound(p) == phase[p] = "Pending" /\ nodeOf[p] = NoNode

\* Every pod of the current List is still pending and unbound.
TodoPending == \A p \in todo : Unbound(p)

\* Inside findNodeForPod the pod being placed is pending, unbound and no
\* longer in the list.
CurPending ==
    pc \in {"node", "preempt", "accumulate", "evict", "recheck", "bind"} =>
        Unbound(cur) /\ cur \notin todo

\* The node preemption and binding work on passed isNodeReady.
NodeSchedulable ==
    pc \in {"preempt", "accumulate", "evict", "recheck", "bind"} => node \in Schedulable

\* Candidates and victims are pods of that node that run or are gone.
VictimsOnNode ==
    pc \in {"accumulate", "evict"} =>
        \A v \in VictimSet \cup cands : phase[v] \in {"Running", "Gone"} /\ nodeOf[v] = node

RInv == TodoPending /\ CurPending /\ NodeSchedulable /\ VictimsOnNode

USE DEF SchedPcs

-----------------------------------------------------------------------------
LEMMA RInvInit == Init => RInv
  BY DEF Init, RInv, TodoPending, CurPending, NodeSchedulable, VictimsOnNode

\* A step that leaves phase and nodeOf alone, keeps todo and cur, and
\* moves pc only among the places listed keeps the pending conjuncts.
LEMMA PendingKept ==
    ASSUME TodoPending, CurPending,
           UNCHANGED <<phase, nodeOf, todo, cur>>,
           pc' \in {"list", "pod"} \/ pc \in {"node", "preempt", "accumulate", "evict", "recheck", "bind"}
    PROVE  TodoPending' /\ CurPending'
  BY DEF TodoPending, CurPending, Unbound

LEMMA RInvStep == IInv /\ RInv /\ [Next]_vars => RInv'
  <1> SUFFICES ASSUME IInv, RInv, [Next]_vars PROVE RInv'
    OBVIOUS
  <1>0. /\ TypeOK /\ CurInRange /\ NodeInRange
        /\ TodoPending /\ CurPending /\ NodeSchedulable /\ VictimsOnNode
    BY DEF IInv, RInv
  <1>1. CASE ListUnscheduledPods
    BY <1>0, <1>1 DEF ListUnscheduledPods, cluster, RInv, TodoPending, CurPending,
       NodeSchedulable, VictimsOnNode, Unbound
  <1>2. CASE NextPod
    BY <1>0, <1>2 DEF NextPod, cluster, RInv, TodoPending, CurPending,
       NodeSchedulable, VictimsOnNode, Unbound
  <1>3. CASE TryNode
    <2>1. TodoPending' /\ CurPending'
      BY <1>0, <1>3, PendingKept DEF TryNode, NextNode, cluster
    <2>2. NodeSchedulable'
      BY <1>0, <1>3 DEF TryNode, NextNode, NodeSchedulable
    <2>3. VictimsOnNode'
      BY <1>0, <1>3 DEF TryNode, NextNode, VictimsOnNode
    <2>4. QED
      BY <2>1, <2>2, <2>3 DEF RInv
  <1>4. CASE StartPreemption
    <2>1. TodoPending' /\ CurPending' /\ NodeSchedulable'
      BY <1>0, <1>4, PendingKept DEF StartPreemption, NextNode, cluster, NodeSchedulable
    <2>2. VictimsOnNode'
      BY <1>0, <1>4 DEF StartPreemption, NextNode, cluster, VictimsOnNode, VictimSet,
         Candidates, getRunningPods
    <2>3. QED
      BY <2>1, <2>2 DEF RInv
  <1>5. CASE AccumulateVictim
    <2>1. PICK c \in NextCandidate(cands) :
               /\ cands' = cands \ {c}
               /\ victims' = Append(victims, c)
               /\ pc' \in {"evict", "accumulate", "node"}
               /\ UNCHANGED <<cluster, todo, cur, node>>
      BY <1>5 DEF AccumulateVictim, NextNode
    <2>2. c \in cands /\ c \in Pods
      BY <1>0, <2>1, NextCandidateLowest DEF TypeOK
    <2>3. VictimSet' = VictimSet \cup {c}
      <3>1. victims \in Seq(Pods)
        BY <1>0 DEF TypeOK
      <3>2. {Append(victims, c)[i] : i \in DOMAIN Append(victims, c)} = VictimSet \cup {c}
        <4>1. /\ Len(victims) \in Nat /\ DOMAIN victims = 1..Len(victims)
              /\ DOMAIN Append(victims, c) = 1..Len(victims) + 1
              /\ \A i \in 1..Len(victims) : Append(victims, c)[i] = victims[i]
              /\ Append(victims, c)[Len(victims) + 1] = c
          BY <2>2, <3>1, LenProperties, AppendProperties
        <4>2. QED
          BY <4>1 DEF VictimSet
      <3>3. QED
        BY <2>1, <3>2 DEF VictimSet
    <2>4. TodoPending' /\ CurPending' /\ NodeSchedulable'
      BY <1>0, <1>5, <2>1, PendingKept DEF AccumulateVictim, cluster, NodeSchedulable
    <2>5. VictimsOnNode'
      BY <1>0, <1>5, <2>1, <2>2, <2>3 DEF AccumulateVictim, cluster, VictimsOnNode
    <2>6. QED
      BY <2>4, <2>5 DEF RInv
  <1>6. CASE EvictVictim
    <2>1. TodoPending' /\ CurPending'
      BY <1>0, <1>6, PendingKept DEF EvictVictim, NextNode
    <2>2. NodeSchedulable' /\ VictimsOnNode'
      BY <1>0, <1>6 DEF EvictVictim, NextNode, NodeSchedulable, VictimsOnNode, VictimSet
    <2>3. QED
      BY <2>1, <2>2 DEF RInv
  <1>7. CASE Recheck
    BY <1>0, <1>7, PendingKept DEF Recheck, NextNode, cluster, RInv, NodeSchedulable,
       VictimsOnNode
  <1>8. CASE Bind
    <2>1. cur \in Pods /\ cur \notin todo
      BY <1>0, <1>8 DEF Bind, CurInRange, CurPending
    <2>2. \A p \in todo : phase'[p] = phase[p] /\ nodeOf'[p] = nodeOf[p]
      <3>1. todo \subseteq Pods /\ DOMAIN phase = Pods /\ DOMAIN nodeOf = Pods
        BY <1>0 DEF TypeOK
      <3>2. CASE nodeOf' = [nodeOf EXCEPT ![cur] = node] /\ phase' = [phase EXCEPT ![cur] = "Bound"]
        BY <2>1, <3>1, <3>2
      <3>3. CASE UNCHANGED <<nodeOf, phase>>
        BY <3>3
      <3>4. QED
        BY <1>8, <3>2, <3>3 DEF Bind
    <2>3. TodoPending'
      <3>1. todo' = todo
        BY <1>8 DEF Bind
      <3>2. QED
        BY <1>0, <2>2, <3>1 DEF TodoPending, Unbound
    <2>4. pc' = "pod"
      BY <1>8 DEF Bind
    <2>5. QED
      BY <2>3, <2>4 DEF RInv, CurPending, NodeSchedulable, VictimsOnNode
  <1>9. ASSUME NEW p \in Pods, KubeletAdmit(p) PROVE RInv'
    <2>1. \/ phase' = [phase EXCEPT ![p] = "Running"]
          \/ phase' = [phase EXCEPT ![p] = "Failed"]
      BY <1>9 DEF KubeletAdmit
    <2>2. phase[p] = "Bound" /\ UNCHANGED <<nodeOf, sched>>
      BY <1>9 DEF KubeletAdmit
    <2>3. \A q \in Pods : q # p => phase'[q] = phase[q]
      BY <1>0, <2>1 DEF TypeOK
    <2>4. \A q \in Pods : phase[q] \in {"Pending", "Running", "Gone"} => phase'[q] = phase[q]
      BY <2>2, <2>3
    <2>5. TodoPending' /\ CurPending'
      <3>1. pc' = pc /\ todo' = todo /\ cur' = cur /\ nodeOf' = nodeOf
        BY <2>2 DEF sched
      <3>2. todo \subseteq Pods /\ (pc \in SchedPcs \ {"list", "pod"} => cur \in Pods)
        BY <1>0 DEF TypeOK, CurInRange
      <3>3. TodoPending'
        BY <1>0, <2>4, <3>1, <3>2 DEF TodoPending, Unbound
      <3>4. CurPending'
        BY <1>0, <2>4, <3>1, <3>2 DEF CurPending, Unbound
      <3>5. QED
        BY <3>3, <3>4
    <2>6. VictimsOnNode'
      <3>1. pc \in {"accumulate", "evict"} => VictimSet \cup cands \subseteq Pods
        BY <1>0 DEF TypeOK, VictimSet
      <3>2. QED
        BY <1>0, <2>2, <2>4, <3>1 DEF sched, VictimsOnNode, VictimSet
    <2>7. QED
      BY <2>2, <2>5, <2>6 DEF sched, RInv, NodeSchedulable
  <1>10. ASSUME NEW p \in Pods, Terminate(p) PROVE RInv'
    <2>1. phase' = [phase EXCEPT ![p] = "Gone"] /\ phase[p] = "Running"
          /\ UNCHANGED <<nodeOf, sched>>
      BY <1>10 DEF Terminate
    <2>2. \A q \in Pods : phase'[q] = IF q = p THEN "Gone" ELSE phase[q]
      BY <1>0, <2>1 DEF TypeOK
    <2>3. TodoPending' /\ CurPending'
      BY <1>0, <2>1, <2>2 DEF sched, TodoPending, CurPending, Unbound, TypeOK, CurInRange
    <2>4. VictimsOnNode'
      <3>1. pc \in {"accumulate", "evict"} => VictimSet \cup cands \subseteq Pods
        BY <1>0 DEF TypeOK, VictimSet
      <3>2. QED
        BY <1>0, <2>1, <2>2, <3>1 DEF sched, VictimsOnNode, VictimSet
    <2>5. QED
      BY <2>1, <2>3, <2>4 DEF sched, RInv, NodeSchedulable
  <1>11. ASSUME NEW n \in Nodes, Scrape(n) PROVE RInv'
    BY <1>0, <1>11 DEF Scrape, sched, RInv, TodoPending, CurPending, NodeSchedulable,
       VictimsOnNode, Unbound, VictimSet
  <1>12. CASE UNCHANGED vars
    BY <1>0, <1>12 DEF vars, cluster, sched, RInv, TodoPending, CurPending, NodeSchedulable,
       VictimsOnNode, Unbound, VictimSet
  <1>13. QED
    BY <1>1, <1>2, <1>3, <1>4, <1>5, <1>6, <1>7, <1>8, <1>9, <1>10, <1>11, <1>12
       DEF Next, Scheduler, Environment

\* RInv holds in every reachable state.
THEOREM RInvHolds == Spec => [](IInv /\ RInv)
  BY InvariantHolds, IInvInit, IInvStep, RInvInit, RInvStep, PTL DEF Spec


-----------------------------------------------------------------------------
(* The refinement.                                                          *)

\* The steps that leave phase, nodeOf and deleting alone are stutters of
\* the contract.
LEMMA ContractStutter ==
    ASSUME UNCHANGED <<phase, nodeOf, deleting>> PROVE [Contract!Next]_Contract!cvars
  BY DEF Contract!cvars

\* A kubelet or a termination step changes only phases, makes no pod pending
\* and no pending pod anything else, and deletes only an evicted pod.
LEMMA ClusterStepOf ==
    ASSUME TypeOK, NEW p \in Pods, NEW new \in {"Running", "Failed", "Gone"},
           phase[p] \in {"Bound", "Running"}, new = "Gone" => deleting[p],
           phase' = [phase EXCEPT ![p] = new],
           UNCHANGED <<nodeOf, deleting>>
    PROVE  Contract!ClusterStep
  <1>1. phase' \in [Pods -> Contract!Phases]
    BY DEF TypeOK, Contract!Phases
  <1>2. \A q \in Pods : (phase'[q] = "Pending") = (phase[q] = "Pending")
    BY DEF TypeOK
  <1>3. \A q \in Pods : phase'[q] = "Gone" /\ phase[q] # "Gone" => deleting[q]
    BY DEF TypeOK
  <1>4. QED
    BY <1>1, <1>2, <1>3 DEF Contract!ClusterStep

LEMMA RefineStep == IInv /\ RInv /\ [Next]_vars => [Contract!Next]_Contract!cvars
  <1> SUFFICES ASSUME IInv, RInv, [Next]_vars PROVE [Contract!Next]_Contract!cvars
    OBVIOUS
  <1>0. /\ TypeOK /\ CurInRange /\ NodeInRange /\ CounterInRange /\ VictimsLower
        /\ CurPending /\ NodeSchedulable /\ VictimsOnNode
    BY DEF IInv, RInv
  <1>1. CASE ListUnscheduledPods \/ NextPod \/ TryNode \/ StartPreemption
             \/ AccumulateVictim \/ Recheck
    BY <1>1, ContractStutter DEF ListUnscheduledPods, NextPod, TryNode, StartPreemption,
       AccumulateVictim, Recheck, cluster
  <1>2. CASE EvictVictim
    <2> DEFINE v == victims[evicted + 1]
    <2>1. CASE deleting' = [deleting EXCEPT ![v] = TRUE] /\ phase[v] # "Gone"
      <3>1. v \in VictimSet /\ v \in Pods
        <4>1. evicted + 1 \in 1..Len(victims) /\ victims \in Seq(Pods)
          BY <1>0, <1>2 DEF EvictVictim, TypeOK, CounterInRange
        <4>. QED
          BY <4>1 DEF VictimSet, v
      <3>2. phase[v] = "Running" /\ nodeOf[v] \in Schedulable
        BY <1>0, <1>2, <2>1, <3>1 DEF EvictVictim, VictimsOnNode, NodeSchedulable, v
      <3>3. cur \in Pods /\ Unbound(cur) /\ Prio[v] < Prio[cur]
        BY <1>0, <1>2, <3>1 DEF EvictVictim, CurInRange, CurPending, VictimsLower, v
      <3>4. UNCHANGED <<phase, nodeOf>>
        BY <1>2 DEF EvictVictim
      <3>5. Contract!EvictPod(v)
        BY <2>1, <3>2, <3>3, <3>4 DEF Contract!EvictPod, Unbound, v
      <3>. QED
        BY <3>1, <3>5 DEF Contract!Next
    <2>2. CASE UNCHANGED deleting
      BY <1>2, <2>2, ContractStutter DEF EvictVictim
    <2>. QED
      BY <1>2, <2>1, <2>2 DEF EvictVictim, v
  <1>3. CASE Bind
    <2>1. CASE nodeOf' = [nodeOf EXCEPT ![cur] = node] /\ phase' = [phase EXCEPT ![cur] = "Bound"]
      <3>1. cur \in Pods /\ Unbound(cur) /\ node \in Schedulable /\ node \in Nodes
        BY <1>0, <1>3 DEF Bind, CurInRange, CurPending, NodeSchedulable, NodeInRange
      <3>2. Contract!BindPod(cur, node)
        BY <1>3, <2>1, <3>1 DEF Bind, Contract!BindPod, Unbound
      <3>. QED
        BY <3>1, <3>2 DEF Contract!Next
    <2>2. CASE UNCHANGED <<nodeOf, phase>>
      BY <1>3, <2>2, ContractStutter DEF Bind
    <2>. QED
      BY <1>3, <2>1, <2>2 DEF Bind
  <1>4. ASSUME NEW p \in Pods, KubeletAdmit(p) PROVE [Contract!Next]_Contract!cvars
    <2>1. \E new \in {"Running", "Failed", "Gone"} :
            /\ phase' = [phase EXCEPT ![p] = new]
            /\ new = "Gone" => deleting[p]
      BY <1>4 DEF KubeletAdmit
    <2>2. Contract!ClusterStep
      BY <1>0, <1>4, <2>1, ClusterStepOf DEF KubeletAdmit
    <2>. QED
      BY <2>2 DEF Contract!Next
  <1>5. ASSUME NEW p \in Pods, Terminate(p) PROVE [Contract!Next]_Contract!cvars
    <2>1. Contract!ClusterStep
      BY <1>0, <1>5, ClusterStepOf DEF Terminate
    <2>. QED
      BY <2>1 DEF Contract!Next
  <1>6. ASSUME NEW n \in Nodes, Scrape(n) PROVE [Contract!Next]_Contract!cvars
    BY <1>6, ContractStutter DEF Scrape
  <1>7. CASE UNCHANGED vars
    BY <1>7, ContractStutter DEF vars, cluster
  <1>8. QED
    BY <1>1, <1>2, <1>3, <1>4, <1>5, <1>6, <1>7 DEF Next, Scheduler, Environment

\* The scheduler with the kubelets and Prometheus implements the contract:
\* watchForUnscheduledPods binds only pending, unbound pods to schedulable
\* nodes, and attemptPreemptionMulti evicts only running pods of a
\* schedulable node for a pending pod of higher priority, for every instance
\* of the constants (ImplementsContract).
THEOREM Refinement == Spec => ImplementsContract
  <1>1. Init => Contract!Init
    BY DEF Init, Contract!Init
  <1>2. QED
    BY <1>1, RInvHolds, RefineStep, PTL DEF Spec, ImplementsContract, Contract!Spec

=============================================================================
