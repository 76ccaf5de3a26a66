--------------------- MODULE PreemptiveScheduler_proofs ---------------------
(***************************************************************************)
(* Proofs about the watch-and-bind scheduler of PreemptiveScheduler, for  *)
(* every value of the constants that satisfies ConstantsAssumption.       *)
(***************************************************************************)
EXTENDS PreemptiveScheduler, SequenceTheorems, TLAPS

SchedPcs == {"list", "pod", "node", "preempt", "accumulate", "evict", "recheck", "bind"}

(* The inductive strengthening.  TypeOK alone is not inductive: evictPod  *)
(* indexes victims with the eviction counter, and getNodeStats reads the  *)
(* samples of the node being tried, so the invariant must say that inside *)
(* findNodeForPod cur is a pod and node a node, that the counter is 0      *)
(* while victims are chosen and in range while they are evicted.  The two *)
(* priority conjuncts carry what the sort and the candidate filter of     *)
(* attemptPreemptionMulti establish over the victim loop.                 *)
\* TypeOK split into the cluster's and the scheduler goroutine's variables.
TypeCluster ==
    /\ phase \in [Pods -> {"Pending", "Bound", "Running", "Failed", "Gone"}]
    /\ nodeOf \in [Pods -> Nodes \cup {NoNode}]
    /\ deleting \in [Pods -> BOOLEAN]
    /\ used \in [Nodes -> Res]
    /\ seen \in [Nodes -> Res]
TypeSched ==
    /\ enablePreemption \in BOOLEAN
    /\ pc \in SchedPcs
    /\ todo \subseteq Pods
    /\ cur \in Pods \cup {NoPod}
    /\ nodesLeft \subseteq Nodes
    /\ node \in Nodes \cup {NoNode}
    /\ stats \in Stats
    /\ cands \subseteq Pods
    /\ freed \in Res
    /\ victims \in Seq(Pods)
    /\ evicted \in 0..Len(victims)

CurInRange == pc \in SchedPcs \ {"list", "pod"} => cur \in Pods
NodeInRange == pc \in SchedPcs \ {"list", "pod", "node"} => node \in Nodes
CounterReset == pc = "accumulate" => evicted = 0
CounterInRange == pc = "evict" => evicted < Len(victims)
VictimsLower == pc \in {"accumulate", "evict"} => \A v \in VictimSet \cup cands : Prio[v] < Prio[cur]

IInv ==
    /\ TypeOK
    /\ CurInRange
    /\ NodeInRange
    /\ CounterReset
    /\ CounterInRange
    /\ VictimsLower
    /\ VictimsLowestFirst

USE DEF SchedPcs

-----------------------------------------------------------------------------
(* Lemmas on the helpers the actions are built from.                       *)

\* getNodeStats of a node yields well-typed NodeStats whatever the samples.
LEMMA StatsTyped ==
    ASSUME TypeOK, NEW n \in Nodes
    PROVE  getNodeStats(n) \subseteq Stats
  <1>1. Sample(n) \subseteq Nodes
    BY DEF Sample
  <1>2. /\ CpuTotalAssumed \in Int /\ DefaultCpuFree \in Int
        /\ DefaultMemTotal \in Int /\ DefaultMemFree \in Int
    BY ConstantsAssumption
  <1>3. \A m \in Sample(n) : seen[m].cpu \in Int /\ seen[m].mem \in Int /\ NodeMem[m] \in Int
    <2>1. \A m \in Nodes : seen[m] \in Res
      BY DEF TypeOK
    <2>2. \A m \in Nodes : seen[m].cpu \in Int /\ seen[m].mem \in Int
      BY <2>1 DEF Res
    <2>3. \A m \in Nodes : NodeMem[m] \in Int
      BY ConstantsAssumption
    <2>4. QED
      BY <1>1, <2>2, <2>3
  <1>4. \A c \in CpuOutcomes(n) : c.total \in Int /\ c.free \in Int
    BY <1>2, <1>3 DEF CpuOutcomes
  <1>5. \A t \in MemTotalOutcomes(n) : t \in Int
    BY <1>2, <1>3 DEF MemTotalOutcomes
  <1>6. \A m \in MemOutcomes(n) : m.total \in Int /\ m.free \in Int
    BY <1>2, <1>3, <1>5 DEF MemOutcomes
  <1>7. QED
    BY <1>4, <1>6 DEF getNodeStats, Stats

\* Adding or removing a request keeps a resource vector a resource vector.
LEMMA ResArith ==
    ASSUME NEW a \in Res, NEW p \in Pods
    PROVE  Plus(a, Req(p)) \in Res /\ Minus(a, Req(p)) \in Res
  BY ConstantsAssumption DEF Res, Plus, Minus, Req

\* The candidates are running pods of lower priority than the pod.
LEMMA CandidatesLower ==
    ASSUME NEW p \in Pods, NEW n
    PROVE  /\ Candidates(p, n) \subseteq Pods
           /\ \A q \in Candidates(p, n) : Prio[q] < Prio[p]
  BY ConstantsAssumption DEF Candidates, getRunningPods

\* The next candidate is one of the candidates, of the lowest priority.
LEMMA NextCandidateLowest ==
    ASSUME NEW cs, NEW c \in NextCandidate(cs)
    PROVE  c \in cs /\ \A d \in cs : Prio[c] <= Prio[d]
  BY DEF NextCandidate

-----------------------------------------------------------------------------
(* The inductive invariant.                                                *)

LEMMA TypeSplit == TypeOK <=> TypeCluster /\ TypeSched
  BY DEF TypeOK, TypeCluster, TypeSched, SchedPcs

LEMMA TypeJoin ==
    ASSUME TypeCluster', TypeSched' PROVE TypeOK'
  BY DEF TypeOK, TypeCluster, TypeSched, SchedPcs

LEMMA ClusterUnchanged ==
    ASSUME TypeCluster, UNCHANGED cluster PROVE TypeCluster'
  BY DEF TypeCluster, cluster

LEMMA IInvInit == Init => IInv
  BY ConstantsAssumption DEF Init, IInv, TypeOK, Stats, Res, Zero, SchedPcs, CurInRange, NodeInRange,
         CounterReset, CounterInRange, VictimsLower, VictimsLowestFirst

\* The conjuncts other than TypeOK only read the scheduler's variables.
LEMMA SchedUnchanged ==
    ASSUME IInv, UNCHANGED sched
    PROVE  /\ TypeSched'
           /\ CurInRange' /\ NodeInRange' /\ CounterReset' /\ CounterInRange'
           /\ VictimsLower' /\ VictimsLowestFirst'
  BY TypeSplit DEF IInv, sched, TypeSched, CurInRange, NodeInRange, CounterReset, CounterInRange,
         VictimsLower, VictimsLowestFirst, VictimSet

LEMMA IInvStep == IInv /\ [Next]_vars => IInv'
  <1> SUFFICES ASSUME IInv, [Next]_vars PROVE IInv'
    OBVIOUS
  <1>0. TypeOK /\ CurInRange /\ NodeInRange /\ CounterReset /\ CounterInRange
        /\ VictimsLower /\ VictimsLowestFirst
    BY DEF IInv
  <1> USE DEF IInv
  <1>1. CASE ListUnscheduledPods
    <2>1. TypeOK'
      <3>1. TypeSched'
        BY <1>0, <1>1 DEF ListUnscheduledPods, TypeOK, TypeSched
      <3>2. QED
        BY <1>0, <1>1, <3>1, TypeSplit, ClusterUnchanged, TypeJoin DEF ListUnscheduledPods
    <2>2. QED
      BY <1>0, <1>1, <2>1 DEF ListUnscheduledPods, CurInRange, NodeInRange, CounterReset,
         CounterInRange, VictimsLower, VictimsLowestFirst, SchedPcs
  <1>2. CASE NextPod
    <2>1. TypeSched'
      BY <1>0, <1>2 DEF NextPod, NextNode, TypeOK, TypeSched
    <2>2. TypeOK'
      BY <1>0, <1>2, <2>1, TypeSplit, ClusterUnchanged, TypeJoin DEF NextPod
    <2>3. QED
      BY <1>0, <1>2, <2>2 DEF NextPod, NextNode, TypeOK, CurInRange, NodeInRange, CounterReset, CounterInRange, VictimsLower, VictimsLowestFirst
  <1>3. CASE TryNode
    <2>1. TypeSched'
      BY <1>0, <1>3, StatsTyped DEF TryNode, NextNode, TypeOK, TypeSched
    <2>2. TypeOK'
      BY <1>0, <1>3, <2>1, TypeSplit, ClusterUnchanged, TypeJoin DEF TryNode
    <2>3. QED
      BY <1>0, <1>3, <2>2, StatsTyped DEF TryNode, NextNode, TypeOK, CurInRange, NodeInRange, CounterReset, CounterInRange, VictimsLower, VictimsLowestFirst
  <1>4. CASE StartPreemption
    <2>0. cur \in Pods /\ node \in Nodes
      BY <1>0, <1>4 DEF StartPreemption, CurInRange, NodeInRange
    <2>1. /\ Candidates(cur, node) \subseteq Pods
          /\ \A q \in Candidates(cur, node) : Prio[q] < Prio[cur]
      BY <2>0, CandidatesLower
    <2>2. UNCHANGED <<cluster, enablePreemption, todo, cur, node, stats>>
      BY <1>4 DEF StartPreemption
    <2>3. CASE /\ cands' = Candidates(cur, node)
               /\ freed' = Zero
               /\ victims' = <<>>
               /\ evicted' = 0
               /\ pc' = "accumulate"
               /\ UNCHANGED nodesLeft
      <3>1. TypeSched'
        BY <1>0, <2>1, <2>2, <2>3 DEF TypeOK, TypeSched, Zero, Res
      <3>2. VictimSet' = {}
        BY <2>3 DEF VictimSet
      <3>3. QED
        BY <1>0, <2>0, <2>1, <2>2, <2>3, <3>1, <3>2, TypeSplit, ClusterUnchanged, TypeJoin
           DEF CurInRange, NodeInRange, CounterReset, CounterInRange, VictimsLower, VictimsLowestFirst
    <2>4. CASE NextNode(node) /\ UNCHANGED <<cands, freed, victims, evicted>>
      <3>1. TypeSched'
        BY <1>0, <2>2, <2>4 DEF NextNode, TypeOK, TypeSched
      <3>2. QED
        BY <1>0, <2>0, <2>2, <2>4, <3>1, TypeSplit, ClusterUnchanged, TypeJoin
           DEF NextNode, CurInRange, NodeInRange, CounterReset, CounterInRange, VictimsLower, VictimsLowestFirst, VictimSet
    <2>5. QED
      BY <1>4, <2>3, <2>4 DEF StartPreemption
  <1>5. CASE AccumulateVictim
    <2>0. /\ cur \in Pods /\ node \in Nodes /\ evicted = 0
          /\ \A v \in VictimSet \cup cands : Prio[v] < Prio[cur]
          /\ \A v \in VictimSet, d \in cands : Prio[v] <= Prio[d]
      BY <1>0, <1>5 DEF AccumulateVictim, CurInRange, NodeInRange, CounterReset,
         VictimsLower, VictimsLowestFirst
    <2>1. PICK c \in NextCandidate(cands) :
               /\ cands' = cands \ {c}
               /\ freed' = Plus(freed, Req(c))
               /\ victims' = Append(victims, c)
               /\ IF canScheduleAfterPreemption(cur, stats, freed')
                    THEN pc' = "evict" /\ UNCHANGED nodesLeft
                  ELSE IF cands' = {} THEN NextNode(node)
                  ELSE pc' = "accumulate" /\ UNCHANGED nodesLeft
      BY <1>5 DEF AccumulateVictim
    <2>2. c \in cands /\ \A d \in cands : Prio[c] <= Prio[d]
      BY <2>1, NextCandidateLowest
    <2>3. c \in Pods /\ Prio[c] \in Int
      BY <1>0, <2>2, ConstantsAssumption DEF TypeOK
    <2>4. VictimSet' = VictimSet \cup {c}
      <3>1. victims \in Seq(Pods)
        BY <1>0 DEF TypeOK
      <3>2. {Append(victims, c)[i] : i \in DOMAIN Append(victims, c)} = VictimSet \cup {c}
        <4>1. /\ Len(victims) \in Nat /\ DOMAIN victims = 1..Len(victims)
              /\ DOMAIN Append(victims, c) = 1..Len(victims) + 1
              /\ \A i \in 1..Len(victims) : Append(victims, c)[i] = victims[i]
              /\ Append(victims, c)[Len(victims) + 1] = c
          BY <2>3, <3>1, LenProperties, AppendProperties
        <4>2. QED
          BY <4>1 DEF VictimSet
      <3>3. QED
        BY <2>1, <3>2 DEF VictimSet
    <2>5. pc' \in {"evict", "accumulate", "node"} /\ UNCHANGED <<cur, node, evicted>>
      BY <1>5, <2>1 DEF AccumulateVictim, NextNode
    <2>6. TypeSched'
      BY <1>0, <1>5, <2>1, <2>3, <2>5, ResArith DEF AccumulateVictim, NextNode, TypeOK, TypeSched
    <2>7. TypeOK'
      BY <1>0, <1>5, <2>6, TypeSplit, ClusterUnchanged, TypeJoin DEF AccumulateVictim
    <2>8. CurInRange' /\ NodeInRange' /\ CounterReset'
      BY <2>0, <2>5 DEF CurInRange, NodeInRange, CounterReset
    <2>9. CounterInRange'
      BY <1>0, <2>0, <2>1, <2>3, <2>5 DEF CounterInRange, TypeOK
    <2>10. VictimsLower'
      BY <2>0, <2>1, <2>2, <2>4, <2>5 DEF VictimsLower
    <2>11. VictimsLowestFirst'
      <3>1. \A v \in VictimSet \cup {c}, d \in cands \ {c} : Prio[v] <= Prio[d]
        BY <2>0, <2>2
      <3>2. QED
        BY <3>1, <2>1, <2>4 DEF VictimsLowestFirst
    <2>12. QED
      BY <2>7, <2>8, <2>9, <2>10, <2>11
  <1>6. CASE EvictVictim
    <2>1. TypeSched'
      BY <1>0, <1>6 DEF EvictVictim, NextNode, TypeOK, TypeSched, CounterInRange
    <2>2. TypeOK'
      <3>1. TypeCluster'
        BY <1>0, <1>6 DEF EvictVictim, NextNode, TypeOK, TypeCluster
      <3>2. QED
        BY <2>1, <3>1, TypeJoin
    <2>3. QED
      BY <1>0, <1>6, <2>2 DEF EvictVictim, NextNode, TypeOK, CurInRange, NodeInRange, CounterReset, CounterInRange, VictimsLower, VictimsLowestFirst, VictimSet
  <1>7. CASE Recheck
    <2>1. TypeSched'
      <3>1. node \in Nodes
        BY <1>0, <1>7 DEF Recheck, NodeInRange
      <3>2. getNodeStats(node) \subseteq Stats
        BY <1>0, <3>1, StatsTyped
      <3>3. QED
        BY <1>0, <1>7, <3>2 DEF Recheck, NextNode, TypeOK, TypeSched
    <2>2. TypeOK'
      BY <1>0, <1>7, <2>1, TypeSplit, ClusterUnchanged, TypeJoin DEF Recheck
    <2>3. QED
      BY <1>0, <1>7, <2>2, StatsTyped DEF Recheck, NextNode, TypeOK, CurInRange, NodeInRange, CounterReset, CounterInRange, VictimsLower, VictimsLowestFirst
  <1>8. CASE Bind
    <2>1. TypeSched'
      BY <1>0, <1>8 DEF Bind, NextNode, TypeOK, TypeSched
    <2>2. TypeOK'
      <3>1. TypeCluster'
        BY <1>0, <1>8 DEF Bind, NextNode, TypeOK, TypeCluster
      <3>2. QED
        BY <2>1, <3>1, TypeJoin
    <2>3. QED
      BY <1>0, <1>8, <2>2 DEF Bind, NextNode, TypeOK, CurInRange, NodeInRange, CounterReset, CounterInRange, VictimsLower, VictimsLowestFirst
  <1>9. ASSUME NEW p \in Pods, KubeletAdmit(p) PROVE IInv'
    <2>1. TypeCluster'
      <3>1. CASE nodeOf[p] \in Nodes
        <4>1. Plus(used[nodeOf[p]], Req(p)) \in Res
          BY <1>0, <3>1, ResArith DEF TypeOK
        <4>2. QED
          BY <1>0, <1>9, <3>1, <4>1 DEF KubeletAdmit, TypeOK, TypeCluster
      <3>2. CASE nodeOf[p] \notin Nodes
        <4>1. used' = used
          <5>1. \A x : [used EXCEPT ![nodeOf[p]] = x] = used
            BY <1>0, <3>2 DEF TypeOK, TypeCluster
          <5>. QED
            BY <1>9, <5>1 DEF KubeletAdmit
        <4>2. phase' \in [Pods -> {"Pending", "Bound", "Running", "Failed", "Gone"}]
          BY <1>0, <1>9 DEF KubeletAdmit, TypeOK, TypeCluster
        <4>. QED
          BY <1>0, <1>9, <4>1, <4>2 DEF KubeletAdmit, TypeOK, TypeCluster
      <3>3. QED
        BY <3>1, <3>2
    <2>2. QED
      BY <1>0, <1>9, <2>1, TypeJoin, SchedUnchanged DEF KubeletAdmit
  <1>10. ASSUME NEW p \in Pods, Terminate(p) PROVE IInv'
    <2>1. TypeCluster'
      <3>1. CASE nodeOf[p] \in Nodes
        <4>1. Minus(used[nodeOf[p]], Req(p)) \in Res
          BY <1>0, <3>1, ResArith DEF TypeOK
        <4>2. QED
          BY <1>0, <1>10, <3>1, <4>1 DEF Terminate, TypeOK, TypeCluster
      <3>2. CASE nodeOf[p] \notin Nodes
        BY <1>0, <1>10, <3>2 DEF Terminate, TypeOK, TypeCluster
      <3>3. QED
        BY <3>1, <3>2
    <2>2. QED
      BY <1>0, <1>10, <2>1, TypeJoin, SchedUnchanged DEF Terminate
  <1>11. ASSUME NEW n \in Nodes, Scrape(n) PROVE IInv'
    <2>1. TypeCluster'
      BY <1>0, <1>11 DEF Scrape, TypeOK, TypeCluster
    <2>2. QED
      BY <1>0, <1>11, <2>1, TypeJoin, SchedUnchanged DEF Scrape
  <1>12. CASE UNCHANGED vars
    BY <1>12 DEF vars, cluster, sched, TypeOK, CurInRange, NodeInRange, CounterReset,
       CounterInRange, VictimsLower, VictimsLowestFirst, VictimSet
  <1>13. QED
    BY <1>1, <1>2, <1>3, <1>4, <1>5, <1>6, <1>7, <1>8, <1>9, <1>10, <1>11, <1>12
       DEF Next, Scheduler, Environment

-----------------------------------------------------------------------------
(* The theorems.                                                           *)

\* IInv holds in every reachable state of the scheduler and the cluster.
THEOREM InvariantHolds == Spec => []IInv
  BY IInvInit, IInvStep, PTL DEF Spec

\* Every variable of the scheduler and the cluster keeps its type: in
\* particular evictPod never indexes past the victims of attemptPreemptionMulti.
THEOREM TypeCorrect == Spec => []TypeOK
  <1>1. IInv => TypeOK
    BY DEF IInv
  <1>2. QED
    BY <1>1, InvariantHolds, PTL

\* attemptPreemptionMulti takes the candidates lowest priority first: while
\* victims are chosen and evicted, no candidate left over has a lower priority
\* than a victim (VictimsLowestFirst, for every instance of the constants).
THEOREM LowestFirstHolds == Spec => []VictimsLowestFirst
  <1>1. IInv => VictimsLowestFirst
    BY DEF IInv
  <1>2. QED
    BY <1>1, InvariantHolds, PTL

\* The step of EvictsOnlyLowerPriority: a deletion timestamp set by a step
\* is set on a pod of lower priority than the pod being placed.
EvictAction == \A p \in Pods : ~deleting[p] /\ deleting'[p] => Prio[p] < Prio[cur]

LEMMA EvictStep == IInv /\ [Next]_vars => [EvictAction]_vars
  <1> SUFFICES ASSUME IInv, [Next]_vars PROVE EvictAction
    OBVIOUS
  <1>1. CASE EvictVictim
    <2>1. /\ evicted + 1 \in 1..Len(victims)
          /\ victims \in Seq(Pods)
          /\ \A v \in VictimSet : Prio[v] < Prio[cur]
      BY <1>1 DEF EvictVictim, IInv, TypeOK, CounterInRange, VictimsLower
    <2>2. victims[evicted + 1] \in VictimSet
      BY <2>1 DEF VictimSet
    <2>3. \/ deleting' = [deleting EXCEPT ![victims[evicted + 1]] = TRUE]
          \/ UNCHANGED deleting
      BY <1>1 DEF EvictVictim
    <2>4. QED
      BY <2>2, <2>3, <2>1 DEF EvictAction, IInv, TypeOK
  <1>2. CASE ~EvictVictim
    <2>1. UNCHANGED deleting
      BY <1>2 DEF Next, Scheduler, Environment, ListUnscheduledPods, NextPod, TryNode,
         StartPreemption, AccumulateVictim, Recheck, Bind, KubeletAdmit, Terminate,
         Scrape, vars, cluster, sched
    <2>2. QED
      BY <2>1 DEF EvictAction
  <1>3. QED
    BY <1>1, <1>2

\* attemptPreemptionMulti only evicts pods of strictly lower priority than
\* the pod it preempts for (EvictsOnlyLowerPriority, for every instance).
THEOREM OnlyLowerPriority == Spec => EvictsOnlyLowerPriority
  BY InvariantHolds, EvictStep, PTL DEF Spec, EvictsOnlyLowerPriority, EvictAction


-----------------------------------------------------------------------------
(* Minimality of the victim set.  No sum over the victims is needed: the   *)
(* loop of attemptPreemptionMulti tests after every append, so while it   *)
(* still accumulates, the victims appended so far do not cover the         *)
(* request, and the last append is the one that made them cover it.       *)

\* While attemptPreemptionMulti accumulates, the victims so far fall short.
AccumulateShort ==
    pc = "accumulate" /\ Len(victims) >= 1 => ~canScheduleAfterPreemption(cur, stats, freed)

MInv == AccumulateShort /\ VictimSetMinimal

\* Taking back the request just added gives the old freed resources.
LEMMA MinusPlus ==
    ASSUME NEW a \in Res, NEW p \in Pods
    PROVE  Minus(Plus(a, Req(p)), Req(p)) = a
  BY ConstantsAssumption DEF Res, Plus, Minus, Req

LEMMA MInvInit == Init => MInv
  BY DEF Init, MInv, AccumulateShort, VictimSetMinimal

LEMMA MInvStep == IInv /\ MInv /\ [Next]_vars => MInv'
  <1> SUFFICES ASSUME IInv, MInv, [Next]_vars PROVE MInv'
    OBVIOUS
  <1>0. TypeOK /\ AccumulateShort /\ VictimSetMinimal
    BY DEF IInv, MInv
  \* The steps that neither enter the victim loop nor touch what it reads.
  <1>1. CASE ListUnscheduledPods \/ NextPod \/ TryNode \/ Recheck \/ Bind
    <2>1. pc' \notin {"accumulate", "evict"}
      BY <1>1 DEF ListUnscheduledPods, NextPod, TryNode, Recheck, Bind, NextNode
    <2>. QED
      BY <2>1 DEF MInv, AccumulateShort, VictimSetMinimal
  <1>2. CASE UNCHANGED sched
    <2>1. UNCHANGED <<pc, cur, stats, freed, victims>>
      BY <1>2 DEF sched
    <2>. QED
      BY <1>0, <2>1 DEF MInv, AccumulateShort, VictimSetMinimal
  <1>3. CASE StartPreemption
    <2>1. pc' = "node" \/ (pc' = "accumulate" /\ victims' = <<>>)
      BY <1>3 DEF StartPreemption, NextNode
    <2>. QED
      BY <2>1 DEF MInv, AccumulateShort, VictimSetMinimal
  <1>4. CASE EvictVictim
    <2>1. pc' \in {"recheck", "node"} \/ pc' = "evict"
      BY <1>4 DEF EvictVictim, NextNode
    <2>2. UNCHANGED <<cur, stats, freed, victims>> /\ pc = "evict"
      BY <1>4 DEF EvictVictim
    <2>. QED
      BY <1>0, <2>1, <2>2 DEF MInv, AccumulateShort, VictimSetMinimal
  <1>5. CASE AccumulateVictim
    <2>1. PICK c \in NextCandidate(cands) :
               /\ freed' = Plus(freed, Req(c))
               /\ victims' = Append(victims, c)
               /\ IF canScheduleAfterPreemption(cur, stats, freed')
                    THEN pc' = "evict"
                    ELSE pc' \in {"accumulate", "node"}
      BY <1>5 DEF AccumulateVictim, NextNode
    <2>2. UNCHANGED <<cur, stats>> /\ pc = "accumulate"
      BY <1>5 DEF AccumulateVictim
    <2>3. c \in Pods /\ freed \in Res /\ victims \in Seq(Pods)
      BY <1>0, <2>1, NextCandidateLowest DEF TypeOK
    <2>4. /\ Len(victims') = Len(victims) + 1
          /\ victims'[Len(victims')] = c
          /\ Len(victims) \in Nat
      <3>1. /\ Len(victims) \in Nat
            /\ Len(Append(victims, c)) = Len(victims) + 1
            /\ Append(victims, c)[Len(victims) + 1] = c
        BY <2>3, AppendProperties, LenProperties
      <3>. QED
        BY <2>1, <3>1
    <2>5. Minus(freed', Req(c)) = freed
      BY <2>1, <2>3, MinusPlus
    <2>6. CASE canScheduleAfterPreemption(cur, stats, freed')
      <3>1. pc' = "evict"
        BY <2>1, <2>6
      <3>2. Len(victims') > 1 => ~canScheduleAfterPreemption(cur, stats, freed)
        BY <1>0, <2>2, <2>4 DEF AccumulateShort
      <3>. QED
        BY <2>2, <2>4, <2>5, <2>6, <3>1, <3>2 DEF MInv, AccumulateShort, VictimSetMinimal
    <2>7. CASE ~canScheduleAfterPreemption(cur, stats, freed')
      <3>1. pc' \in {"accumulate", "node"}
        BY <2>1, <2>7
      <3>. QED
        BY <2>2, <2>7, <3>1 DEF MInv, AccumulateShort, VictimSetMinimal
    <2>. QED
      BY <2>6, <2>7
  <1>6. QED
    BY <1>1, <1>2, <1>3, <1>4, <1>5 DEF Next, Scheduler, Environment, KubeletAdmit,
       Terminate, Scrape, vars

\* Decide-then-evict (VictimSetMinimal, for every instance of the
\* constants): when attemptPreemptionMulti starts evicting, free plus freed
\* covers the request, and without the last victim it would not.
THEOREM MinimalVictims == Spec => []VictimSetMinimal
  <1>1. Spec => [](IInv /\ MInv)
    BY InvariantHolds, IInvInit, IInvStep, MInvInit, MInvStep, PTL DEF Spec
  <1>. QED
    BY <1>1, PTL DEF MInv

=============================================================================
