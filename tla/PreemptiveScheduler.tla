------------------------- MODULE PreemptiveScheduler -------------------------
(***************************************************************************)
(* The standalone watch-and-bind scheduler with priority preemption       *)
(* (src/unnamed/part_009, package main of the preemptive scheduler).       *)
(*                                                                         *)
(* One goroutine, watchForUnscheduledPods, lists the pending pods of this  *)
(* scheduler and, for each, runs findNodeForPod: it walks the nodes, reads *)
(* the node's resources from Prometheus (getNodeStats), admits with        *)
(* canScheduleMulti, and on rejection calls attemptPreemptionMulti, which  *)
(* picks lower-priority running pods lowest first until the freed CPU and *)
(* memory cover the request, evicts them one by one, and then re-reads the *)
(* metrics and re-admits.  The environment runs at the same time: the      *)
(* kubelet starts bound pods, evicted pods terminate, Prometheus scrapes.  *)
(*                                                                         *)
(* Data is abstracted to what the decisions tell apart: a pod is a model   *)
(* value with a constant CPU and memory request and a priority; CPU is in  *)
(* whole cores, memory in GiB; a pod is assumed to use what it requests.   *)
(* Disk and network demand is always 0 in this front end                   *)
(* (extractPodRequirements), so canScheduleMulti skips those dimensions    *)
(* and the model keeps only CPU and memory.                                *)
(***************************************************************************)
EXTENDS Integers, Sequences

CONSTANTS
    Nodes,            \* node names
    Pods,             \* pod names (a pod never changes its requests)
    NoNode,           \* spec.nodeName = "" (model value)
    NoPod,            \* no pod being placed (model value)
    CpuReq,           \* CpuReq[p]: summed CPU requests of p's containers
    MemReq,           \* MemReq[p]: summed memory requests of p's containers
    Prio,             \* Prio[p]: spec.priority of p (0 when unset)
    InitNode,         \* node p is bound to at start, NoNode if pending
    NodeCpu,          \* real CPU cores of a node (the kubelet's capacity)
    NodeMem,          \* real memory of a node, node_memory_MemTotal_bytes
    Schedulable,      \* nodes that are Ready and not cordoned (isNodeReady)
    CpuTotalAssumed,  \* getNodeStats hard-codes CPUTotal = 6.0
    DefaultCpuFree,   \* CPUFree = 2.0 when the CPU query fails
    DefaultMemTotal,  \* MemTotal = 8GB when a memory query fails
    DefaultMemFree,   \* MemFree = 4GB when the memory-used query fails
    AlphaNum, AlphaDen, \* alpha = AlphaNum / AlphaDen (flag -alpha, 0.8)
    PreemptionModes,  \* values the flag -preemption may have (default true)
    ExactKey,         \* Prometheus instance labels are "<nodeName>:9100"
    MetricsMayFail,   \* a Prometheus query may fail or return no sample
    ApiMayFail        \* a list, evict or bind call may fail

ASSUME ConstantsAssumption ==
    /\ NoNode \notin Nodes /\ NoPod \notin Pods
    /\ CpuReq \in [Pods -> Nat] /\ MemReq \in [Pods -> Nat]
    /\ Prio \in [Pods -> Int]
    /\ InitNode \in [Pods -> Nodes \cup {NoNode}]
    /\ NodeCpu \in [Nodes -> Nat] /\ NodeMem \in [Nodes -> Nat \ {0}]
    /\ Schedulable \subseteq Nodes
    /\ {CpuTotalAssumed, DefaultCpuFree, DefaultMemTotal, DefaultMemFree} \subseteq Nat
    /\ AlphaNum \in Nat /\ AlphaDen \in Nat \ {0} /\ AlphaNum <= AlphaDen
    /\ PreemptionModes \subseteq BOOLEAN /\ PreemptionModes # {}
    /\ {ExactKey, MetricsMayFail, ApiMayFail} \subseteq BOOLEAN

VARIABLES
    \* --- the cluster, owned by the API server and the kubelets ---
    phase,      \* phase[p]: "Pending" | "Bound" (not yet started) | "Running"
                \*           | "Failed" (kubelet rejected) | "Gone" (deleted)
    nodeOf,     \* nodeOf[p]: spec.nodeName
    deleting,   \* deleting[p]: an eviction set the deletion timestamp
    used,       \* used[n]: CPU and memory held by the pods running on n
    \* --- the metrics source ---
    seen,       \* seen[n]: CPU and memory in use on n at Prometheus' last scrape
    \* --- the watchForUnscheduledPods goroutine ---
    enablePreemption, \* the -preemption flag the process was started with
    pc,         \* where the goroutine is
    todo,       \* pods of the current List not yet handled
    cur,        \* the pod being placed
    nodesLeft,  \* nodes findNodeForPod has not tried yet for cur
    node,       \* the node being tried
    stats,      \* the NodeStats read for node
    cands,      \* preemption candidates not yet added to victims
    freed,      \* freedResources: CPU and memory of victims
    victims,    \* victims in accumulation order
    evicted     \* how many victims have been evicted so far

cluster == <<phase, nodeOf, deleting, used, seen>>
sched == <<enablePreemption, pc, todo, cur, nodesLeft, node, stats, cands, freed, victims, evicted>>
vars == <<cluster, sched>>

Res == [cpu : Int, mem : Int]
Stats == [cpuTotal : Int, cpuFree : Int, memTotal : Int, memFree : Int]
Zero == [cpu |-> 0, mem |-> 0]
Req(p) == [cpu |-> CpuReq[p], mem |-> MemReq[p]]
Plus(a, b) == [cpu |-> a.cpu + b.cpu, mem |-> a.mem + b.mem]
Minus(a, b) == [cpu |-> a.cpu - b.cpu, mem |-> a.mem - b.mem]
VictimSet == {victims[i] : i \in DOMAIN victims}

-----------------------------------------------------------------------------
(* getNodeStats.  The CPU-used and memory-used samples are looked up under *)
(* "<node>:9100"; failing that, under a label containing the name, and     *)
(* failing that any sample of the result map (Go map order is random).     *)
(* With ExactKey FALSE the names never match and any node's sample may be  *)
(* returned.  A failed or empty query gives the hard-coded defaults.       *)
Sample(n) == IF ExactKey THEN {n} ELSE Nodes

CpuOutcomes(n) ==
    {[total |-> CpuTotalAssumed, free |-> CpuTotalAssumed - seen[m].cpu] : m \in Sample(n)}
    \cup (IF MetricsMayFail THEN {[total |-> CpuTotalAssumed, free |-> DefaultCpuFree]} ELSE {})

\* MemTotal comes from a second query: the exact key, else the first sample
\* of the map; an empty result leaves MemTotal at 0, an error gives 8GB.
MemTotalOutcomes(n) ==
    {NodeMem[m] : m \in Sample(n)}
    \cup (IF MetricsMayFail THEN {DefaultMemTotal, 0} ELSE {})

MemOutcomes(n) ==
    {[total |-> t, free |-> t - seen[m].mem] : m \in Sample(n), t \in MemTotalOutcomes(n)}
    \cup (IF MetricsMayFail THEN {[total |-> DefaultMemTotal, free |-> DefaultMemFree]} ELSE {})

getNodeStats(n) ==
    {[cpuTotal |-> c.total, cpuFree |-> c.free, memTotal |-> m.total, memFree |-> m.free] :
        c \in CpuOutcomes(n), m \in MemOutcomes(n)}

(* canScheduleMulti: a dimension with demand 0 is skipped; otherwise it    *)
(* fails when free < req, or when 1 - (free - req)/total > alpha, which    *)
(* for total > 0 is AlphaDen * (total - free + req) > AlphaNum * total.    *)
DimensionFits(free, total, req) ==
    \/ req = 0
    \/ /\ req <= free
       /\ \/ total = 0
          \/ AlphaDen * (total - free + req) <= AlphaNum * total

canScheduleMulti(p, st) ==
    /\ DimensionFits(st.cpuFree, st.cpuTotal, CpuReq[p])
    /\ DimensionFits(st.memFree, st.memTotal, MemReq[p])

\* canScheduleAfterPreemption: free plus freed covers CPU and memory.
canScheduleAfterPreemption(p, st, fr) ==
    /\ st.cpuFree + fr.cpu >= CpuReq[p]
    /\ st.memFree + fr.mem >= MemReq[p]

\* getRunningPods(n): pods whose spec.nodeName is n and whose phase is
\* Running; a pod whose deletion timestamp is set is still listed.
getRunningPods(n) == {p \in Pods : nodeOf[p] = n /\ phase[p] = "Running"}

\* Faulty variant: the priority filter dropped, every running pod a candidate.
CandidatesAnyPriority(p, n) == getRunningPods(n)

\* The candidates: running pods of strictly lower priority.
Candidates(p, n) == {q \in getRunningPods(n) : Prio[q] < Prio[p]}

\* Faulty variant: the sort.Slice call dropped, candidates in list order.
NextCandidateUnsorted(cs) == cs

\* sort.Slice ascending by priority, then take the candidates in order:
\* the next one is any of lowest priority (sort.Slice is not stable).
NextCandidate(cs) == {c \in cs : \A d \in cs : Prio[c] <= Prio[d]}

-----------------------------------------------------------------------------
Init ==
    /\ phase = [p \in Pods |-> IF InitNode[p] = NoNode THEN "Pending" ELSE "Bound"]
    /\ nodeOf = InitNode
    /\ deleting = [p \in Pods |-> FALSE]
    /\ used = [n \in Nodes |-> Zero]
    /\ seen = [n \in Nodes |-> Zero]
    /\ enablePreemption \in PreemptionModes
    /\ pc = "list"
    /\ todo = {}
    /\ cur = NoPod
    /\ nodesLeft = {}
    /\ node = NoNode
    /\ stats = [cpuTotal |-> 0, cpuFree |-> 0, memTotal |-> 0, memFree |-> 0]
    /\ cands = {}
    /\ freed = Zero
    /\ victims = <<>>
    /\ evicted = 0

\* Leave node n of findNodeForPod and go on with the next one.
NextNode(n) ==
    /\ nodesLeft' = nodesLeft \ {n}
    /\ pc' = "node"

\* Faulty variant: the spec.nodeName="" field selector dropped from the List.
ListUnscheduledPodsNoSelector ==
    /\ enablePreemption \in PreemptionModes
    /\ pc = "list"
    /\ \/ /\ todo' = {p \in Pods : ~deleting[p]}
          /\ pc' = "pod"
       \/ /\ ApiMayFail
          /\ UNCHANGED <<todo, pc>>
    /\ UNCHANGED <<cluster, enablePreemption, cur, nodesLeft, node, stats, cands, freed, victims, evicted>>

(* watchForUnscheduledPods: List the pods with this schedulerName and an   *)
(* empty spec.nodeName.  A failed List sleeps and retries.                 *)
ListUnscheduledPods ==
    /\ enablePreemption \in PreemptionModes
    /\ pc = "list"
    /\ \/ /\ todo' = {p \in Pods : phase[p] = "Pending" /\ nodeOf[p] = NoNode /\ ~deleting[p]}
          /\ pc' = "pod"
       \/ /\ ApiMayFail
          /\ UNCHANGED <<todo, pc>>
    /\ UNCHANGED <<cluster, enablePreemption, cur, nodesLeft, node, stats, cands, freed, victims, evicted>>

(* The next pod of the list: extractPodRequirements and the Nodes().List   *)
(* that starts findNodeForPod (an error there skips the pod).  When the    *)
(* list is done the goroutine sleeps and lists again.                      *)
NextPod ==
    /\ pc = "pod"
    /\ \/ /\ todo = {}
          /\ pc' = "list"
          /\ UNCHANGED <<todo, cur, nodesLeft>>
       \/ \E p \in todo :
            /\ todo' = todo \ {p}
            /\ cur' = p
            /\ \/ /\ nodesLeft' = Nodes
                  /\ pc' = "node"
               \/ /\ ApiMayFail
                  /\ UNCHANGED <<nodesLeft, pc>>
    /\ UNCHANGED <<cluster, enablePreemption, node, stats, cands, freed, victims, evicted>>

(* findNodeForPod, one iteration of the node loop: skip a node that is not *)
(* Ready or is cordoned; read its stats; return it when it admits the pod; *)
(* otherwise preempt on it if preemption is enabled.  No node left returns *)
(* "" and the pod waits for the next List.                                 *)
TryNode ==
    /\ pc = "node"
    /\ \/ /\ nodesLeft = {}
          /\ pc' = "pod"
          /\ UNCHANGED <<nodesLeft, node, stats>>
       \/ \E n \in nodesLeft :
            /\ node' = n
            /\ \/ /\ n \notin Schedulable
                  /\ NextNode(n)
                  /\ UNCHANGED stats
               \/ /\ n \in Schedulable
                  /\ \E st \in getNodeStats(n) :
                       /\ stats' = st
                       /\ IF canScheduleMulti(cur, st) THEN pc' = "bind" /\ UNCHANGED nodesLeft
                          ELSE IF enablePreemption THEN pc' = "preempt" /\ UNCHANGED nodesLeft
                          ELSE NextNode(n)
    /\ UNCHANGED <<cluster, enablePreemption, todo, cur, cands, freed, victims, evicted>>

\* Faulty variant: freedResources and victims reset, the eviction counter not.
StartPreemptionNoReset ==
    /\ pc = "preempt"
    /\ \/ /\ Candidates(cur, node) # {}
          /\ cands' = Candidates(cur, node)
          /\ freed' = Zero
          /\ victims' = <<>>
          /\ pc' = "accumulate"
          /\ UNCHANGED <<nodesLeft, evicted>>
       \/ /\ Candidates(cur, node) = {} \/ ApiMayFail
          /\ NextNode(node)
          /\ UNCHANGED <<cands, freed, victims, evicted>>
    /\ UNCHANGED <<cluster, enablePreemption, todo, cur, node, stats>>

(* attemptPreemptionMulti, up to the sort: list the running pods of the    *)
(* node and keep those of lower priority.  A List error, or no candidate,  *)
(* returns false and findNodeForPod goes on with the next node.            *)
StartPreemption ==
    /\ pc = "preempt"
    /\ \/ /\ Candidates(cur, node) # {}
          /\ cands' = Candidates(cur, node)
          /\ freed' = Zero
          /\ victims' = <<>>
          /\ evicted' = 0
          /\ pc' = "accumulate"
          /\ UNCHANGED nodesLeft
       \/ /\ Candidates(cur, node) = {} \/ ApiMayFail
          /\ NextNode(node)
          /\ UNCHANGED <<cands, freed, victims, evicted>>
    /\ UNCHANGED <<cluster, enablePreemption, todo, cur, node, stats>>

\* Faulty variant: sufficiency tested before the candidate is added.
AccumulateVictimTestFirst ==
    /\ pc = "accumulate"
    /\ \E c \in NextCandidate(cands) :
         /\ cands' = cands \ {c}
         /\ freed' = Plus(freed, Req(c))
         /\ victims' = Append(victims, c)
         /\ IF canScheduleAfterPreemption(cur, stats, freed)
              THEN pc' = "evict" /\ UNCHANGED nodesLeft
            ELSE IF cands' = {} THEN NextNode(node)
            ELSE pc' = "accumulate" /\ UNCHANGED nodesLeft
    /\ UNCHANGED <<cluster, enablePreemption, todo, cur, node, stats, evicted>>

(* One iteration of the victim loop: add the next candidate's CPU and      *)
(* memory to freedResources and append it to victims; once free plus freed *)
(* covers the request, start evicting.  Running out of candidates returns  *)
(* false.                                                                  *)
AccumulateVictim ==
    /\ pc = "accumulate"
    /\ \E c \in NextCandidate(cands) :
         /\ cands' = cands \ {c}
         /\ freed' = Plus(freed, Req(c))
         /\ victims' = Append(victims, c)
         /\ IF canScheduleAfterPreemption(cur, stats, freed')
              THEN pc' = "evict" /\ UNCHANGED nodesLeft
            ELSE IF cands' = {} THEN NextNode(node)
            ELSE pc' = "accumulate" /\ UNCHANGED nodesLeft
    /\ UNCHANGED <<cluster, enablePreemption, todo, cur, node, stats, evicted>>

(* evictPod for the next victim, in accumulation order.  The eviction of a *)
(* pod that is already gone fails (NotFound), and any eviction may be      *)
(* refused (a disruption budget, an API error); a failure returns false    *)
(* and leaves the victims evicted so far evicted.  After the last victim   *)
(* attemptPreemptionMulti returns true.                                    *)
EvictVictim ==
    /\ pc = "evict"
    /\ LET v == victims[evicted + 1] IN
       \/ /\ phase[v] # "Gone"
          /\ deleting' = [deleting EXCEPT ![v] = TRUE]
          /\ evicted' = evicted + 1
          /\ pc' = IF evicted + 1 = Len(victims) THEN "recheck" ELSE "evict"
          /\ UNCHANGED nodesLeft
       \/ /\ phase[v] = "Gone" \/ ApiMayFail
          /\ NextNode(node)
          /\ UNCHANGED <<deleting, evicted>>
    /\ UNCHANGED <<phase, nodeOf, used, seen, enablePreemption, todo, cur, node, stats, cands, freed, victims>>

(* After a successful preemption findNodeForPod reads the stats again and  *)
(* re-admits; a rejection goes on with the next node.                      *)
Recheck ==
    /\ pc = "recheck"
    /\ \E st \in getNodeStats(node) :
         /\ stats' = st
         /\ IF canScheduleMulti(cur, st) THEN pc' = "bind" /\ UNCHANGED nodesLeft
            ELSE NextNode(node)
    /\ UNCHANGED <<cluster, enablePreemption, todo, cur, node, cands, freed, victims, evicted>>

(* bindPodToNode: create the Binding.  On error the pod is skipped until  *)
(* the next List.                                                          *)
Bind ==
    /\ pc = "bind"
    /\ \/ /\ nodeOf' = [nodeOf EXCEPT ![cur] = node]
          /\ phase' = [phase EXCEPT ![cur] = "Bound"]
       \/ /\ ApiMayFail
          /\ UNCHANGED <<nodeOf, phase>>
    /\ pc' = "pod"
    /\ UNCHANGED <<deleting, used, seen, enablePreemption, todo, cur, nodesLeft, node, stats, cands, freed, victims, evicted>>

-----------------------------------------------------------------------------
(* The environment.  The kubelet admits a bound pod when its requests fit *)
(* the node's real capacity next to the running pods, and fails it         *)
(* (OutOfcpu / OutOfmemory) otherwise.                                     *)
KubeletAdmit(p) ==
    /\ phase[p] = "Bound"
    /\ LET n == nodeOf[p]
           after == Plus(used[n], Req(p)) IN
       IF after.cpu <= NodeCpu[n] /\ after.mem <= NodeMem[n]
         THEN /\ phase' = [phase EXCEPT ![p] = "Running"]
              /\ used' = [used EXCEPT ![n] = after]
         ELSE /\ phase' = [phase EXCEPT ![p] = "Failed"]
              /\ UNCHANGED used
    /\ UNCHANGED <<nodeOf, deleting, seen, sched>>

\* An evicted pod's containers stop and the pod object is deleted.
Terminate(p) ==
    /\ deleting[p]
    /\ phase[p] = "Running"
    /\ phase' = [phase EXCEPT ![p] = "Gone"]
    /\ used' = [used EXCEPT ![nodeOf[p]] = Minus(used[nodeOf[p]], Req(p))]
    /\ UNCHANGED <<nodeOf, deleting, seen, sched>>

\* Prometheus scrapes node_exporter on n: its samples catch up with n.
Scrape(n) ==
    /\ seen[n] # used[n]
    /\ seen' = [seen EXCEPT ![n] = used[n]]
    /\ UNCHANGED <<phase, nodeOf, deleting, used, sched>>

Scheduler ==
    \/ ListUnscheduledPods \/ NextPod \/ TryNode \/ StartPreemption
    \/ AccumulateVictim \/ EvictVictim \/ Recheck \/ Bind

Environment ==
    \/ \E p \in Pods : KubeletAdmit(p) \/ Terminate(p)
    \/ \E n \in Nodes : Scrape(n)

Next == Scheduler \/ Environment

Spec == Init /\ [][Next]_vars

-----------------------------------------------------------------------------
TypeOK ==
    /\ phase \in [Pods -> {"Pending", "Bound", "Running", "Failed", "Gone"}]
    /\ nodeOf \in [Pods -> Nodes \cup {NoNode}]
    /\ deleting \in [Pods -> BOOLEAN]
    /\ used \in [Nodes -> Res]
    /\ seen \in [Nodes -> Res]
    /\ enablePreemption \in BOOLEAN
    /\ pc \in {"list", "pod", "node", "preempt", "accumulate", "evict", "recheck", "bind"}
    /\ todo \subseteq Pods
    /\ cur \in Pods \cup {NoPod}
    /\ nodesLeft \subseteq Nodes
    /\ node \in Nodes \cup {NoNode}
    /\ stats \in Stats
    /\ cands \subseteq Pods
    /\ freed \in Res
    /\ victims \in Seq(Pods)
    /\ evicted \in 0..Len(victims)

-----------------------------------------------------------------------------
(* attemptPreemptionMulti only evicts pods of strictly lower priority than *)
(* the pod it preempts for: every step that sets a deletion timestamp sets *)
(* it on a pod whose priority is below the priority of cur.                *)
EvictsOnlyLowerPriority ==
    [][\A p \in Pods : ~deleting[p] /\ deleting'[p] => Prio[p] < Prio[cur]]_vars

(* The candidates are taken lowest priority first: while victims are being *)
(* chosen or evicted, no candidate left out of the victim set has a lower  *)
(* priority than a victim.                                                 *)
VictimsLowestFirst ==
    pc \in {"accumulate", "evict"} =>
        \A v \in VictimSet, c \in cands : Prio[v] <= Prio[c]

(* Decide-then-evict: when evictions start, the victims are a prefix of   *)
(* the sorted candidates whose freed CPU and memory, added to the free     *)
(* resources read before preemption, cover the request, and no shorter     *)
(* prefix of two or more does: every victim after the first was needed.    *)
(* (The first is always taken: the loop tests after appending.)            *)
VictimSetMinimal ==
    pc = "evict" =>
        /\ canScheduleAfterPreemption(cur, stats, freed)
        /\ Len(victims) > 1 =>
             ~canScheduleAfterPreemption(cur, stats, Minus(freed, Req(victims[Len(victims)])))

(* What the preemption engine promises (spec 4.5): the victims are chosen  *)
(* so that free plus reclaimed satisfies the admission check.  Checked     *)
(* when the evictions start, against the stats the decision was made on.   *)
PreemptionEnablesAdmission ==
    pc = "evict" =>
        canScheduleMulti(cur, [stats EXCEPT !.cpuFree = @ + freed.cpu, !.memFree = @ + freed.mem])

(* The node resource state invariant (spec 3): in every dimension free is  *)
(* at most total and never negative, a negative value being clamped to    *)
(* zero.  Checked on the NodeStats getNodeStats last returned.            *)
NodeStatsClamped ==
    /\ 0 <= stats.cpuFree /\ stats.cpuFree <= stats.cpuTotal
    /\ 0 <= stats.memFree /\ stats.memFree <= stats.memTotal

-----------------------------------------------------------------------------
Contract == INSTANCE PreemptionContract

(* Seen from the cluster, the scheduler keeps the contract of the spec     *)
(* (sections 4.5 and 6): it binds only pending, unbound pods and only to   *)
(* schedulable nodes, and it evicts only running pods of a schedulable     *)
(* node, each of lower priority than a pod still pending.  Every step of   *)
(* watchForUnscheduledPods, findNodeForPod, attemptPreemptionMulti and     *)
(* bindPodToNode is a step of PreemptionContract or a stutter, although    *)
(* the pod list, the node and the victims were all read steps earlier.     *)
ImplementsContract == Contract!Spec

=============================================================================
