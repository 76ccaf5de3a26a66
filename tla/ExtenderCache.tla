---------------------------- MODULE ExtenderCache ----------------------------
(***************************************************************************)
(* The HTTP scheduler extender (sched_extension/extender.go) and the       *)
(* Prometheus reader it calls (GetNodeStats in k3s-scheduler-patch.yaml).  *)
(*                                                                         *)
(* One updater goroutine (startNodeStatsUpdater / updateAllNodeStats)      *)
(* writes e.nodeStats, keyed by the host part of each Prometheus instance  *)
(* label.  Concurrent HTTP requests run Filter and Prioritize, which read  *)
(* the map once per node, keyed by the node name.  Every map access is     *)
(* under e.cache (RLock for a read, Lock for a write) and touches one key, *)
(* so each is one atomic step here and the lock itself is not state.      *)
(*                                                                         *)
(* Units: CPU in cores, memory in GiB, disk and network rates in MiB/s.    *)
(***************************************************************************)
EXTENDS ExtenderScore

CONSTANTS
    Nodes,          \* node names the kube-scheduler passes in args.Nodes
    Hosts,          \* hosts of the instance labels node_exporter reports
    Pods,           \* pods the scheduler may ask about
    Requests,       \* HTTP requests that may be served at the same time
    CpuUsed,        \* [Hosts -> Nat]: non-idle CPU rate of each instance
    MemTotalOf,     \* [Hosts -> Nat]: node_memory_MemTotal_bytes
    MemAvail,       \* [Hosts -> Nat]: node_memory_MemAvailable_bytes
    IoRate,         \* [Hosts -> [IoDims -> Nat]]: disk and network rates
    MatchSet,       \* [Hosts -> SUBSET Hosts]: instances matching h (label contains h, or h contains its host part)
    ExactPort,      \* every instance label is "<host>:9100"
    MayFail,        \* the Prometheus queries that may fail (SUBSET Queries)
    PodCpu,         \* [Pods -> Nat]: summed CPU requests
    PodMem,         \* [Pods -> Nat]: summed memory requests
    PodImages,      \* [Pods -> SUBSET {"db", "web"}]: image patterns matched
    PodAnno,        \* [Pods -> [IoDims -> Nat \cup {NoAnno}]]: parsed annotations
    NoAnno,         \* an annotation that is absent or does not parse
    NoEntry         \* no entry in e.nodeStats

Queries == {"cpu", "memTotal", "memAvail"} \cup IoDims

ASSUME ConstantsAssumption ==
    /\ Nodes # {} /\ Hosts # {} /\ Pods # {}
    /\ CpuUsed \in [Hosts -> Nat] /\ MemTotalOf \in [Hosts -> Nat]
    /\ MemAvail \in [Hosts -> Nat] /\ IoRate \in [Hosts -> [IoDims -> Nat]]
    /\ MatchSet \in [Hosts -> SUBSET Hosts]
    /\ \A h \in Hosts : h \in MatchSet[h]
    /\ ExactPort \in BOOLEAN /\ MayFail \subseteq Queries
    /\ PodCpu \in [Pods -> Nat] /\ PodMem \in [Pods -> Nat]
    /\ PodImages \in [Pods -> SUBSET {"db", "web"}]
    /\ PodAnno \in [Pods -> [IoDims -> Nat \cup {NoAnno}]]
    /\ NoEntry \notin [Dims -> [total : Int, free : Int]]

Keys == Nodes \cup Hosts
Stat(t, f) == [total |-> t, free |-> f]

(***************************************************************************)
(* GetNodeStats(h): the set of NodeStats it can return.  A failed query    *)
(* gives the hard-coded defaults.  CPU and memory take the sample of       *)
(* "<h>:9100" when it exists, else the first instance of a Go map range    *)
(* matching h: any of MatchSet[h].  The two memory queries are           *)
(* looked up independently.  A disk or network rate is the sum over the    *)
(* matching instances; a zero sum takes the first sample of the map (any   *)
(* host); a zero rate still gives the defaults, else total = k * rate and  *)
(* free = total - rate.                                                    *)
(***************************************************************************)
Lookup(h) == IF ExactPort THEN {h} ELSE MatchSet[h]
Failed(q, default) == IF q \in MayFail THEN {default} ELSE {}
IoDefault == [diskRead |-> Stat(500, 300), diskWrite |-> Stat(200, 100),
              netUp |-> Stat(100, 80), netDown |-> Stat(200, 150)]
IoHeadroom == [diskRead |-> 3, diskWrite |-> 3, netUp |-> 5, netDown |-> 5]
CpuOutcomes(h) ==
    Failed("cpu", Stat(6, 2)) \cup {Stat(6, Pos(6 - CpuUsed[m])) : m \in Lookup(h)}
MemOutcomes(h) ==
    {Stat(t, f) : t \in Failed("memTotal", 32) \cup {MemTotalOf[m] : m \in Lookup(h)},
                  f \in Failed("memAvail", 16) \cup {MemAvail[m] : m \in Lookup(h)}}
\* The rates of the instances matching h, summed one instance at a time.  The
\* sum of naturals is a natural; the final test states it for the provers.
IoSum(h, d) ==
    LET sum[S \in SUBSET MatchSet[h]] ==
            IF S = {} THEN 0
            ELSE LET m == CHOOSE m \in S : TRUE IN IoRate[m][d] + sum[S \ {m}]
    IN  IF sum[MatchSet[h]] \in Nat THEN sum[MatchSet[h]] ELSE 0
IoRates(h, d) == IF IoSum(h, d) # 0 THEN {IoSum(h, d)}
                 ELSE {IoRate[m][d] : m \in Hosts}
IoOutcomes(h, d) ==
    Failed(d, IoDefault[d]) \cup
    {IF r = 0 THEN IoDefault[d]
     ELSE Stat(IoHeadroom[d] * r, Pos(IoHeadroom[d] * r - r)) : r \in IoRates(h, d)}
GetNodeStats(h) ==
    [cpu : CpuOutcomes(h), mem : MemOutcomes(h),
     diskRead : IoOutcomes(h, "diskRead"), diskWrite : IoOutcomes(h, "diskWrite"),
     netUp : IoOutcomes(h, "netUp"), netDown : IoOutcomes(h, "netDown")]

(***************************************************************************)
(* estimateIORequirements: defaults, overridden by a parsed annotation,    *)
(* then raised (max) by the image, CPU and memory tiers that apply.        *)
(***************************************************************************)
IoDefaultDemand == [diskRead |-> 10, diskWrite |-> 5, netUp |-> 1, netDown |-> 2]
ImageFloor == [db  |-> [diskRead |-> 50, diskWrite |-> 20],
               web |-> [netUp |-> 20, netDown |-> 40]]
NoFloor == [d \in {} |-> 0]
CpuFloor(c) == IF c >= 4 THEN [diskRead |-> 100, diskWrite |-> 50]
               ELSE IF c >= 2 THEN [diskRead |-> 50, diskWrite |-> 25]
               ELSE NoFloor
MemFloor(m) == IF m >= 4 THEN [netUp |-> 50, netDown |-> 100]
               ELSE IF m >= 1 THEN [netUp |-> 20, netDown |-> 40]
               ELSE NoFloor
Floors(p) == {ImageFloor[k] : k \in PodImages[p]} \cup {CpuFloor(PodCpu[p]), MemFloor(PodMem[p])}
\* Go's max over the floats: the largest element of a set of numbers.
Max(S) == CHOOSE x \in S : \A y \in S : x >= y
AnnoOr(p, d) == IF PodAnno[p][d] = NoAnno THEN IoDefaultDemand[d] ELSE PodAnno[p][d]
estimateIORequirements(p) ==
    [d \in IoDims |-> Max({AnnoOr(p, d)} \cup {f[d] : f \in {g \in Floors(p) : d \in DOMAIN g}})]
ExtractPodRequirements(p) ==
    LET io == estimateIORequirements(p) IN
    [cpu |-> PodCpu[p], mem |-> PodMem[p], diskRead |-> io["diskRead"],
     diskWrite |-> io["diskWrite"], netUp |-> io["netUp"], netDown |-> io["netDown"]]

VARIABLES
    cache,     \* e.nodeStats: [Keys -> NodeStats \cup {NoEntry}]
    upc,       \* updater: "idle" (before an update or at <-ticker.C) or "sweep"
    pending,   \* instances of the current cpuMetrics not yet written
    rpc,       \* per request: "idle", "filter" or "prioritize"
    rpod,      \* per request: args.Pod
    rleft,     \* per request: nodes of args.Nodes not yet handled
    filtered,  \* per request: filteredNodes
    reason,    \* per request: failedNodes ("none" when absent)
    score      \* per request: the HostPriority score of each node

upd == <<upc, pending>>
hreq == <<rpc, rpod, rleft, filtered, reason, score>>
vars == <<cache, upd, hreq>>

Reasons == {"none", "nostats", "insufficient"}

Init ==
    /\ cache = [k \in Keys |-> NoEntry]
    /\ upc = "idle"
    /\ pending = {}
    /\ rpc = [r \in Requests |-> "idle"]
    /\ rpod = [r \in Requests |-> CHOOSE p \in Pods : TRUE]
    /\ rleft = [r \in Requests |-> {}]
    /\ filtered = [r \in Requests |-> {}]
    /\ reason = [r \in Requests |-> [n \in Nodes |-> "none"]]
    /\ score = [r \in Requests |-> [n \in Nodes |-> 0]]

(***************************************************************************)
(* updateAllNodeStats, called once at start and then at every tick: the    *)
(* instance-discovery query either fails (return early, nothing written)   *)
(* or yields every instance, each to be written in turn.                   *)
(***************************************************************************)
UpdateAllNodeStats ==
    /\ upc = "idle"
    /\ \/ /\ "cpu" \in MayFail
          /\ UNCHANGED <<upc, pending>>
       \/ /\ pending' = Hosts
          /\ upc' = "sweep"
    /\ UNCHANGED <<cache, hreq>>

\* Faulty variant: the instance loop stops after its first write.
UpdateNodeBreak(h) ==
    /\ upc = "sweep"
    /\ h \in pending
    /\ \E st \in GetNodeStats(h) : cache' = [cache EXCEPT ![h] = st]
    /\ pending' = {}
    /\ upc' = "idle"
    /\ UNCHANGED hreq

\* One iteration of the instance loop: GetNodeStats(nodeName), then
\* Lock, e.nodeStats[nodeName] = stats, Unlock; nodeName is the host part.
UpdateNode(h) ==
    /\ upc = "sweep"
    /\ h \in pending
    /\ \E st \in GetNodeStats(h) : cache' = [cache EXCEPT ![h] = st]
    /\ pending' = pending \ {h}
    /\ upc' = IF pending' = {} THEN "idle" ELSE "sweep"
    /\ UNCHANGED hreq

\* An HTTP call to /filter or /prioritize with args.Pod = p and all nodes.
Arrive(r, p, kind) ==
    /\ rpc[r] = "idle"
    /\ rpc' = [rpc EXCEPT ![r] = kind]
    /\ rpod' = [rpod EXCEPT ![r] = p]
    /\ rleft' = [rleft EXCEPT ![r] = Nodes]
    /\ filtered' = [filtered EXCEPT ![r] = {}]
    /\ reason' = [reason EXCEPT ![r] = [n \in Nodes |-> "none"]]
    /\ score' = [score EXCEPT ![r] = [n \in Nodes |-> 0]]
    /\ UNCHANGED <<cache, upd>>

\* One iteration of Filter's node loop: getNodeStatsFromCache(node.Name);
\* a miss is reported as a failed node, with no refresh.
FilterNode(r, n) ==
    /\ rpc[r] = "filter"
    /\ n \in rleft[r]
    /\ rleft' = [rleft EXCEPT ![r] = @ \ {n}]
    /\ IF cache[n] = NoEntry
         THEN /\ reason' = [reason EXCEPT ![r][n] = "nostats"]
              /\ UNCHANGED filtered
       ELSE IF CanScheduleMulti(ExtractPodRequirements(rpod[r]), cache[n])
         THEN /\ filtered' = [filtered EXCEPT ![r] = @ \cup {n}]
              /\ UNCHANGED reason
         ELSE /\ reason' = [reason EXCEPT ![r][n] = "insufficient"]
              /\ UNCHANGED filtered
    /\ UNCHANGED <<cache, upd, rpc, rpod, score>>

\* One iteration of Prioritize's node loop: a miss scores 0.
PrioritizeNode(r, n) ==
    /\ rpc[r] = "prioritize"
    /\ n \in rleft[r]
    /\ rleft' = [rleft EXCEPT ![r] = @ \ {n}]
    /\ score' = [score EXCEPT ![r][n] =
                   IF cache[n] = NoEntry THEN 0
                   ELSE ScoreMultiResource(ExtractPodRequirements(rpod[r]), cache[n])]
    /\ UNCHANGED <<cache, upd, rpc, rpod, filtered, reason>>

\* The handler returns its result once every node is handled.
Respond(r) ==
    /\ rpc[r] # "idle"
    /\ rleft[r] = {}
    /\ rpc' = [rpc EXCEPT ![r] = "idle"]
    /\ UNCHANGED <<cache, upd, rpod, rleft, filtered, reason, score>>

Updater == UpdateAllNodeStats \/ \E h \in Hosts : UpdateNode(h)

Handlers ==
    \E r \in Requests :
        \/ \E p \in Pods, kind \in {"filter", "prioritize"} : Arrive(r, p, kind)
        \/ \E n \in Nodes : FilterNode(r, n) \/ PrioritizeNode(r, n)
        \/ Respond(r)

Next == Updater \/ Handlers

\* The updater goroutine runs forever on a 30 s ticker; nothing starves it.
Spec == Init /\ [][Next]_vars /\ WF_vars(UpdateAllNodeStats)
                              /\ WF_vars(\E h \in Hosts : UpdateNode(h))

-----------------------------------------------------------------------------
(* Properties *)

\* Type correctness of the cache, the updater and every request.
TypeOK ==
    /\ cache \in [Keys -> (UNION {GetNodeStats(h) : h \in Hosts}) \cup {NoEntry}]
    /\ upc \in {"idle", "sweep"} /\ pending \subseteq Hosts
    /\ rpc \in [Requests -> {"idle", "filter", "prioritize"}]
    /\ rpod \in [Requests -> Pods]
    /\ rleft \in [Requests -> SUBSET Nodes]
    /\ filtered \in [Requests -> SUBSET Nodes]
    /\ reason \in [Requests -> [Nodes -> Reasons]]
    /\ score \in [Requests -> [Nodes -> 0..MaxScore]]

\* Every instance Prometheus reports is eventually in the cache: the
\* updater's sweeps reach every instance of cpuMetrics.
EveryHostCached == \A h \in Hosts : <>(cache[h] # NoEntry)

\* Spec 7(b): a cache miss triggers a synchronous refresh, so Filter never
\* fails a node for want of stats.  Filter (extender.go:68) fails it instead.
NoStatsMiss == \A r \in Requests, n \in Nodes : reason[r][n] # "nostats"

\* Spec 3: free never exceeds total in any NodeStats the cache serves.
EntryFreeWithinTotal ==
    \A k \in Keys : cache[k] # NoEntry =>
        \A d \in Dims : cache[k][d].free <= cache[k][d].total

\* Prioritize never gives a positive score to a node that Filter, on the same
\* cached stats, rejects as "insufficient resources": the dominant share of
\* the dimension that does not fit exceeds 1, so ScoreMultiResource clamps to
\* 0.  The kube-scheduler may call Prioritize on nodes it did not filter.
RejectedScoresZero ==
    \A p \in Pods, k \in Keys :
        /\ cache[k] # NoEntry
        /\ ~CanScheduleMulti(ExtractPodRequirements(p), cache[k])
        => ScoreMultiResource(ExtractPodRequirements(p), cache[k]) = 0
=============================================================================
