----------------------------- MODULE PluginCache -----------------------------
(***************************************************************************)
(* The MultiResource plugin at run time: the nodeStats map behind its      *)
(* sync.RWMutex (part_002), the updater goroutine New starts               *)
(* (startNodeStatsUpdater / updateAllNodeStats), and the Filter and Score  *)
(* calls the scheduling framework makes, one goroutine per node, with      *)
(* their cache-miss refresh (part_003 Filter, score.go Score), followed    *)
(* by NormalizeScore.                                                      *)
(*                                                                         *)
(* The lock is modelled by its holders: writer (one thread or None),       *)
(* readers, and wwait, the threads blocked in Lock.  As in sync.RWMutex a  *)
(* pending writer blocks new readers.  A request thread is named by its    *)
(* node: the framework runs the Filter goroutines of a cycle, then the     *)
(* Score goroutines, never both at once.                                   *)
(***************************************************************************)
EXTENDS PluginCore

CONSTANTS NoEntry, None

Updater == "updater"
Threads == Nodes \cup {Updater}

VARIABLES
    cache,     \* nodeStats: node -> NodeStats, or NoEntry
    snap,      \* the nodes of the framework's snapshot (empty before the first cycle)
    upc,       \* updater: "list", "lock", "sweep" or "tick"
    todo,      \* nodes of the listed snapshot not yet refreshed in this sweep
    writer,    \* the thread holding mu for writing, or None
    readers,   \* the threads holding mu for reading
    wwait,     \* the threads blocked in mu.Lock
    phase,     \* the framework's cycle: "idle", "filter" or "score"
    pod,       \* the pod of the current cycle
    tpc,       \* tpc[n]: where node n's Filter or Score goroutine is
    tstats,    \* tstats[n]: its local nodeStats copy, or NoEntry
    feasible,  \* the nodes Filter admitted in this cycle
    raw,       \* raw[n]: Score's result for node n, or None
    norm       \* the scores after NormalizeScore, or None before it ran

lock == <<writer, readers, wwait>>
upd == <<upc, todo>>
cyc == <<phase, pod, tpc, tstats, feasible, raw, norm>>
vars == <<cache, snap, upd, lock, cyc>>

StatsType == [Dims -> [total : Nat, free : Nat]]

(* The ok of a map lookup tells a missing entry from any NodeStats, and    *)
(* "not scored yet" from any value Score returns.                          *)
ASSUME MarkersAssumption == NoEntry \notin StatsType /\ None \notin (0..MaxScore) \cup {NaN}

TypeOK ==
    /\ cache \in [Nodes -> StatsType \cup {NoEntry}]
    /\ snap \subseteq Nodes /\ todo \subseteq Nodes
    /\ upc \in {"list", "lock", "sweep", "tick"}
    /\ writer \in Threads \cup {None} /\ readers \subseteq Nodes /\ wwait \subseteq Threads
    /\ phase \in {"idle", "filter", "score"} /\ pod \in Pods
    /\ tpc \in [Nodes -> {"rlock", "runlock", "fetch", "lock", "decide", "done"}]
    /\ tstats \in [Nodes -> StatsType \cup {NoEntry}]
    /\ feasible \subseteq Nodes
    /\ raw \in [Nodes -> 0..MaxScore \cup {NaN, None}]
    /\ norm \in [feasible -> Int] \cup {None}

(* New: an empty map; the updater goroutine starts with its first sweep.  *)
Init ==
    /\ cache = [n \in Nodes |-> NoEntry]
    /\ snap = {}
    /\ upc = "list" /\ todo = {}
    /\ writer = None /\ readers = {} /\ wwait = {}
    /\ phase = "idle" /\ pod \in Pods
    /\ tpc = [n \in Nodes |-> "done"] /\ tstats = [n \in Nodes |-> NoEntry]
    /\ feasible = {} /\ raw = [n \in Nodes |-> None] /\ norm = None

CanRLock == writer = None /\ wwait = {}
CanLock == writer = None /\ readers = {}

(***************************************************************************)
(* The updater goroutine.  updateAllNodeStats lists the snapshot (List of  *)
(* the snapshot lister returns no error), takes mu.Lock and holds it,      *)
(* through the deferred Unlock, while it queries Prometheus for every      *)
(* listed node; getNodeStats never returns an error (its only error is a   *)
(* nil client, which NewPrometheusClient never returns), so the continue   *)
(* is never taken.  Then the goroutine waits for the 30 s ticker.          *)
(***************************************************************************)
UpdList ==
    /\ upc = "list"
    /\ todo' = snap /\ wwait' = wwait \cup {Updater} /\ upc' = "lock"
    /\ UNCHANGED <<cache, snap, writer, readers, cyc>>

UpdLock ==
    /\ upc = "lock" /\ CanLock
    /\ writer' = Updater /\ wwait' = wwait \ {Updater} /\ upc' = "sweep"
    /\ UNCHANGED <<cache, snap, todo, readers, cyc>>

UpdNode(n) ==
    /\ upc = "sweep" /\ n \in todo
    /\ \E st \in GetNodeStats(n) : cache' = [cache EXCEPT ![n] = st]
    /\ todo' = todo \ {n}
    /\ UNCHANGED <<snap, upc, lock, cyc>>

UpdUnlock ==
    /\ upc = "sweep" /\ todo = {}
    /\ writer' = None /\ upc' = "tick"
    /\ UNCHANGED <<cache, snap, todo, readers, wwait, cyc>>

Tick ==
    /\ upc = "tick" /\ upc' = "list"
    /\ UNCHANGED <<cache, snap, todo, lock, cyc>>

(* Mutant: an RLock that does not wait behind a pending writer.          *)
ReadCacheNoWriterPref(n) ==
    /\ tpc[n] = "rlock" /\ writer = None
    /\ readers' = readers \cup {n}
    /\ tstats' = [tstats EXCEPT ![n] = cache[n]]
    /\ tpc' = [tpc EXCEPT ![n] = "runlock"]
    /\ UNCHANGED <<cache, snap, upd, writer, wwait, phase, pod, feasible, raw, norm>>

(* getNodeStatsFromCache: RLock, copy the entry.                           *)
ReadCache(n) ==
    /\ tpc[n] = "rlock" /\ CanRLock
    /\ readers' = readers \cup {n}
    /\ tstats' = [tstats EXCEPT ![n] = cache[n]]
    /\ tpc' = [tpc EXCEPT ![n] = "runlock"]
    /\ UNCHANGED <<cache, snap, upd, writer, wwait, phase, pod, feasible, raw, norm>>

(* The deferred RUnlock; a hit goes on to the decision.                    *)
ReadUnlock(n) ==
    /\ tpc[n] = "runlock"
    /\ readers' = readers \ {n}
    /\ IF tstats[n] = NoEntry
       THEN tpc' = [tpc EXCEPT ![n] = "fetch"]
       ELSE tpc' = [tpc EXCEPT ![n] = "decide"]
    /\ UNCHANGED <<cache, snap, upd, writer, wwait, phase, pod, tstats, feasible, raw, norm>>

(* A miss: getNodeStats without the lock, then block in mu.Lock.           *)
Fetch(n) ==
    /\ tpc[n] = "fetch"
    /\ \E st \in GetNodeStats(n) : tstats' = [tstats EXCEPT ![n] = st]
    /\ wwait' = wwait \cup {n}
    /\ tpc' = [tpc EXCEPT ![n] = "lock"]
    /\ UNCHANGED <<cache, snap, upd, writer, readers, phase, pod, feasible, raw, norm>>

(* Lock, store the fetched stats, Unlock.                                  *)
WriteBack(n) ==
    /\ tpc[n] = "lock" /\ CanLock
    /\ cache' = [cache EXCEPT ![n] = tstats[n]]
    /\ wwait' = wwait \ {n}
    /\ tpc' = [tpc EXCEPT ![n] = "decide"]
    /\ UNCHANGED <<snap, upd, writer, readers, phase, pod, tstats, feasible, raw, norm>>

(***************************************************************************)
(* What the goroutine then does with the stats it holds: Filter admits the *)
(* node when canScheduleMulti holds, Score returns scoreMultiResource.     *)
(***************************************************************************)
Decide(n) ==
    /\ tpc[n] = "decide"
    /\ LET req == ExtractPodRequirements(pod) IN
       IF phase = "filter"
       THEN /\ feasible' = IF CanScheduleMulti(req, tstats[n]) THEN feasible \cup {n} ELSE feasible
            /\ raw' = raw
       ELSE /\ raw' = [raw EXCEPT ![n] = ScoreMultiResource(req, tstats[n])]
            /\ feasible' = feasible
    /\ tpc' = [tpc EXCEPT ![n] = "done"]
    /\ UNCHANGED <<cache, snap, upd, lock, phase, pod, tstats, norm>>

(***************************************************************************)
(* The framework.  A cycle refreshes the snapshot and runs Filter on every *)
(* node.  With no feasible node the pod is unschedulable; with one the     *)
(* framework places it without scoring; otherwise it runs Score on every   *)
(* feasible node and then NormalizeScore.                                  *)
(***************************************************************************)
AllDone == \A n \in Nodes : tpc[n] = "done"

CycleStart(p) ==
    /\ phase = "idle"
    /\ phase' = "filter" /\ pod' = p /\ snap' = Nodes
    /\ tpc' = [n \in Nodes |-> "rlock"] /\ tstats' = [n \in Nodes |-> NoEntry]
    /\ feasible' = {} /\ raw' = [n \in Nodes |-> None] /\ norm' = None
    /\ UNCHANGED <<cache, upd, lock>>

FilterDone ==
    /\ phase = "filter" /\ AllDone
    /\ IF Cardinality(feasible) <= 1
       THEN phase' = "idle" /\ UNCHANGED tpc
       ELSE phase' = "score" /\ tpc' = [n \in Nodes |-> IF n \in feasible THEN "rlock" ELSE "done"]
    /\ UNCHANGED <<cache, snap, upd, lock, pod, tstats, feasible, raw, norm>>

Normalize ==
    /\ phase = "score" /\ AllDone
    /\ norm' = NormalizeScore([n \in feasible |-> raw[n]])
    /\ phase' = "idle"
    /\ UNCHANGED <<cache, snap, upd, lock, pod, tpc, tstats, feasible, raw>>

UpdaterStep == UpdList \/ UpdLock \/ (\E n \in Nodes : UpdNode(n)) \/ UpdUnlock \/ Tick

LockStep(n) == ReadCache(n) \/ WriteBack(n)

ThreadStep(n) == LockStep(n) \/ ReadUnlock(n) \/ Fetch(n) \/ Decide(n)

Framework == (\E p \in Pods : CycleStart(p)) \/ FilterDone \/ Normalize

Next == UpdaterStep \/ (\E n \in Nodes : ThreadStep(n)) \/ Framework

(***************************************************************************)
(* Fairness.  The updater goroutine, once it can run, runs (weak fairness  *)
(* of its steps, its mu.Lock included), and a goroutine holding RLock      *)
(* returns from getNodeStatsFromCache (weak fairness of the deferred       *)
(* RUnlock).  Nothing else is assumed: no fairness for blocked lock        *)
(* acquisitions, for the framework, or for new pods.                       *)
(***************************************************************************)
Spec ==
    /\ Init /\ [][Next]_vars
    /\ WF_vars(UpdaterStep)
    /\ \A n \in Nodes : WF_vars(ReadUnlock(n))

(***************************************************************************)
(* The periodic refresh is not starved by request load (spec section 5):   *)
(* once the updater goroutine calls mu.Lock it gets the lock, however the  *)
(* Filter and Score goroutines keep taking RLock.  It rests on RWMutex     *)
(* blocking new readers behind a pending writer.                           *)
(***************************************************************************)
RefreshNotStarved == upc = "lock" ~> upc = "sweep"

(***************************************************************************)
(* NormalizeScore rescales the raw scores of a cycle linearly onto         *)
(* [0, maxScore] (spec section 4.4): it keeps their strict order and, when *)
(* they differ, sends the lowest to 0 and the highest to maxScore.         *)
(***************************************************************************)
NormalizeRescales ==
    norm # None /\ (\A n \in DOMAIN norm : raw[n] \in 0..MaxScore) =>
        /\ \A a, b \in DOMAIN norm : raw[a] < raw[b] => norm[a] < norm[b]
        /\ (\E a, b \in DOMAIN norm : raw[a] # raw[b]) =>
               /\ \E a \in DOMAIN norm : norm[a] = 0
               /\ \E b \in DOMAIN norm : norm[b] = MaxScore

(***************************************************************************)
(* With Prometheus answering every query, the cached CPU total of a node   *)
(* is the core count its node_exporter reports (getNodeStats, the count()  *)
(* query of metrics.go).                                                   *)
(***************************************************************************)
CachedCpuFromMetrics ==
    \A n \in Nodes : cache[n] # NoEntry => cache[n].cpu.total = 1000 * Cores[n]

(***************************************************************************)
(* Score returns a value in [0, maxScore] (spec section 4.4).              *)
(***************************************************************************)
ScoreInRange == \A n \in Nodes : raw[n] # None => raw[n] \in 0..MaxScore

(***************************************************************************)
(* The blend's direction follows alpha (spec section 4.4): from 0.5 on,    *)
(* scoring packs, so of two scored nodes with the same totals the one with *)
(* at least as much free capacity everywhere scores no higher; below 0.5   *)
(* it spreads and scores no lower.                                         *)
(***************************************************************************)
Idler(s, t) == \A d \in Dims : s[d].total = t[d].total /\ s[d].free >= t[d].free

AlphaBias ==
    \A a, b \in Nodes :
        raw[a] \in 0..MaxScore /\ raw[b] \in 0..MaxScore /\ Idler(tstats[a], tstats[b]) =>
            IF Alpha >= 50 THEN raw[a] <= raw[b] ELSE raw[a] >= raw[b]

=============================================================================
