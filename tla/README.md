# Formal models of the multi-resource scheduler

This directory holds TLA+ models of the scheduler in `src/`. It has the TLC
configurations that check them on small clusters and TLAPS proofs that hold
for every cluster. `PROJECT.json` records every component, run, mutant,
finding, hazard and theorem, and maps each definition to the source lines it
models.

## 1. The system

The repository offers one scheduling core through three front ends.

| Front end | Source | What it does |
|---|---|---|
| Preemptive watch-and-bind scheduler | `src/unnamed/part_009` (Go, `package main`) | Lists pending pods, picks a node, may evict pods, binds. |
| In-process scheduler-framework plugin | `src/unnamed/part_002`, `part_003`, `src/custom-scheduler/pkg/multiresource/{metrics,score}.go` | Filter, Score and NormalizeScore over a cache refreshed every 30 s. |
| HTTP scheduler extender | `src/k3s-ansible/deployments/sched_extender/pkg/sched_extension/extender.go`, `src/unnamed/part_004`, Prometheus code in `k3s-scheduler-patch.yaml` | Filter and Prioritize over a cache refreshed every 30 s. |

All three read node resources from Prometheus (`node_exporter` samples keyed
by instance label). They extract a demand vector from the pod. They admit a
node when every demanded dimension fits. The preemptive front end also
applies an `alpha` cap on projected utilisation.

The preemptive scheduler runs two loops in one process:

- the goroutine `watchForUnscheduledPods`, which places pods;
- the probe loop in `main`.

For each pending pod, `findNodeForPod` does this:

1. It walks the nodes and skips the ones that are not Ready or are cordoned.
2. It calls `getNodeStats`, which makes two to three Prometheus queries per dimension.
3. It calls `canScheduleMulti`.
4. When the node is rejected and preemption is on, it calls `attemptPreemptionMulti`. That function lists the node's running pods and keeps those of lower priority. It sorts them ascending, adds them one by one to a victim set until free + freed CPU and memory cover the request, and evicts the victims in order.
5. On success it reads the stats again and re-admits. If the re-check fails it moves on to the next node.

The kubelet, pod termination and Prometheus scraping run at the same time as
the scheduler, so every read of metrics can be stale.

### Inventory

| Component | Status | Module |
|---|---|---|
| Watch-and-bind loop: `watchForUnscheduledPods`, `findNodeForPod`, `isNodeReady`, `bindPodToNode` | modelled | `PreemptiveScheduler` |
| Preemption engine: `getRunningPods`, `attemptPreemptionMulti`, `evictPod` | modelled | `PreemptiveScheduler` |
| What the watch loop and the preemption engine promise the cluster (spec 4.5, 6) | abstract specification | `PreemptionContract` |
| Admission `canScheduleMulti`, node stats `getNodeStats` / `queryPrometheus` | partly: CPU and memory | `PreemptiveScheduler` |
| Probe loop in `main` | not yet | planned as a second process |
| Plugin cache and updater, Filter, Score, NormalizeScore, weighted-usage scoring | modelled | `PluginCore`, `PluginCache` (proofs in `PluginCache_proofs`) |
| Plugin `getNodeStats` and `Query` | partly: HTTP and JSON abstracted | `PluginCore` |
| Plugin requirement extraction and annotation parsing | partly: annotation string parsing abstracted | `PluginCore` |
| Extender cache, updater, Filter, Prioritize | modelled | `ExtenderCache` (proofs in `ExtenderCache_proofs`) |
| Extender IO estimation, `ExtractPodRequirements`, `CanScheduleMulti`, dominant-share score | modelled; annotation string parsing abstracted | `ExtenderCache`, `ExtenderScore` |
| Extender `GetNodeStats` (in `k3s-scheduler-patch.yaml`) | partly: HTTP and JSON abstracted | `ExtenderCache` |
| HTTP handler, server setup, metrics display tool (`part_008`) | not modelled | pure I/O |
| Direct-config copy of the scheduler (`k3s-direct-config.yaml`) | covered by the `enablePreemption = FALSE` case | — |
| Manifests, Dockerfiles, shell scripts, docs | not modelled | no scheduling logic |

## 2. `PreemptiveScheduler`: the watch-and-bind scheduler

### State

- **Cluster** (owned by the API server and the kubelets):
  - `phase[p]` is Pending, Bound (bound, not started), Running, Failed (rejected by the kubelet) or Gone (deleted).
  - `nodeOf[p]` is `spec.nodeName`.
  - `deleting[p]` records a deletion timestamp set by an eviction.
  - `used[n]` is what the running pods hold.
- **Metrics**: `seen[n]` is what Prometheus saw at its last scrape of `n`.
- **The goroutine**:
  - `enablePreemption` is the `-preemption` flag, chosen at start.
  - `pc` is the program point.
  - `todo` is the rest of the current List.
  - `cur` is the pod being placed.
  - `nodesLeft` and `node` track the node loop.
  - `stats` is the NodeStats last read.
  - `cands`, `freed`, `victims` and `evicted` are the local variables of `attemptPreemptionMulti`.

### Actions

Each function's loop iteration is one atomic step. Each action's comment
names the function it translates.

| Action | Code |
|---|---|
| `ListUnscheduledPods` | the List at the top of the watch loop, with its retry |
| `NextPod` | one iteration of the pod loop, including the node List error |
| `TryNode` | one iteration of the node loop up to the preemption call |
| `StartPreemption` | `attemptPreemptionMulti` up to the sort |
| `AccumulateVictim` | one iteration of the victim loop |
| `EvictVictim` | one `evictPod` of the eviction loop |
| `Recheck` | the re-read of stats and the re-admission |
| `Bind` | `bindPodToNode` |

The environment actions are modelled from the spec, because that code is not
in the repository:

- `KubeletAdmit(p)`: the kubelet admits against the node's real capacity, or fails the pod.
- `Terminate(p)`: an evicted pod terminates and releases its requests.
- `Scrape(n)`: Prometheus catches up with node `n`.

### Abstractions

- A pod is a model value with constant CPU and memory requests, in whole cores and GiB. It uses what it requests.
- Disk and network are left out. `extractPodRequirements` sets their demand to 0, so `canScheduleMulti` skips them.
- `getNodeStats` returns the set of NodeStats it can produce:
  - with exact `"<node>:9100"` labels (`ExactKey`), its own node's sample;
  - otherwise any node's sample, because the fallbacks take an arbitrary entry of a Go map;
  - with `MetricsMayFail`, the hard-coded defaults and the `MemTotal = 0` of an empty total query.
- The alpha test `1 - (free - req)/total > alpha` is kept exactly, in integers: `AlphaDen*(total - free + req) > AlphaNum*total`.
- The List, Pod and Node orders are left to `\E`. This over-approximates both the API server's order and `sort.Slice`, which is not stable.
- `ApiMayFail` lets any List, eviction or Binding call fail.

### The contract and the refinement

`PreemptionContract` is the abstract specification. It states what the
scheduler promises the cluster, as spec sections 4.5 and 6 and the bind loop of
section 2 describe it. It sees only the pods' `phase`, `nodeOf` and `deleting`,
and hides the goroutine's state, `used` and `seen`. It has three actions:

- `BindPod(p, n)`: a pending, unbound pod is bound to a schedulable node.
- `EvictPod(q)`: a running pod of a schedulable node gets a deletion mark,
  while some pending, unbound pod of strictly higher priority exists.
- `ClusterStep`: the kubelets and the API server change phases. No pod
  becomes pending, no pending pod changes phase, and only a marked pod is
  deleted.

`PreemptiveScheduler` defines `Contract == INSTANCE PreemptionContract`.
Every variable and constant keeps its name, so the refinement mapping is the
identity on the three visible variables. `ImplementsContract == Contract!Spec`.

The steps map as follows:

- A successful `EvictVictim` is `EvictPod(victims[evicted + 1])`.
- A successful `Bind` is `BindPod(cur, node)`.
- `KubeletAdmit` and `Terminate` are `ClusterStep`.
- Every other step, and every failed API call, is a stutter.

What makes this a question and not a tautology is timing. The goroutine acts
on values it read steps earlier: the List of pending pods, the node chosen in
`findNodeForPod`, and the candidates of `getRunningPods`. Meanwhile the
kubelets start, fail and delete pods, and earlier iterations bind other pods.

## 3. Runs

All runs share `MC_PreemptiveScheduler`. The cluster has:

- nodes `n1` (8 cores, 8 GiB) and `n2` (4 cores, 4 GiB);
- pods `low1` and `low2` (priority 1, 3 cores and 2 GiB each), bound to `n1` at start;
- `mid` (priority 5, 2 cores and 1 GiB) and `high` (priority 10, 4 cores and 2 GiB), pending;
- the code's constants: CPUTotal 6, default CPUFree 2, defaults of 8 GiB and 4 GiB, alpha 0.8.

These bounds are enough for the cases that matter:

- `high` needs both low pods evicted, which tests minimality and the stop after the append.
- `mid` can be preempted by `high`, which gives candidates of different priorities and tests the sort.
- `n1` can run more cores than the hard-coded 6, so CPUFree goes negative.

`low1` and `low2` are interchangeable, so `SYMMETRY` permutes them.

| Run | cfg | Expect | Checks |
|---|---|---|---|
| nominal | `MC_PreemptiveScheduler.cfg` | pass | `TypeOK`, `VictimsLowestFirst`, `VictimSetMinimal`, `EvictsOnlyLowerPriority`, `ImplementsContract` with exact labels and no failures (18 040 states) |
| faults | `MC_PreemptiveScheduler_faults.cfg` | pass | the same with unmatched labels, failing queries and API calls, `n2` cordoned, and preemption on or off (about 1.4 M states, about 2.5 min with `ImplementsContract`) |
| admission | `MC_PreemptiveScheduler_admission.cfg` | violation | `PreemptionEnablesAdmission` (spec 4.5) |
| clamp | `MC_PreemptiveScheduler_clamp.cfg` | violation | `NodeStatsClamped` (spec 3) |

The properties:

- **`EvictsOnlyLowerPriority`** (action property): every step that sets a deletion timestamp sets it on a pod of lower priority than `cur`.
- **`VictimsLowestFirst`**: while victims are chosen and evicted, no leftover candidate has lower priority than a victim.
- **`VictimSetMinimal`**: when evictions start, free + freed covers the request, and without the last victim it would not (when there are two or more victims).
- **`ImplementsContract`** (temporal property, `Contract!Spec`): every step of the scheduler and the cluster is a step of `PreemptionContract` or a stutter.
- **`PreemptionEnablesAdmission`** is violated. `mid` on `n1` with CPUFree 0 evicts `low1`, because 0 + 3 ≥ 2. But the projected utilisation 1 - (3 - 2)/6 = 5/6 is still above 0.8. The sufficiency test at part_009:748 ignores alpha.
- **`NodeStatsClamped`** is violated. With `low1` and `high` running on `n1` (7 cores), `getNodeStats` returns CPUFree = 6 - 7 = -1 (part_009:239).

Each passing property has a mutant in `PreemptiveScheduler.tla`, defined just
before the definition it replaces, and TLC finds the property violated under
both passing cfgs:

| Mutant | Replaces | Violates |
|---|---|---|
| `StartPreemptionNoReset` (eviction counter not reset) | `StartPreemption` | `TypeOK` |
| `NextCandidateUnsorted` (sort dropped) | `NextCandidate` | `VictimsLowestFirst` |
| `AccumulateVictimTestFirst` (test before the append) | `AccumulateVictim` | `VictimSetMinimal` |
| `CandidatesAnyPriority` (priority filter dropped) | `Candidates` | `EvictsOnlyLowerPriority` |
| `ListUnscheduledPodsNoSelector` (`spec.nodeName=` field selector dropped) | `ListUnscheduledPods` | `ImplementsContract`: an already bound pod is bound again |

No preemptive-scheduler run checks liveness yet. The watch loop sleeps and lists again forever, so
the model never deadlocks.

## 4. Proofs

`PreemptiveScheduler_proofs` proves these theorems for every value of the
constants that satisfies `ConstantsAssumption`:

- `InvariantHolds`: `Spec => []IInv`;
- `TypeCorrect`: `Spec => []TypeOK`;
- `LowestFirstHolds`: `Spec => []VictimsLowestFirst`;
- `OnlyLowerPriority`: `Spec => EvictsOnlyLowerPriority`;
- `MinimalVictims`: `Spec => []VictimSetMinimal`.

`TypeOK` is not inductive on its own. `EvictVictim` reads
`victims[evicted + 1]`, and `getNodeStats(node)` reads `seen[node]`. So `IInv`
adds these facts:

- inside `findNodeForPod`, `cur` is a pod and `node` is a node;
- the eviction counter is 0 while victims are chosen;
- the counter is below `Len(victims)` while they are evicted;
- every victim and candidate has lower priority than `cur` (`VictimsLower`);
- `VictimsLowestFirst`.

`IInvStep` has one case per action. Each case splits `TypeOK` into the
cluster half and the scheduler half and proves the other conjuncts one by one.
The lemmas it cites:

- `StatsTyped`: `getNodeStats` yields NodeStats.
- `ResArith`
- `CandidatesLower`
- `NextCandidateLowest`

`OnlyLowerPriority` rests on `EvictStep`: under `IInv`, only `EvictVictim`
changes `deleting`, and the pod it marks is in `VictimSet`. It is combined
with `InvariantHolds` by PTL.

`MinimalVictims` needs no fold over the victims, although `freed` is their
sum. `AccumulateVictim` appends a victim only after the test has failed on
the `freed` it had before. `VictimSetMinimal` checks the list without its last
victim, whose `freed` is `Minus(freed, Req(last))`. So the invariant is
strengthened with `AccumulateShort`: while victims accumulate and there is at
least one, `cur` does not fit on `freed`. That is exactly the test the loop
has just failed. `MinusPlus` (adding a request and taking it off again gives
the same vector) links the two. TLC checks `AccumulateShort` on both
preemptive cfgs. `MInvStep` proves `MInv` inductive relative to `IInv`, with
one case per action.

Liveness and anything about ENABLED stay with TLC, because the provers cannot
reason about them. This covers `RefreshNotStarved` and `EveryHostCached`.

`PreemptionContract_proofs` proves the refinement for every value of the
constants:

- `Refinement`: `Spec => ImplementsContract`;
- `RInvHolds`: `Spec => [](IInv /\ RInv)`.

`IInv` alone does not give the guards of the contract's actions, because they
are about values read earlier. `RInv` adds four facts:

- `TodoPending`: every pod still in the current List is pending and unbound.
- `CurPending`: inside `findNodeForPod`, `cur` is pending, unbound, and no
  longer in the List.
- `NodeSchedulable`: from preemption to the bind, `node` passed `isNodeReady`.
- `VictimsOnNode`: candidates and victims are on `node` and are Running or Gone.

`RInv` is inductive relative to `IInv`, for these reasons:

- Only `Bind` moves a pod out of Pending, and it moves `cur`, which is not in
  `todo`.
- The kubelet moves only Bound pods.
- `Terminate` moves only Running pods to Gone.

TLC checks `IInv /\ RInv` as an invariant of both preemptive cfgs.

`RefineStep` shows that `IInv /\ RInv /\ [Next]_vars` implies
`[Contract!Next]_cvars`, with one case per action:

- In `EvictVictim`, the victim is not Gone, so it is Running (`VictimsOnNode`).
  Its node is schedulable, and `cur` is the pending pod of higher priority
  (`VictimsLower`, `CurPending`).
- `KubeletAdmit` and `Terminate` meet `ClusterStep` through the lemma
  `ClusterStepOf`.

The theorem combines `Init => Contract!Init`, `RInvHolds` and `RefineStep` by
PTL.

`ExtenderScore_proofs` proves two theorems about the extender's scoring. They
hold for every `MaxScore` in `Nat \ {0}`, every demand vector in
`[Dims -> Nat]` and every NodeStats whose free capacities are natural:

- `RejectedScoreZero`: when `CanScheduleMulti` rejects, `ScoreMultiResource` is 0.
- `ScoreBounded`: `ScoreMultiResource` lies in `0..MaxScore`.

The argument:

1. `ScoreMultiResource` picks the dominant dimension with a CHOOSE.
   `MaxShareExists` shows that the CHOOSE has a witness. It runs a tournament
   over the six dimensions:
   - `PickStep` shows that one round keeps a leader of the dimensions seen so far;
   - comparing shares by cross products is total, and, with a positive free in
     the middle, transitive (`ShareTransitive`).
2. The dimension that does not fit has demand above free. Its cross product
   with the dominant dimension then forces the dominant demand above its own
   free. So `maxScore * (free - demand) \div free` is negative and the clamp
   gives 0.

`ExtenderCache_proofs` carries these theorems over to the cache and the
handlers. They hold for every value of the constants that satisfies
`ConstantsAssumption`:

- `TypeCorrect`: `Spec => []TypeOK`;
- `RejectedZero`: `Spec => []RejectedScoresZero`.

They rest on two lemmas about the model's operators:

- `RequirementsTyped`: `ExtractPodRequirements(p)` is a natural demand vector.
  An annotation or its default is natural, and every floor that names a
  dimension raises it to one of 20, 25, 40, 50 or 100 (`FloorValues`).
  `MaxOfFloors` gives the CHOOSE of `Max` a witness: the largest of these
  floors, or the annotation when it is larger.
- `StatsTyped`: every NodeStats of `GetNodeStats(h)` has natural free
  capacities. CPU free is clamped by `Pos`, memory free is a sample, and an
  I/O rate is a natural, so `3r - r` and `5r - r` are too.

`TypeOK` is inductive as it stands. For the provers it is split into the
cache conjunct, stated over `CachedStats`, and the rest. `PrioritizeNode` keeps
scores in range by `ScoreBounded`. `RejectedZero` follows from `TypeOK` and
`RejectedScoreZero` in every state.

These proofs found one modelling error. `TypeOK` read
`[Keys -> UNION {...} \cup {NoEntry}]`, which SANY parses as
`UNION ({...} \cup {NoEntry})`. That ranges over the members of `NoEntry`
rather than over `NoEntry` itself. TLC, with `NoEntry` a model value, never
noticed. The set is now parenthesised.

To keep `ExtenderCache` within the provers' reach, it uses no RECURSIVE
operator:

- `IoSum` is a recursive function over the subsets of `MatchSet[h]`;
- the floors are records.

For the same reason `PluginCore` writes Euclid's gcd as a recursive function
over pairs (`GcdF`), and spells out the weighted sum over the six dimensions.

### The plugin

`PluginCache_proofs` proves these theorems for every value of the constants
that satisfies `ConstantsAssumption`, `NaNAssumption` (`NaN`, which stands
for `int(NaN * 100)`, i.e. -2^63 on amd64, is not a score in [0, 100]) and
`MarkersAssumption` (the `NoEntry` and `None` markers are not a NodeStats and
not a score, as the `ok` of a Go map lookup and the framework's list of
scored nodes make them):

- `Invariant`: `Spec => []IInv`;
- `TypeCorrect`: `Spec => []TypeOK`;
- `Rescales`: `Spec => []NormalizeRescales`.

`TypeOK` is not inductive by itself. Three things break it:

- `Decide` types `raw` only if the goroutine holds stats;
- `Normalize` types `norm` only if every feasible node was scored;
- the scores would drift from `norm` if a goroutine could decide between
  cycles.

`IInv` adds what excludes each of these:

- `DecideHasStats`: a goroutine at Lock or at the decision holds stats.
- `ScoreDone`: in the score phase, a feasible node whose goroutine returned
  has a score.
- `CycleNorm`: `norm` is cleared during a cycle.
- `IdleDone`: no goroutine runs between cycles.
- `NormEq`: a stored `norm` is `NormalizeScore` of the cycle's raw scores.

TLC checked `IInv` on all 79 962 states of the `plugin` cfg before it was
proved. `StepIInv` has one case per action. The four goroutine steps that only
move `tpc[n]` and `tstats[n]` share `ThreadCyc`.

The actions rest on lemmas about the plugin's functions:

- `ScoreRange`: for every natural demand and every NodeStats with natural
  fields, `scoreMultiResource` is in [0, 100] or NaN.
  - Each usage is a fraction in [0, 1] (`UsageFrac`, `ReducedFrac`, via
    `GcdProps`).
  - Each term of the weighted sum over the common denominator is at most
    weight × denominator (`TermBound`).
  - The blend is non-negative for alpha in [0, 100] (`BlendNonNeg`).
  - The final clamp bounds it by maxScore.
- `StatsTyped` and `RequirementsTyped`: `getNodeStats` returns natural
  fields, and `extractPodRequirements` a natural vector.
- `NormTyped` and `NormRescale`: NormalizeScore of scores in [0, 100] keeps
  strict order and, when the scores differ, maps the lowest to 0 and the
  highest to 100.
  - Flooring keeps a gap of 100 over a divisor of at most 100 (`DivGap`).
  - `highest` and `lowest` exist and are attained (`HighLow`, from `MaxProps`
    and `MinProps`).
  - Those two rest on `NatMinExists`, which gets a least element from
    `WFMin` and the well-foundedness of `<` on Nat, with no induction.

What stays with TLC for the plugin:

- `RefreshNotStarved`, a liveness property;
- the three violated properties;
- the NaN case of NormalizeScore. `NormalizeRescales` and its theorem speak
  only of cycles whose raw scores are all in range. The `plugin_nan` run
  reaches a NaN score, and with it the int64 wrap-around.

## 5. `ExtenderCache`: the HTTP scheduler extender

### State and actions

`ExtenderScore` holds `CanScheduleMulti` and `ScoreMultiResource`, which
`ExtenderCache` extends.

- `cache` is `e.nodeStats`, a function from `Keys = Nodes \cup Hosts` to a NodeStats or `NoEntry`. The updater writes it under the host part of each instance label; the handlers read it by node name.
- `upc` and `pending` are the updater goroutine: idle (before the first update, or waiting on the ticker) or sweeping the instances of the last discovery query.
- `rpc`, `rpod`, `rleft`, `filtered`, `reason` and `score` are one HTTP request: Filter or Prioritize, its pod, the nodes left and the result so far.

| Action | Code |
|---|---|
| `UpdateAllNodeStats` | the discovery query of `updateAllNodeStats`, with its early return; the first call and every tick |
| `UpdateNode(h)` | one iteration of the instance loop: `GetNodeStats(h)`, then the locked write |
| `Arrive(r, p, kind)` | an HTTP call to Filter or Prioritize |
| `FilterNode(r, n)` | one iteration of Filter's node loop: cache read, the miss branch, `CanScheduleMulti` |
| `PrioritizeNode(r, n)` | one iteration of Prioritize's loop: score 0 on a miss, else `ScoreMultiResource` |
| `Respond(r)` | the handler returns |

Every access to `e.nodeStats` holds `e.cache` for one key only, so each is
one atomic step and the RWMutex is not state.

### Abstractions

- Units are whole cores, GiB and MiB/s.
- `GetNodeStats(h)` is the set of NodeStats it can return. Each query may fail when it is in `MayFail`, giving the code's default. CPU and memory take the `"<h>:9100"` sample when labels have that form (`ExactPort`), else any instance matching `h` (`MatchSet[h]`: the label contains `h`, or `h` contains the label's host part, so n1 and n10 match each other), because the code takes the first match of a Go map range. The two memory lookups are independent. A disk or network rate is the sum over `MatchSet[h]` (`IoSum`, a recursive function that adds one instance at a time); a zero sum takes any host's sample; a zero rate gives the defaults, else total = 3x (disk) or 5x (network) the rate and free = total - rate.
- `parseResourceAnnotation` is abstracted to its result: a natural number, or `NoAnno` for an absent or unparsable annotation (the default then applies). Its string parsing is not modelled.
- Image matching is abstracted to the set of patterns a pod's images hit (`"db"`, `"web"`).
- `ScoreMultiResource` compares shares exactly, as cross products, where the code uses float64. A zero free gives an infinite share and score 0, as in Go.
- Requests share nothing but the cache, so the runs use one request. The interleaving that matters is the updater's writes against the handler's reads.

### Runs

The cluster has two nodes and two pods:

- `n1`: 1 core used, 8 GiB total and 6 GiB available, busy disk;
- the other node: 5 cores used, 4 GiB total and 1 GiB available, an almost idle disk;
- `p1`: 1 core, 1 GiB, a web image;
- `p2`: 2 cores, a database image and a disk-read annotation of 5 MiB/s.

| Run | cfg | Expect | Checks |
|---|---|---|---|
| ext_nominal | `MC_ExtenderCache.cfg` | pass | `TypeOK`, `EveryHostCached`; nodes n1 and n2, exact labels, no failing query (1 607 states) |
| ext_faults | `MC_ExtenderCache_faults.cfg` | pass | `TypeOK`, `RejectedScoresZero`; nodes n1 and n10, whose labels match each other, no exact port, failing CPU and memory queries (106 420 states) |
| ext_miss | `MC_ExtenderCache_miss.cfg` | violation | `NoStatsMiss` (spec 7(b)) |
| ext_memfree | `MC_ExtenderCache_memfree.cfg` | violation | `EntryFreeWithinTotal` (spec 3) |

- **`EveryHostCached`** (liveness): every instance is eventually in the cache. It assumes weak fairness of the updater's two steps: the goroutine runs on a 30 s ticker and nothing blocks it. It is checked only where discovery cannot fail, since nothing makes a failing Prometheus recover.
- **`RejectedScoresZero`**: a node that Filter rejects for insufficient resources scores 0 in Prioritize on the same stats. The kube-scheduler may call Prioritize on nodes it did not filter, so this matters.
- **`NoStatsMiss`** is violated. A Filter that arrives before the first sweep has written `n1` fails it with "node stats not available", with no refresh (extender.go:68). With IP instance labels, every lookup misses for good (extender.go:152).
- **`EntryFreeWithinTotal`** is violated. With labels not of the form `"<host>:9100"`, host `n1` takes MemTotal from `n10`'s instance (4 GiB) and MemAvailable from its own (6 GiB).

| Mutant | Replaces | Violates |
|---|---|---|
| `ScoreMultiResourceNoClamp` (clamp at 0 dropped) | `ScoreMultiResource` | `TypeOK` (both runs) |
| `UpdateNodeBreak` (loop stops after the first write) | `UpdateNode` | `EveryHostCached` |
| `ScoreMultiResourceOfTotal` (shares against total) | `ScoreMultiResource` | `RejectedScoresZero` |

## 6. `PluginCore` and `PluginCache`: the in-process plugin

`PluginCore` holds the plugin's pure functions. Its gcd is a recursive
function over pairs of naturals (`GcdF`), whose result `GcdOf` uses only when
it divides both arguments, so the module stays within the provers' reach.

- `GetNodeStats(n)` is the set of NodeStats `getNodeStats` can return. Each query in `MayFail` may fail, which leaves the field at 0. Otherwise `Query` keys its samples by instance host or node label. The `count()`, `avg()` and `sum()` queries aggregate every label away, so their only key is `""` and the lookup misses. A miss takes the hard-coded default: 1 core with 20% free, 4 GiB with 20% free, 100/50/125/125 MiB/s.
- `ExtractPodRequirements`: summed requests, plus I/O defaults proportional to CPU. Annotation parsing is abstracted to its result (`PodAnno`, or `NoAnno`).
- `CanScheduleMulti`: each dimension's demand is at most its free capacity.
- `ScoreMultiResource` computes the weighted usage score exactly, over reduced fractions, and truncates as `int(x * 100)` does. The code's CPU and memory divisions are unguarded: +Inf and -Inf clamp to 1 and 0, and 0/0 stays NaN. The model value `NaN` stands for `int(NaN*100)`.
- `NormalizeScore`: the linear rescale onto [0, 100], with the early return when all scores are equal. On amd64 `int(NaN*100)` is -2^63, so its int64 arithmetic wraps and every node's score becomes 0.
- Units: CPU in millicores, memory in 12.8 MiB, I/O in 0.5 MiB/s. The code's 20% and CPU-proportional defaults are whole numbers in these units.

`PluginCache` is the state behind `p.mu`:

- `cache` is `p.nodeStats` and `snap` is the framework snapshot the updater lists.
- `writer`, `readers` and `wwait` are the RWMutex: its holder, its readers and its blocked writers. `CanRLock` requires no pending writer, which is Go's writer preference.
- `upc` and `todo` are the updater goroutine.
- `phase`, `pod`, `tpc`, `tstats`, `feasible`, `raw` and `norm` are one scheduling cycle, with one Filter or Score goroutine per node.

| Action | Code |
|---|---|
| `UpdList`, `UpdLock`, `UpdNode(n)`, `UpdUnlock`, `Tick` | `updateAllNodeStats`: list the nodes, `mu.Lock`, one `getNodeStats` and write per node under the lock, the deferred Unlock; the 30 s ticker |
| `ReadCache(n)`, `ReadUnlock(n)` | `getNodeStatsFromCache`: RLock and copy; RUnlock, then the hit or miss branch |
| `Fetch(n)`, `WriteBack(n)` | the miss path of Filter and Score: `getNodeStats` without the lock, then Lock, write, Unlock |
| `Decide(n)` | `canScheduleMulti` (Filter) or `scoreMultiResource` (Score) |
| `CycleStart(p)`, `FilterDone`, `Normalize` | the framework: Filter on every node; Score only with two or more feasible nodes; then `NormalizeScore` |

Fairness is weak fairness of the updater's steps and of `ReadUnlock`. The
updater loops forever on its ticker, and a reader holding `mu` always
releases it. Nothing obliges the framework to schedule pods, so no fairness
is assumed for it.

`MC_PluginCache` has two nodes, each with 8 GiB:

- n1: 4 cores, 25% busy, 6 GiB available;
- n2: 2 cores, 50% busy, 2 GiB available.

Its pods are the repository's test pod (200m, 256 MiB, annotations 20/10/5/15 MiB/s) and a 100m pod. The `_nan` run adds a best-effort pod. `Alpha = 50`, as `New` hard-codes.

| Run | cfg | Expect | Checks |
|---|---|---|---|
| plugin | `MC_PluginCache.cfg` | pass | `TypeOK`, `NormalizeRescales`, `RefreshNotStarved`, with failing CPU-count and MemTotal queries (79 962 states, about 1 min) |
| plugin_cpu | `MC_PluginCache_cpu.cfg` | violation | `CachedCpuFromMetrics` |
| plugin_nan | `MC_PluginCache_nan.cfg` | violation | `ScoreInRange` (spec 4.4) |
| plugin_bias | `MC_PluginCache_bias.cfg` | violation | `AlphaBias` (spec 4.4) |

- **`RefreshNotStarved`** (liveness): once the updater asks for the lock, it eventually holds it, despite the RLocks of Filter and Score.
- **`NormalizeRescales`**: when every raw score is in range, normalization keeps their strict order and spans [0, 100].
- **`CachedCpuFromMetrics`** is violated. Every node is cached as 1 core, so any pod requesting more than 200m is rejected everywhere.
- **`ScoreInRange`** is violated: the best-effort pod on a node whose CPU-count query failed gets NaN. The root cause is in `getNodeStats`, which leaves a field at 0 on a query error but uses a default on an empty result (spec 4.1 and 7(a) treat both alike). The trace caches CPU total 0 for n1.
- **`AlphaBias`** is violated. At alpha = 0.5 the blend is pure spreading: in the scored cycle pod p2 (100m, 128 MiB) scores 31 on the emptier n1 and 16 on the fuller n2.
- Not a run of its own: `updateAllNodeStats` holds `mu` across all of its Prometheus queries (part_002:145-156), which contradicts spec 5. The `plugin` run reaches a Filter blocked in RLock while the updater still has nodes to query.

| Mutant | Replaces | Violates |
|---|---|---|
| `MemFreeOutcomesAsUsed` (MemAvailable read as used) | `MemFreeOutcomes` | `TypeOK` |
| `NormalizeScoreLowestZero` (lowest starts at 0) | `NormalizeScore` | `NormalizeRescales` |
| `ReadCacheNoWriterPref` (RLock ignores waiting writers) | `ReadCache` | `RefreshNotStarved` |

## 7. Plan

These come next, in order:

1. **Annotation parsing**: `parseResourceAnnotation` and the extender's parser, checked against the spec 8 round trips.
2. **Preemptive scheduler extensions**:
   - the probe loop as a second process;
   - over-preemption across nodes for one pod (an auxiliary history variable);
   - kubelet rejection after stale admission;
   - a liveness property, "a preempting pod is eventually bound", under weak fairness of the environment and of the goroutine, which loops forever with a sleep.
3. **Finer contract**: add the decide-then-evict structure of spec 4.5 (a victim set fixed before the first eviction) to `PreemptionContract`, with an auxiliary variable for the chosen set.
