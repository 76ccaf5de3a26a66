----------------------------- MODULE PluginCore -----------------------------
(***************************************************************************)
(* The pure part of the in-process MultiResource scheduler plugin          *)
(* (src/custom-scheduler/pkg/multiresource and src/unnamed/part_002-003):  *)
(* what one getNodeStats call can return (metrics.go), the pod's demand    *)
(* vector (extractPodRequirements), the admission predicate                *)
(* (canScheduleMulti), the weighted-usage score (scoreMultiResource and    *)
(* resourceToScore) and NormalizeScore.                                    *)
(*                                                                         *)
(* Units.  Every quantity is an integer in a unit chosen so that the       *)
(* code's 20% fallbacks and CPU-derived I/O defaults are whole:            *)
(*   cpu      millicores            (1 core = 1000)                        *)
(*   mem      12.8 MiB = 64 MiB / 5 (4 GiB = 320, 256 MiB = 20)            *)
(*   I/O      0.5 MiB/s             (100 MiB/s = 200)                      *)
(* Scores are computed exactly over the rationals and truncated as the     *)
(* code's int(totalScore * maxScore) truncates; the float64 rounding of    *)
(* the code is abstracted (it can move a result that is exactly an         *)
(* integer down by one).                                                   *)
(***************************************************************************)
EXTENDS Integers, FiniteSets

CONSTANTS
    Nodes,        \* node names
    Pods,         \* pods to place
    Alpha,        \* the blend tunable, in percent (New: alpha := 0.5)
    Cores,        \* Cores[n]: CPU cores the node's node_exporter reports
    CpuBusy,      \* CpuBusy[n]: its non-idle CPU ratio, in percent
    MemTotalOf,   \* MemTotalOf[n]: node_memory_MemTotal_bytes, in mem units
    MemAvail,     \* MemAvail[n]: node_memory_MemAvailable_bytes
    IoRate,       \* IoRate[n][d]: the node's current I/O rate of dimension d
    LabelIsName,  \* the instance label of a sample is host:port with the node name
    MayFail,      \* the Prometheus queries that can return an error
    PodCpu,       \* PodCpu[p]: summed container CPU requests, millicores
    PodMem,       \* PodMem[p]: summed container memory requests
    PodAnno,      \* PodAnno[p][d]: parsed I/O annotation, or NoAnno
    NoAnno,
    NaN           \* int(NaN * maxScore): the value a 0/0 usage yields

IoDims == {"diskRead", "diskWrite", "netUp", "netDown"}
Dims == {"cpu", "mem"} \cup IoDims
Queries == {"cpuCount", "cpuUsage", "memTotal", "memAvail"} \cup IoDims

ASSUME ConstantsAssumption ==
    /\ Alpha \in 0..100
    /\ Cores \in [Nodes -> Nat] /\ CpuBusy \in [Nodes -> 0..100]
    /\ MemTotalOf \in [Nodes -> Nat] /\ MemAvail \in [Nodes -> Nat]
    /\ \A n \in Nodes : MemTotalOf[n] % 5 = 0
    /\ IoRate \in [Nodes -> [IoDims -> Nat]]
    /\ \A n \in Nodes, d \in IoDims : IoRate[n][d] % 4 = 0
    /\ LabelIsName \in BOOLEAN /\ MayFail \subseteq Queries
    /\ PodCpu \in [Pods -> Nat] /\ \A p \in Pods : PodCpu[p] % 100 = 0
    /\ PodMem \in [Pods -> Nat]
    /\ PodAnno \in [Pods -> [IoDims -> Nat \cup {NoAnno}]]

(* New: maxScore := 100.                                                   *)
MaxScore == 100

(* int(NaN * maxScore) is -2^63 on amd64: never a score in [0, maxScore]. *)
ASSUME NaNAssumption == NaN \notin 0..MaxScore

Stat(t, f) == [total |-> t, free |-> f]

(***************************************************************************)
(* getNodeStats.  Query keys its result map by the instance host or the    *)
(* node label of each sample.  The count(), avg() and sum() queries        *)
(* aggregate away every label, so their only key is "" and the lookup by   *)
(* node name misses; the two memory queries are not aggregated and hit     *)
(* when the instance label carries the node name.  An error leaves the     *)
(* field at its zero value, a miss takes the hard-coded default.           *)
(***************************************************************************)
Aggregated == {"cpuCount", "cpuUsage"} \cup IoDims
Found(q) == q \notin Aggregated /\ LabelIsName
Failed(q, v) == IF q \in MayFail THEN {v} ELSE {}

CpuTotalOutcomes(n) ==
    Failed("cpuCount", 0) \cup {IF Found("cpuCount") THEN 1000 * Cores[n] ELSE 1000}

CpuFreeOutcomes(n, t) ==
    Failed("cpuUsage", t \div 5)
      \cup {IF Found("cpuUsage") THEN (t * (100 - CpuBusy[n])) \div 100 ELSE t \div 5}

MemTotalOutcomes(n) ==
    Failed("memTotal", 0) \cup {IF Found("memTotal") THEN MemTotalOf[n] ELSE 320}

(* Mutant: MemAvailable read as used memory.                             *)
MemFreeOutcomesAsUsed(n, t) ==
    Failed("memAvail", t \div 5) \cup {IF Found("memAvail") THEN t - MemAvail[n] ELSE t \div 5}

MemFreeOutcomes(n, t) ==
    Failed("memAvail", t \div 5) \cup {IF Found("memAvail") THEN MemAvail[n] ELSE t \div 5}

IoDefault == [diskRead |-> 200, diskWrite |-> 100, netUp |-> 250, netDown |-> 250]

IoOutcomes(n, d) ==
    Failed(d, Stat(0, 0))
      \cup {IF Found(d) THEN Stat((IoRate[n][d] * 5) \div 4, IoRate[n][d] \div 4)
            ELSE Stat(IoDefault[d], IoDefault[d] \div 5)}

CpuOutcomes(n) ==
    UNION {{Stat(t, f) : f \in CpuFreeOutcomes(n, t)} : t \in CpuTotalOutcomes(n)}

MemOutcomes(n) ==
    UNION {{Stat(t, f) : f \in MemFreeOutcomes(n, t)} : t \in MemTotalOutcomes(n)}

GetNodeStats(n) ==
    { [cpu |-> c, mem |-> m, diskRead |-> dr, diskWrite |-> dw, netUp |-> nu, netDown |-> nd] :
         c \in CpuOutcomes(n), m \in MemOutcomes(n),
         dr \in IoOutcomes(n, "diskRead"), dw \in IoOutcomes(n, "diskWrite"),
         nu \in IoOutcomes(n, "netUp"), nd \in IoOutcomes(n, "netDown") }

(***************************************************************************)
(* extractPodRequirements: CPU and memory are the summed requests; each    *)
(* I/O demand is its annotation (parseResourceAnnotation) or a default     *)
(* proportional to the CPU request: 10, 5, 5 and 10 MiB/s per core.        *)
(***************************************************************************)
AnnoOr(p, d, default) == IF PodAnno[p][d] = NoAnno THEN default ELSE PodAnno[p][d]

ExtractPodRequirements(p) ==
    [cpu |-> PodCpu[p], mem |-> PodMem[p],
     diskRead |-> AnnoOr(p, "diskRead", PodCpu[p] \div 50),
     diskWrite |-> AnnoOr(p, "diskWrite", PodCpu[p] \div 100),
     netUp |-> AnnoOr(p, "netUp", PodCpu[p] \div 100),
     netDown |-> AnnoOr(p, "netDown", PodCpu[p] \div 50)]

(* canScheduleMulti: every dimension's demand fits in its free capacity.  *)
CanScheduleMulti(req, st) == \A d \in Dims : req[d] <= st[d].free

(***************************************************************************)
(* scoreMultiResource.  A usage is a reduced fraction <<num, den>>; the    *)
(* fraction <<0, 0>> is NaN.  CPU and memory divide by their total with    *)
(* no guard, so a zero total gives +Inf, -Inf or (0/0) NaN, and            *)
(* math.Max(0, math.Min(1, x)) maps the infinities to 1 and 0 and keeps    *)
(* NaN; the I/O usages are 0 when their total is 0.                        *)
(***************************************************************************)
\* Euclid's algorithm, as a recursive function over pairs of naturals.
GcdF[p \in Nat \X Nat] == IF p[2] = 0 THEN p[1] ELSE GcdF[<<p[2], p[1] % p[2]>>]

\* The gcd is a positive common divisor of a and b unless both are 0; the
\* final test states it for the provers.
GcdOf(a, b) ==
    LET g == GcdF[<<a, b>>]
    IN  IF g \in Nat \ {0} /\ a % g = 0 /\ b % g = 0 THEN g ELSE 1

Reduced(x, t) == <<x \div GcdOf(x, t), t \div GcdOf(x, t)>>

Clamped(x, t) ==
    IF x <= 0 THEN <<0, 1>> ELSE IF x >= t THEN <<1, 1>> ELSE Reduced(x, t)

Usage(d, req, st) ==
    LET t == st[d].total
        x == t - st[d].free + req[d]
    IN  IF t > 0 THEN Clamped(x, t)
        ELSE IF d \in IoDims THEN <<0, 1>>
        ELSE IF x > 0 THEN <<1, 1>> ELSE IF x < 0 THEN <<0, 1>> ELSE <<0, 0>>

(* The largest and smallest of a finite set of integers: NormalizeScore's *)
(* scan for highest and lowest, and the final clamp to maxScore.          *)
Max(S) == CHOOSE x \in S : \A y \in S : x >= y
Min(S) == CHOOSE x \in S : \A y \in S : x <= y

(* The weights of scoreMultiResource, in thousandths.                      *)
Weight == [cpu |-> 400, mem |-> 300, diskRead |-> 75, diskWrite |-> 75,
           netUp |-> 75, netDown |-> 75]

(***************************************************************************)
(* resourceToScore, times 100: spread*(1-2a) + pack*2a below a = 0.5, and  *)
(* spread*(2-2a) + pack*(2a-1) from 0.5 on; with spread = 1-u and          *)
(* pack = u this is Blend0 + Blend1 * u.                                   *)
(***************************************************************************)
Blend0 == IF Alpha < 50 THEN 100 - 2 * Alpha ELSE 200 - 2 * Alpha
Blend1 == IF Alpha < 50 THEN 4 * Alpha - 100 ELSE 4 * Alpha - 300

LcmOf(a, b) == (a \div GcdOf(a, b)) * b

ScoreMultiResource(req, st) ==
    LET u == [d \in Dims |-> Usage(d, req, st)]
        l == LcmOf(LcmOf(LcmOf(u["cpu"][2], u["mem"][2]), LcmOf(u["diskRead"][2], u["diskWrite"][2])),
                   LcmOf(u["netUp"][2], u["netDown"][2]))
        w(d) == Weight[d] * u[d][1] * (l \div u[d][2])
        s == w("cpu") + w("mem") + w("diskRead") + w("diskWrite") + w("netUp") + w("netDown")
    IN  IF \E d \in Dims : u[d][2] = 0 THEN NaN
        ELSE Min({MaxScore, (1000 * Blend0 * l + Blend1 * s) \div (1000 * l)})

(***************************************************************************)
(* NormalizeScore over the scores of the scored nodes.  With highest       *)
(* starting at 0 and lowest at maxScore, a list that holds int(NaN*100)    *)
(* (-2^63 on amd64) has lowest = -2^63; every (s - lowest) * 100 then      *)
(* wraps to 100 * s, and highest - lowest wraps to highest - 2^63, so each *)
(* quotient truncates to 0: every node's normalized score is 0.            *)
(***************************************************************************)
(* Mutant: lowest starts at 0 instead of maxScore.                         *)
NormalizeScoreLowestZero(raw) ==
    LET vals == {raw[n] : n \in DOMAIN raw}
        highest == Max({0} \cup vals)
        lowest == Min({0} \cup vals)
    IN  IF NaN \in vals THEN [n \in DOMAIN raw |-> 0]
        ELSE IF highest = lowest THEN raw
        ELSE [n \in DOMAIN raw |-> ((raw[n] - lowest) * MaxScore) \div (highest - lowest)]

NormalizeScore(raw) ==
    LET vals == {raw[n] : n \in DOMAIN raw}
        highest == Max({0} \cup vals)
        lowest == Min({MaxScore} \cup vals)
    IN  IF NaN \in vals THEN [n \in DOMAIN raw |-> 0]
        ELSE IF highest = lowest THEN raw
        ELSE [n \in DOMAIN raw |-> ((raw[n] - lowest) * MaxScore) \div (highest - lowest)]

=============================================================================
