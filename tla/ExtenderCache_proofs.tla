------------------------- MODULE ExtenderCache_proofs -------------------------
(***************************************************************************)
(* Proofs about the extender's cache and handlers (ExtenderCache), for     *)
(* every value of the constants that satisfies ConstantsAssumption.        *)
(*                                                                         *)
(* What the updater writes is a NodeStats with natural free capacities,    *)
(* and what ExtractPodRequirements computes is a natural demand vector,    *)
(* whatever the Prometheus samples and the pod.  With these two facts the  *)
(* theorems of ExtenderScore_proofs apply to every Filter and Prioritize   *)
(* call on every cached entry: scores stay in 0..maxScore and a node       *)
(* Filter rejects scores 0.                                                *)
(***************************************************************************)
EXTENDS ExtenderCache, ExtenderScore_proofs

\* The floors estimateIORequirements may raise a demand to, in MiB/s.
FloorSet == {20, 25, 40, 50, 100}

-----------------------------------------------------------------------------
(* The demand vector.                                                      *)

\* max over a default or annotation and some floors is one of them.
LEMMA MaxOfFloors ==
    ASSUME NEW a \in Nat, NEW S \in SUBSET FloorSet
    PROVE  Max({a} \cup S) \in Nat
  <1>. DEFINE top == IF 100 \in S THEN 100 ELSE IF 50 \in S THEN 50
                     ELSE IF 40 \in S THEN 40 ELSE IF 25 \in S THEN 25 ELSE 20
              w == IF S = {} \/ a >= top THEN a ELSE top
  <1>1. w \in {a} \cup S /\ \A y \in {a} \cup S : w >= y
    BY DEF FloorSet
  <1>2. \E x \in {a} \cup S : \A y \in {a} \cup S : x >= y
    BY <1>1
  <1>3. Max({a} \cup S) \in {a} \cup S
    BY <1>2 DEF Max
  <1>4. {a} \cup S \subseteq Nat
    BY DEF FloorSet
  <1>. QED
    BY <1>3, <1>4

\* Each floor that names a dimension raises it to a value of FloorSet.
LEMMA FloorValues ==
    ASSUME NEW p \in Pods, NEW d \in IoDims
    PROVE  {f[d] : f \in {g \in Floors(p) : d \in DOMAIN g}} \subseteq FloorSet
  <1>1. \A k \in PodImages[p] : d \in DOMAIN ImageFloor[k] => ImageFloor[k][d] \in FloorSet
    <2>1. PodImages[p] \subseteq {"db", "web"}
      BY ConstantsAssumption
    <2>. QED
      BY <2>1 DEF ImageFloor, FloorSet, IoDims
  <1>2. d \in DOMAIN CpuFloor(PodCpu[p]) => CpuFloor(PodCpu[p])[d] \in FloorSet
    BY DEF CpuFloor, NoFloor, FloorSet, IoDims
  <1>3. d \in DOMAIN MemFloor(PodMem[p]) => MemFloor(PodMem[p])[d] \in FloorSet
    BY DEF MemFloor, NoFloor, FloorSet, IoDims
  <1>. QED
    BY <1>1, <1>2, <1>3 DEF Floors

\* ExtractPodRequirements gives a natural demand in every dimension.
LEMMA RequirementsTyped ==
    ASSUME NEW p \in Pods
    PROVE  ExtractPodRequirements(p) \in Demand
  <1>1. \A d \in IoDims : AnnoOr(p, d) \in Nat
    BY ConstantsAssumption DEF AnnoOr, IoDefaultDemand, IoDims
  <1>2. \A d \in IoDims : estimateIORequirements(p)[d] \in Nat
    <2> SUFFICES ASSUME NEW d \in IoDims PROVE estimateIORequirements(p)[d] \in Nat
      OBVIOUS
    <2>1. estimateIORequirements(p)[d]
            = Max({AnnoOr(p, d)} \cup {f[d] : f \in {g \in Floors(p) : d \in DOMAIN g}})
      BY DEF estimateIORequirements
    <2>. QED
      BY <1>1, <2>1, FloorValues, MaxOfFloors
  <1>3. PodCpu[p] \in Nat /\ PodMem[p] \in Nat
    BY ConstantsAssumption
  <1>. QED
    BY <1>2, <1>3 DEF ExtractPodRequirements, Demand, Dims, IoDims

-----------------------------------------------------------------------------
(* The NodeStats GetNodeStats can return.                                  *)

LEMMA CpuTyped ==
    ASSUME NEW h \in Hosts
    PROVE  CpuOutcomes(h) \subseteq [total : Int, free : Nat]
  <1>1. Lookup(h) \subseteq Hosts
    BY ConstantsAssumption DEF Lookup
  <1>2. \A m \in Hosts : CpuUsed[m] \in Nat
    BY ConstantsAssumption
  <1>. QED
    BY <1>1, <1>2 DEF CpuOutcomes, Failed, Stat, Pos

LEMMA MemTyped ==
    ASSUME NEW h \in Hosts
    PROVE  MemOutcomes(h) \subseteq [total : Int, free : Nat]
  <1>1. Lookup(h) \subseteq Hosts
    BY ConstantsAssumption DEF Lookup
  <1>2. \A m \in Hosts : MemTotalOf[m] \in Nat /\ MemAvail[m] \in Nat
    BY ConstantsAssumption
  <1>. QED
    BY <1>1, <1>2 DEF MemOutcomes, Failed, Stat

LEMMA IoTyped ==
    ASSUME NEW h \in Hosts, NEW d \in IoDims
    PROVE  IoOutcomes(h, d) \subseteq [total : Int, free : Nat]
  <1>1. IoSum(h, d) \in Nat
    BY DEF IoSum
  <1>2. IoRates(h, d) \subseteq Nat
    BY <1>1, ConstantsAssumption DEF IoRates
  <1>3. IoDefault[d] \in [total : Int, free : Nat] /\ IoHeadroom[d] \in Nat
    BY DEF IoDefault, IoHeadroom, Stat, IoDims
  <1>. QED
    BY <1>2, <1>3 DEF IoOutcomes, Failed, Stat, Pos

\* Every NodeStats the updater may write has natural free capacities.
LEMMA StatsTyped ==
    ASSUME NEW h \in Hosts
    PROVE  GetNodeStats(h) \subseteq StatsT
  <1>1. /\ CpuOutcomes(h) \subseteq [total : Int, free : Nat]
        /\ MemOutcomes(h) \subseteq [total : Int, free : Nat]
        /\ \A d \in IoDims : IoOutcomes(h, d) \subseteq [total : Int, free : Nat]
    BY CpuTyped, MemTyped, IoTyped
  <1>. QED
    BY <1>1 DEF GetNodeStats, StatsT, Dims, IoDims

-----------------------------------------------------------------------------
(* Type correctness.                                                       *)

\* A cached entry is one of the NodeStats of some host.
CachedStats == UNION {GetNodeStats(h) : h \in Hosts}

LEMMA CachedTyped ==
    ASSUME NEW st \in CachedStats
    PROVE  st \in StatsT
  BY StatsTyped DEF CachedStats

\* TypeOK split in two: the cache, stated over CachedStats, and the rest.
CacheTyped == cache \in [Keys -> CachedStats \cup {NoEntry}]
TypeRest ==
    /\ upc \in {"idle", "sweep"} /\ pending \subseteq Hosts
    /\ rpc \in [Requests -> {"idle", "filter", "prioritize"}]
    /\ rpod \in [Requests -> Pods]
    /\ rleft \in [Requests -> SUBSET Nodes]
    /\ filtered \in [Requests -> SUBSET Nodes]
    /\ reason \in [Requests -> [Nodes -> Reasons]]
    /\ score \in [Requests -> [Nodes -> 0..MaxScore]]

LEMMA TypeSplit == TypeOK <=> CacheTyped /\ TypeRest
  BY Zenon DEF TypeOK, CacheTyped, TypeRest, CachedStats

\* What a cached entry is worth to a handler.
LEMMA CachedEntry ==
    ASSUME CacheTyped, NEW n \in Nodes, cache[n] # NoEntry
    PROVE  cache[n] \in StatsT
  <1>1. cache[n] \in CachedStats
    BY DEF CacheTyped, Keys
  <1>. QED
    BY <1>1, CachedTyped

LEMMA TypeInit == Init => TypeOK
  <1>. SUFFICES ASSUME Init PROVE CacheTyped /\ TypeRest
    BY TypeSplit
  <1>1. (CHOOSE p \in Pods : TRUE) \in Pods
    BY ConstantsAssumption
  <1>2. MaxScore \in Nat
    BY MaxScoreAssumption
  <1>. QED
    BY <1>1, <1>2 DEF Init, CacheTyped, TypeRest, Reasons

LEMMA TypeStep == TypeOK /\ [Next]_vars => TypeOK'
  <1> SUFFICES ASSUME CacheTyped, TypeRest, [Next]_vars PROVE CacheTyped' /\ TypeRest'
    <2>1. TypeOK' <=> CacheTyped' /\ TypeRest'
      BY Zenon DEF TypeOK, CacheTyped, TypeRest, CachedStats
    <2>. QED
      BY <2>1, TypeSplit
  <1>0. MaxScore \in Nat
    BY MaxScoreAssumption
  <1>1. CASE UpdateAllNodeStats
    BY <1>1 DEF UpdateAllNodeStats, CacheTyped, TypeRest, hreq
  <1>2. ASSUME NEW h \in Hosts, UpdateNode(h) PROVE CacheTyped' /\ TypeRest'
    <2>1. PICK st \in GetNodeStats(h) : cache' = [cache EXCEPT ![h] = st]
      BY <1>2 DEF UpdateNode
    <2>2. st \in CachedStats /\ h \in Keys
      BY DEF CachedStats, Keys
    <2>. QED
      BY <1>2, <2>1, <2>2 DEF UpdateNode, CacheTyped, TypeRest, hreq
  <1>3. ASSUME NEW r \in Requests, NEW p \in Pods, NEW kind \in {"filter", "prioritize"},
               Arrive(r, p, kind)
        PROVE  CacheTyped' /\ TypeRest'
    BY <1>3, <1>0 DEF Arrive, CacheTyped, TypeRest, Reasons, upd
  <1>4. ASSUME NEW r \in Requests, NEW n \in Nodes, FilterNode(r, n)
        PROVE  CacheTyped' /\ TypeRest'
    <2>0. /\ rleft' = [rleft EXCEPT ![r] = @ \ {n}]
          /\ UNCHANGED <<cache, upd, rpc, rpod, score>>
      BY <1>4 DEF FilterNode
    <2>1. /\ rleft' \in [Requests -> SUBSET Nodes]
          /\ CacheTyped' /\ upc' \in {"idle", "sweep"} /\ pending' \subseteq Hosts
          /\ rpc' \in [Requests -> {"idle", "filter", "prioritize"}]
          /\ rpod' \in [Requests -> Pods]
          /\ score' \in [Requests -> [Nodes -> 0..MaxScore]]
      BY <2>0 DEF CacheTyped, TypeRest, upd
    <2>2. /\ filtered' \in [Requests -> SUBSET Nodes]
          /\ reason' \in [Requests -> [Nodes -> Reasons]]
      <3>1. CASE cache[n] = NoEntry
        <4>1. reason' = [reason EXCEPT ![r][n] = "nostats"] /\ filtered' = filtered
          BY <1>4, <3>1 DEF FilterNode
        <4>. QED
          BY <4>1 DEF TypeRest, Reasons
      <3>2. CASE cache[n] # NoEntry /\ CanScheduleMulti(ExtractPodRequirements(rpod[r]), cache[n])
        <4>1. filtered' = [filtered EXCEPT ![r] = @ \cup {n}] /\ reason' = reason
          BY <1>4, <3>2 DEF FilterNode
        <4>. QED
          BY <4>1 DEF TypeRest
      <3>3. CASE cache[n] # NoEntry /\ ~CanScheduleMulti(ExtractPodRequirements(rpod[r]), cache[n])
        <4>1. reason' = [reason EXCEPT ![r][n] = "insufficient"] /\ filtered' = filtered
          BY <1>4, <3>3 DEF FilterNode
        <4>. QED
          BY <4>1 DEF TypeRest, Reasons
      <3>. QED
        BY <3>1, <3>2, <3>3
    <2>. QED
      BY <2>1, <2>2 DEF TypeRest
  <1>5. ASSUME NEW r \in Requests, NEW n \in Nodes, PrioritizeNode(r, n)
        PROVE  CacheTyped' /\ TypeRest'
    <2>1. cache[n] # NoEntry =>
            ScoreMultiResource(ExtractPodRequirements(rpod[r]), cache[n]) \in 0..MaxScore
      <3>1. rpod[r] \in Pods
        BY DEF TypeRest
      <3>. QED
        BY <3>1, CachedEntry, RequirementsTyped, ScoreBounded
    <2>2. score'[r][n] \in 0..MaxScore
      BY <1>5, <2>1, <1>0 DEF PrioritizeNode, TypeRest
    <2>. QED
      BY <1>5, <2>2 DEF PrioritizeNode, CacheTyped, TypeRest, upd
  <1>6. ASSUME NEW r \in Requests, Respond(r) PROVE CacheTyped' /\ TypeRest'
    BY <1>6 DEF Respond, CacheTyped, TypeRest, upd
  <1>7. CASE UNCHANGED vars
    BY <1>7 DEF vars, upd, hreq, CacheTyped, TypeRest
  <1>. QED
    BY <1>1, <1>2, <1>3, <1>4, <1>5, <1>6, <1>7 DEF Next, Updater, Handlers

\* The cache, the updater and every request keep their types; in particular
\* every score Prioritize returns lies in 0..maxScore (TypeOK).
THEOREM TypeCorrect == Spec => []TypeOK
  BY TypeInit, TypeStep, PTL DEF Spec

-----------------------------------------------------------------------------
(* Filter and Prioritize agree.                                            *)

\* A node that Filter rejects as "insufficient resources" gets score 0 from
\* Prioritize on the same cached stats, for every pod (RejectedScoresZero).
THEOREM RejectedZero == Spec => []RejectedScoresZero
  <1>1. TypeOK => RejectedScoresZero
    <2> SUFFICES ASSUME TypeOK, NEW p \in Pods, NEW k \in Keys,
                        cache[k] # NoEntry,
                        ~CanScheduleMulti(ExtractPodRequirements(p), cache[k])
                 PROVE  ScoreMultiResource(ExtractPodRequirements(p), cache[k]) = 0
      BY DEF RejectedScoresZero
    <2>1. cache[k] \in CachedStats
      BY TypeSplit DEF CacheTyped
    <2>2. cache[k] \in StatsT
      BY <2>1, CachedTyped
    <2>. QED
      BY <2>2, RequirementsTyped, RejectedScoreZero
  <1>. QED
    BY <1>1, TypeCorrect, PTL

====
