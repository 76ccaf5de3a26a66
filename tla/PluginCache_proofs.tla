-------------------------- MODULE PluginCache_proofs --------------------------
(***************************************************************************)
(* Proofs about the MultiResource plugin (PluginCore, PluginCache) for     *)
(* every value of the constants that satisfies ConstantsAssumption and     *)
(* NaNAssumption.                                                          *)
(*                                                                         *)
(* scoreMultiResource returns a score in [0, maxScore] or NaN whatever the *)
(* node's stats and the pod, and NormalizeScore, run on the scores of a    *)
(* cycle, rescales them linearly onto [0, maxScore].  The least and the    *)
(* largest element of a set of naturals exist by the well-foundedness of  *)
(* < on Nat (WFMin), so no induction over sets is needed.                  *)
(***************************************************************************)
EXTENDS PluginCache, WellFoundedInduction, TLAPS

-----------------------------------------------------------------------------
(* Least and largest elements.                                             *)

LEMMA NatMinExists ==
    ASSUME NEW T \in SUBSET Nat, T # {}
    PROVE  \E x \in T : \A y \in T : x <= y
  <1>1. \E x \in T : \A y \in T : ~(<<y, x>> \in OpToRel(<, Nat))
    BY WFMin, NatLessThanWellFounded
  <1>2. ASSUME NEW x \in Nat, NEW y \in Nat, ~(<<y, x>> \in OpToRel(<, Nat))
        PROVE  x <= y
    <2>1. y < x => <<y, x>> \in OpToRel(<, Nat)
      BY DEF OpToRel
    <2>2. ~(y < x)
      BY <1>2, <2>1, Zenon
    <2>. QED
      BY <2>2
  <1>. QED
    BY <1>1, <1>2

\* Min of a nonempty set of naturals is in it and below all of it.
LEMMA MinProps ==
    ASSUME NEW S \in SUBSET Nat, S # {}
    PROVE  Min(S) \in S /\ \A y \in S : Min(S) <= y
  BY NatMinExists DEF Min

\* Max of a nonempty set of naturals bounded by N is in it and above all of it.
LEMMA MaxProps ==
    ASSUME NEW N \in Nat, NEW S \in SUBSET (0..N), S # {}
    PROVE  Max(S) \in S /\ \A y \in S : y <= Max(S)
  <1>. DEFINE T == {N - v : v \in S}
  <1>1. T \in SUBSET Nat /\ T # {}
    <2>1. \A v \in S : N - v \in Nat
      OBVIOUS
    <2>. QED
      BY <2>1
  <1>2. PICK x \in T : \A y \in T : x <= y
    BY <1>1, NatMinExists
  <1>3. PICK v \in S : x = N - v
    BY <1>2
  <1>4. \A y \in S : y <= v
    BY <1>2, <1>3
  <1>. QED
    BY <1>3, <1>4 DEF Max

-----------------------------------------------------------------------------
(* The fractions of scoreMultiResource.                                    *)

\* The guarded gcd is a positive common divisor.
LEMMA GcdProps ==
    ASSUME NEW a \in Nat, NEW b \in Nat
    PROVE  /\ GcdOf(a, b) \in Nat \ {0}
           /\ a % GcdOf(a, b) = 0 /\ b % GcdOf(a, b) = 0
  BY DEF GcdOf

\* A usage is a fraction num/den in [0, 1], or NaN (den = 0).
Frac == {f \in Nat \X Nat : f[1] <= f[2] /\ (f[2] = 0 => f[1] = 0)}

LEMMA ReducedFrac ==
    ASSUME NEW x \in Nat, NEW t \in Nat, 0 < x, x < t
    PROVE  Reduced(x, t) \in Frac /\ Reduced(x, t)[2] # 0
  <1>. DEFINE g == GcdOf(x, t)
  <1>1. g \in Nat \ {0} /\ t % g = 0
    BY GcdProps
  <1>2. t = g * (t \div g)
    BY <1>1
  <1>3. t \div g \in Nat \ {0}
    BY <1>1, <1>2
  <1>4. x \div g \in Nat /\ x \div g <= t \div g
    BY <1>1
  <1>. QED
    BY <1>3, <1>4 DEF Reduced, Frac

LEMMA UsageFrac ==
    ASSUME NEW d \in Dims, NEW req \in [Dims -> Nat], NEW st \in StatsType
    PROVE  Usage(d, req, st) \in Frac
  <1>. DEFINE t == st[d].total
              x == t - st[d].free + req[d]
  <1>1. t \in Nat /\ x \in Int
    BY DEF StatsType
  <1>2. CASE t > 0
    <2>1. Usage(d, req, st) = Clamped(x, t)
      BY <1>2 DEF Usage
    <2>2. CASE x <= 0 \/ x >= t
      BY <1>1, <2>1, <2>2 DEF Clamped, Frac
    <2>3. CASE 0 < x /\ x < t
      BY <1>1, <2>1, <2>3, ReducedFrac DEF Clamped
    <2>. QED
      BY <2>2, <2>3, <1>1
  <1>3. CASE ~(t > 0)
    BY <1>1, <1>3 DEF Usage, Frac
  <1>. QED
    BY <1>2, <1>3

LEMMA LcmPos ==
    ASSUME NEW a \in Nat \ {0}, NEW b \in Nat \ {0}
    PROVE  LcmOf(a, b) \in Nat \ {0}
  <1>. DEFINE g == GcdOf(a, b)
  <1>1. g \in Nat \ {0} /\ a % g = 0
    BY GcdProps
  <1>2. a = g * (a \div g)
    BY <1>1
  <1>3. a \div g \in Nat \ {0}
    BY <1>1, <1>2
  <1>. QED
    BY <1>3 DEF LcmOf


\* One weighted term of the score: a usage num/den scaled to the common l.
LEMMA TermBound ==
    ASSUME NEW n \in Nat, NEW dd \in Nat \ {0}, n <= dd, NEW l \in Nat \ {0}
    PROVE  n * (l \div dd) \in 0..l
  <1>. DEFINE m == l \div dd
  <1>1. m \in Nat /\ dd * m <= l
    OBVIOUS
  <1>2. n * m <= dd * m /\ n * m \in Nat
    BY <1>1
  <1>. QED
    BY <1>1, <1>2

\* A weighted term stays within its weight's share of the common l.
LEMMA ScaledTerm ==
    ASSUME NEW c \in Nat, NEW a \in Nat, NEW m \in Nat, NEW l \in Nat, a * m \in 0..l
    PROVE  c * a * m \in 0..(c * l)
  <1>1. c * a * m = c * (a * m)
    OBVIOUS
  <1>. QED
    BY <1>1

LEMMA BlendTyped == Blend0 \in Nat /\ Blend1 \in Int
  <1>1. Alpha \in 0..100
    BY ConstantsAssumption
  <1>. QED
    BY <1>1 DEF Blend0, Blend1

\* The blend is non-negative on every weighted usage in [0, 1].
LEMMA BlendNonNeg ==
    ASSUME NEW l \in Nat \ {0}, NEW s \in 0..(1000 * l)
    PROVE  1000 * Blend0 * l + Blend1 * s >= 0
  <1>1. Alpha \in 0..100
    BY ConstantsAssumption
  <1>2. Blend0 \in Nat /\ Blend1 \in Int /\ Blend0 + Blend1 >= 0
    BY <1>1 DEF Blend0, Blend1
  <1>3. CASE Blend1 >= 0
    BY <1>2, <1>3
  <1>4. CASE Blend1 < 0
    <2>1. Blend1 * s >= Blend1 * (1000 * l)
      BY <1>2, <1>4
    <2>2. 1000 * Blend0 * l + Blend1 * (1000 * l) = 1000 * l * (Blend0 + Blend1)
      BY <1>2
    <2>3. 1000 * l * (Blend0 + Blend1) >= 0
      BY <1>2
    <2>. QED
      BY <2>1, <2>2, <2>3, <1>2
  <1>. QED
    BY <1>3, <1>4, <1>2

\* The parts of scoreMultiResource, named so that each stays opaque until
\* a step needs it: the usage vector, the common denominator, one weighted
\* usage, their sum and the truncated blend.
UsageVec(req, st) == [d \in Dims |-> Usage(d, req, st)]
CommonDen(u) ==
    LcmOf(LcmOf(LcmOf(u["cpu"][2], u["mem"][2]), LcmOf(u["diskRead"][2], u["diskWrite"][2])),
          LcmOf(u["netUp"][2], u["netDown"][2]))
Term(u, l, d) == Weight[d] * u[d][1] * (l \div u[d][2])
WeightedSum(u, l) ==
    Term(u, l, "cpu") + Term(u, l, "mem") + Term(u, l, "diskRead")
    + Term(u, l, "diskWrite") + Term(u, l, "netUp") + Term(u, l, "netDown")
Blended(u, l) == (1000 * Blend0 * l + Blend1 * WeightedSum(u, l)) \div (1000 * l)

LEMMA ScoreUnfold ==
    ASSUME NEW req, NEW st
    PROVE  ScoreMultiResource(req, st) =
             LET u == UsageVec(req, st) IN
             IF \E d \in Dims : u[d][2] = 0 THEN NaN
             ELSE Min({MaxScore, Blended(u, CommonDen(u))})
  BY DEF ScoreMultiResource, UsageVec, CommonDen, Term, WeightedSum, Blended

\* scoreMultiResource returns a score in [0, maxScore], or NaN when a
\* usage is 0/0 (a zero CPU or memory total under a zero demand).
LEMMA ScoreRange ==
    ASSUME NEW req \in [Dims -> Nat], NEW st \in StatsType
    PROVE  ScoreMultiResource(req, st) \in (0..MaxScore) \cup {NaN}
  <1>. DEFINE u == UsageVec(req, st)
              l == CommonDen(u)
              s == WeightedSum(u, l)
              q == Blended(u, l)
  <1>1. \A d \in Dims : u[d] \in Frac
    BY UsageFrac DEF UsageVec
  <1>2. CASE \E d \in Dims : u[d][2] = 0
    BY <1>2, ScoreUnfold
  <1>3. CASE \A d \in Dims : u[d][2] # 0
    <2>1. \A d \in Dims : u[d][2] \in Nat \ {0} /\ u[d][1] \in Nat /\ u[d][1] <= u[d][2]
      BY <1>1, <1>3 DEF Frac
    <2>2. l \in Nat \ {0}
      <3>1. LcmOf(u["cpu"][2], u["mem"][2]) \in Nat \ {0}
        BY <2>1, LcmPos DEF Dims
      <3>2. LcmOf(u["diskRead"][2], u["diskWrite"][2]) \in Nat \ {0}
        BY <2>1, LcmPos DEF Dims, IoDims
      <3>3. LcmOf(u["netUp"][2], u["netDown"][2]) \in Nat \ {0}
        BY <2>1, LcmPos DEF Dims, IoDims
      <3>4. LcmOf(LcmOf(u["cpu"][2], u["mem"][2]),
                  LcmOf(u["diskRead"][2], u["diskWrite"][2])) \in Nat \ {0}
        BY <3>1, <3>2, LcmPos
      <3>. QED
        BY <3>3, <3>4, LcmPos DEF CommonDen
    <2>3. \A d \in Dims : u[d][1] * (l \div u[d][2]) \in 0..l
      BY <2>1, <2>2, TermBound
    <2>4. \A d \in Dims : Term(u, l, d) \in 0..(Weight[d] * l)
      <3> SUFFICES ASSUME NEW d \in Dims PROVE Term(u, l, d) \in 0..(Weight[d] * l)
        OBVIOUS
      <3>1. Weight[d] \in Nat /\ u[d][1] \in Nat /\ l \div u[d][2] \in Nat
        BY <2>1, <2>2 DEF Weight, Dims, IoDims
      <3>. QED
        BY <2>2, <2>3, <3>1, ScaledTerm DEF Term
    <2>5. s \in 0..(1000 * l)
      <3>1. /\ Term(u, l, "cpu") \in 0..(400 * l) /\ Term(u, l, "mem") \in 0..(300 * l)
            /\ Term(u, l, "diskRead") \in 0..(75 * l) /\ Term(u, l, "diskWrite") \in 0..(75 * l)
            /\ Term(u, l, "netUp") \in 0..(75 * l) /\ Term(u, l, "netDown") \in 0..(75 * l)
        BY <2>4 DEF Weight, Dims, IoDims
      <3>. QED
        BY <3>1, <2>2 DEF WeightedSum
    <2>6. q \in Nat
      <3>1. 1000 * Blend0 * l + Blend1 * s \in Nat
        BY <2>2, <2>5, BlendNonNeg, BlendTyped
      <3>. QED
        BY <3>1, <2>2 DEF Blended
    <2>7. Min({MaxScore, q}) \in 0..MaxScore
      <3>1. {MaxScore, q} \in SUBSET Nat /\ {MaxScore, q} # {}
        BY <2>6 DEF MaxScore
      <3>2. Min({MaxScore, q}) \in {MaxScore, q} /\ Min({MaxScore, q}) <= MaxScore
        BY <3>1, MinProps
      <3>. QED
        BY <3>2, <2>6 DEF MaxScore
    <2>. QED
      BY <1>3, <2>7, ScoreUnfold
  <1>. QED
    BY <1>2, <1>3


-----------------------------------------------------------------------------
(* What getNodeStats and extractPodRequirements return.                    *)

NatStat == [total : Nat, free : Nat]

LEMMA CpuTyped ==
    ASSUME NEW n \in Nodes
    PROVE  CpuOutcomes(n) \subseteq NatStat
  <1>1. Cores[n] \in Nat /\ CpuBusy[n] \in 0..100
    BY ConstantsAssumption
  <1>2. CpuTotalOutcomes(n) \subseteq Nat
    BY <1>1 DEF CpuTotalOutcomes, Failed
  <1>3. \A t \in Nat : CpuFreeOutcomes(n, t) \subseteq Nat
    BY <1>1 DEF CpuFreeOutcomes, Failed
  <1>. QED
    BY <1>2, <1>3 DEF CpuOutcomes, Stat, NatStat

LEMMA MemTyped ==
    ASSUME NEW n \in Nodes
    PROVE  MemOutcomes(n) \subseteq NatStat
  <1>1. MemTotalOf[n] \in Nat /\ MemAvail[n] \in Nat
    BY ConstantsAssumption
  <1>2. MemTotalOutcomes(n) \subseteq Nat
    BY <1>1 DEF MemTotalOutcomes, Failed
  <1>3. \A t \in Nat : MemFreeOutcomes(n, t) \subseteq Nat
    BY <1>1 DEF MemFreeOutcomes, Failed
  <1>. QED
    BY <1>2, <1>3 DEF MemOutcomes, Stat, NatStat

LEMMA IoTyped ==
    ASSUME NEW n \in Nodes, NEW d \in IoDims
    PROVE  IoOutcomes(n, d) \subseteq NatStat
  <1>1. IoRate[n][d] \in Nat
    BY ConstantsAssumption
  <1>2. IoDefault[d] \in Nat
    BY DEF IoDefault, IoDims
  <1>. QED
    BY <1>1, <1>2 DEF IoOutcomes, Failed, Stat, NatStat

\* Every NodeStats getNodeStats returns has natural totals and frees.
LEMMA StatsTyped ==
    ASSUME NEW n \in Nodes
    PROVE  GetNodeStats(n) \subseteq StatsType
  <1>1. /\ CpuOutcomes(n) \subseteq NatStat /\ MemOutcomes(n) \subseteq NatStat
        /\ \A d \in IoDims : IoOutcomes(n, d) \subseteq NatStat
    BY CpuTyped, MemTyped, IoTyped
  <1>. QED
    BY <1>1 DEF GetNodeStats, StatsType, NatStat, Dims, IoDims

\* extractPodRequirements gives a natural demand in every dimension.
LEMMA RequirementsTyped ==
    ASSUME NEW p \in Pods
    PROVE  ExtractPodRequirements(p) \in [Dims -> Nat]
  <1>1. PodCpu[p] \in Nat /\ PodMem[p] \in Nat /\ PodAnno[p] \in [IoDims -> Nat \cup {NoAnno}]
    BY ConstantsAssumption
  <1>2. \A d \in IoDims, k \in Nat : AnnoOr(p, d, k) \in Nat
    BY <1>1 DEF AnnoOr
  <1>. QED
    BY <1>1, <1>2 DEF ExtractPodRequirements, Dims, IoDims


-----------------------------------------------------------------------------
(* NormalizeScore.                                                         *)

\* The parts of NormalizeScore: the scores, highest and lowest.
NVals(f) == {f[n] : n \in DOMAIN f}
NHigh(f) == Max({0} \cup NVals(f))
NLow(f) == Min({MaxScore} \cup NVals(f))
Rescaled(f) ==
    [n \in DOMAIN f |-> ((f[n] - NLow(f)) * MaxScore) \div (NHigh(f) - NLow(f))]

LEMMA NormUnfold ==
    ASSUME NEW f
    PROVE  NormalizeScore(f) =
             IF NaN \in NVals(f) THEN [n \in DOMAIN f |-> 0]
             ELSE IF NHigh(f) = NLow(f) THEN f ELSE Rescaled(f)
  BY DEF NormalizeScore, NVals, NHigh, NLow, Rescaled

\* On scores in [0, maxScore], highest and lowest bound every score and are
\* in [0, maxScore].
LEMMA HighLow ==
    ASSUME NEW D, NEW f \in [D -> 0..MaxScore]
    PROVE  /\ NaN \notin NVals(f)
           /\ NHigh(f) \in ({0} \cup NVals(f)) /\ NLow(f) \in ({MaxScore} \cup NVals(f))
           /\ \A n \in D : NLow(f) <= f[n] /\ f[n] <= NHigh(f)
           /\ NHigh(f) \in 0..MaxScore /\ NLow(f) \in 0..MaxScore
  <1>1. NVals(f) \subseteq 0..MaxScore /\ NaN \notin NVals(f)
    BY NaNAssumption DEF NVals
  <1>2. NHigh(f) \in ({0} \cup NVals(f)) /\ \A y \in {0} \cup NVals(f) : y <= NHigh(f)
    <2>1. {0} \cup NVals(f) \in SUBSET (0..MaxScore) /\ MaxScore \in Nat
      BY <1>1 DEF MaxScore
    <2>. QED
      BY <2>1, MaxProps DEF NHigh
  <1>3. NLow(f) \in ({MaxScore} \cup NVals(f)) /\ \A y \in {MaxScore} \cup NVals(f) : NLow(f) <= y
    <2>1. {MaxScore} \cup NVals(f) \in SUBSET Nat
      BY <1>1 DEF MaxScore
    <2>. QED
      BY <2>1, MinProps DEF NLow
  <1>4. \A n \in D : f[n] \in NVals(f)
    BY DEF NVals
  <1>. QED
    BY <1>1, <1>2, <1>3, <1>4 DEF MaxScore

\* NormalizeScore of scores (possibly NaN) is a function to the integers.
LEMMA NormTyped ==
    ASSUME NEW D, NEW f \in [D -> (0..MaxScore) \cup {NaN}]
    PROVE  NormalizeScore(f) \in [D -> Int]
  <1>1. CASE NaN \in NVals(f)
    BY <1>1, NormUnfold
  <1>2. CASE NaN \notin NVals(f)
    <2>1. f \in [D -> 0..MaxScore]
      BY <1>2 DEF NVals
    <2>2. NHigh(f) \in 0..MaxScore /\ NLow(f) \in 0..MaxScore
      BY <2>1, HighLow
    <2>3. ASSUME NHigh(f) # NLow(f) PROVE Rescaled(f) \in [D -> Int]
      <3>1. \A n \in D : f[n] \in 0..100
        BY <2>1 DEF MaxScore
      <3>2. NHigh(f) # NLow(f)
        BY <2>3
      <3>3. \A n \in D : NLow(f) <= f[n] /\ f[n] <= NHigh(f)
        BY <2>1, HighLow
      <3>4. ASSUME NEW n \in D
            PROVE  ((f[n] - NLow(f)) * MaxScore) \div (NHigh(f) - NLow(f)) \in Int
        <4>a. NLow(f) <= f[n] /\ f[n] <= NHigh(f)
          BY <3>3
        <4>b. NHigh(f) \in 0..100 /\ NLow(f) \in 0..100 /\ f[n] \in 0..100
          BY <2>2, <3>1 DEF MaxScore
        <4>c. NHigh(f) - NLow(f) > 0
          BY <4>a, <4>b, <3>2
        <4>1. NHigh(f) - NLow(f) \in Nat \ {0} /\ f[n] - NLow(f) \in Int
          BY <4>b, <4>c
        <4>. QED
          BY <4>1 DEF MaxScore
      <3>. QED
        BY <2>1, <3>4 DEF Rescaled
    <2>. QED
      BY <1>2, <2>1, <2>3, NormUnfold
  <1>. QED
    BY <1>1, <1>2

\* Floor division by a K in 1..100 keeps a gap of 100 strict.
LEMMA DivGap ==
    ASSUME NEW X \in Int, NEW Y \in Int, NEW K \in 1..100, Y >= X + 100
    PROVE  X \div K < Y \div K
  <1>1. Y >= X + K
    OBVIOUS
  <1>2. (X + K) \div K = X \div K + 1
    OBVIOUS
  <1>3. Y \div K >= (X + K) \div K
    BY <1>1
  <1>. QED
    BY <1>2, <1>3

\* NormalizeScore on scores in [0, maxScore] keeps their strict order and,
\* when they differ, sends the lowest to 0 and the highest to maxScore.
LEMMA NormRescale ==
    ASSUME NEW D, NEW f \in [D -> 0..MaxScore]
    PROVE  LET g == NormalizeScore(f) IN
           /\ \A a, b \in D : f[a] < f[b] => g[a] < g[b]
           /\ (\E a, b \in D : f[a] # f[b]) =>
                  /\ \E a \in D : g[a] = 0
                  /\ \E b \in D : g[b] = MaxScore
  <1>. DEFINE hi == NHigh(f)  lo == NLow(f)
  <1>1. /\ NaN \notin NVals(f)
        /\ hi \in ({0} \cup NVals(f)) /\ lo \in ({MaxScore} \cup NVals(f))
        /\ \A n \in D : lo <= f[n] /\ f[n] <= hi
        /\ hi \in 0..MaxScore /\ lo \in 0..MaxScore
    BY HighLow
  <1>2. CASE hi = lo
    <2>1. \A a, b \in D : f[a] = f[b]
      BY <1>1, <1>2
    <2>. QED
      BY <2>1
  <1>3. CASE hi # lo
    <2>1. NormalizeScore(f) = Rescaled(f)
      BY <1>1, <1>3, NormUnfold
    <2>2. ASSUME NEW a \in D, NEW b \in D, f[a] < f[b] PROVE Rescaled(f)[a] < Rescaled(f)[b]
      <3>1. hi - lo \in 1..100
        BY <1>1, <1>3, <2>2 DEF MaxScore
      <3>0. f[a] \in 0..100 /\ f[b] \in 0..100 /\ lo \in 0..100
        BY <1>1 DEF MaxScore
      <3>2. (f[b] - lo) * 100 >= (f[a] - lo) * 100 + 100
        BY <3>0, <2>2
      <3>3. ((f[a] - lo) * 100) \div (hi - lo) < ((f[b] - lo) * 100) \div (hi - lo)
        <4>1. (f[a] - lo) * 100 \in Int /\ (f[b] - lo) * 100 \in Int
          BY <3>0
        <4>. QED
          BY <3>1, <3>2, <4>1, DivGap
      <3>. QED
        BY <3>3 DEF Rescaled, MaxScore, NHigh, NLow
    <2>3. ASSUME NEW a \in D, NEW b \in D, f[a] # f[b]
          PROVE  /\ \E x \in D : Rescaled(f)[x] = 0
                 /\ \E y \in D : Rescaled(f)[y] = MaxScore
      <3>1. hi - lo \in 1..100
        BY <1>1, <1>3, <2>3 DEF MaxScore
      <3>2. lo \in NVals(f) /\ hi \in NVals(f)
        BY <1>1, <2>3 DEF MaxScore
      <3>3. PICK x \in D : f[x] = lo
        BY <3>2 DEF NVals
      <3>4. PICK y \in D : f[y] = hi
        BY <3>2 DEF NVals
      <3>5. Rescaled(f)[x] = 0
        BY <3>1, <3>3, <1>1 DEF Rescaled, MaxScore, NHigh, NLow
      <3>6. Rescaled(f)[y] = MaxScore
        <4>1. ((hi - lo) * 100) \div (hi - lo) = 100
          BY <3>1
        <4>. QED
          BY <4>1, <3>4 DEF Rescaled, MaxScore, NHigh, NLow
      <3>. QED
        BY <3>5, <3>6
    <2>. QED
      BY <2>1, <2>2, <2>3
  <1>. QED
    BY <1>2, <1>3


-----------------------------------------------------------------------------
(***************************************************************************)
(* The inductive invariant.  TypeOK alone is not inductive: Score's result *)
(* is in range only for stats Decide actually holds (DecideHasStats), and  *)
(* NormalizeScore is typed only if every feasible node was scored by the   *)
(* time the Score goroutines are all done (ScoreDone).  The scores stored  *)
(* by NormalizeScore stay those of the cycle's raw scores (NormEq) because *)
(* they are cleared when a cycle starts (CycleNorm) and no goroutine runs  *)
(* between cycles (IdleDone).                                              *)
(***************************************************************************)
DecideHasStats == \A n \in Nodes : tpc[n] \in {"lock", "decide"} => tstats[n] # NoEntry
ScoreDone == phase = "score" => \A n \in feasible : tpc[n] = "done" => raw[n] # None
CycleNorm == phase # "idle" => norm = None
IdleDone == phase = "idle" => AllDone
NormEq == norm # None => norm = NormalizeScore([n \in feasible |-> raw[n]])

IInv == TypeOK /\ DecideHasStats /\ ScoreDone /\ CycleNorm /\ IdleDone /\ NormEq


LEMMA InitIInv == Init => IInv
  BY DEF Init, IInv, TypeOK, DecideHasStats, ScoreDone, CycleNorm, IdleDone, NormEq,
     AllDone, Threads

\* A goroutine step of node n's Filter or Score moves tpc[n] and tstats[n]
\* only, and holds stats whenever it moves to "lock" or "decide".
LEMMA ThreadCyc ==
    ASSUME TypeOK, DecideHasStats, ScoreDone, CycleNorm, IdleDone, NormEq,
           NEW n \in Nodes, tpc[n] # "done",
           NEW s \in {"rlock", "runlock", "fetch", "lock", "decide"}, NEW ts,
           s \in {"lock", "decide"} => ts # NoEntry,
           tpc' = [tpc EXCEPT ![n] = s], tstats' = [tstats EXCEPT ![n] = ts],
           UNCHANGED <<phase, pod, feasible, raw, norm>>
    PROVE  DecideHasStats' /\ ScoreDone' /\ CycleNorm' /\ IdleDone' /\ NormEq'
  <1>1. phase # "idle"
    BY DEF IdleDone, AllDone
  <1>2. DecideHasStats'
    BY DEF DecideHasStats, TypeOK
  <1>3. ScoreDone'
    BY DEF ScoreDone, TypeOK
  <1>4. CycleNorm' /\ IdleDone'
    BY <1>1 DEF CycleNorm, IdleDone
  <1>5. NormEq'
    BY DEF NormEq
  <1>. QED
    BY <1>2, <1>3, <1>4, <1>5

\* The updater's steps leave the request cycle alone.
LEMMA UpdaterCyc ==
    ASSUME DecideHasStats, ScoreDone, CycleNorm, IdleDone, NormEq, UNCHANGED cyc
    PROVE  DecideHasStats' /\ ScoreDone' /\ CycleNorm' /\ IdleDone' /\ NormEq'
  BY DEF cyc, DecideHasStats, ScoreDone, CycleNorm, IdleDone, NormEq, AllDone


LEMMA StepIInv == IInv /\ [Next]_vars => IInv'
  <1> SUFFICES ASSUME TypeOK, DecideHasStats, ScoreDone, CycleNorm, IdleDone, NormEq,
                      [Next]_vars
               PROVE  TypeOK' /\ DecideHasStats' /\ ScoreDone' /\ CycleNorm' /\ IdleDone' /\ NormEq'
    BY DEF IInv
  <1>0. MaxScore \in Nat /\ Updater \in Threads
    BY DEF MaxScore, Threads
  \* The updater goroutine.
  <1>1. CASE UpdList \/ UpdLock \/ UpdUnlock \/ Tick
    <2>1. UNCHANGED <<cache, cyc>>
      BY <1>1 DEF UpdList, UpdLock, UpdUnlock, Tick
    <2>2. TypeOK'
      <3>1. CASE UpdList
        BY <1>0, <3>1, <2>1 DEF UpdList, TypeOK, cyc
      <3>2. CASE UpdLock
        BY <1>0, <3>2, <2>1 DEF UpdLock, TypeOK, cyc
      <3>3. CASE UpdUnlock
        BY <1>0, <3>3, <2>1 DEF UpdUnlock, TypeOK, cyc
      <3>4. CASE Tick
        BY <1>0, <3>4, <2>1 DEF Tick, TypeOK, cyc, lock
      <3>. QED
        BY <1>1, <3>1, <3>2, <3>3, <3>4
    <2>. QED
      BY <2>1, <2>2, UpdaterCyc
  <1>2. ASSUME NEW n \in Nodes, UpdNode(n) PROVE TypeOK' /\ DecideHasStats' /\ ScoreDone' /\ CycleNorm' /\ IdleDone' /\ NormEq'
    <2>1. PICK st \in GetNodeStats(n) : cache' = [cache EXCEPT ![n] = st]
      BY <1>2 DEF UpdNode
    <2>2. st \in StatsType
      BY StatsTyped
    <2>3. UNCHANGED <<snap, upc, writer, readers, wwait, cyc>> /\ todo' \subseteq todo
      BY <1>2 DEF UpdNode, lock
    <2>4. TypeOK'
      BY <2>1, <2>2, <2>3 DEF TypeOK, cyc
    <2>. QED
      BY <2>3, <2>4, UpdaterCyc
  \* The Filter and Score goroutines.
  <1>3. ASSUME NEW n \in Nodes, ReadCache(n) PROVE TypeOK' /\ DecideHasStats' /\ ScoreDone' /\ CycleNorm' /\ IdleDone' /\ NormEq'
    <2>1. /\ tpc[n] = "rlock" /\ readers' = readers \cup {n}
          /\ tstats' = [tstats EXCEPT ![n] = cache[n]] /\ tpc' = [tpc EXCEPT ![n] = "runlock"]
          /\ UNCHANGED <<cache, snap, upc, todo, writer, wwait, phase, pod, feasible, raw, norm>>
      BY <1>3 DEF ReadCache, upd
    <2>2. TypeOK'
      BY <2>1 DEF TypeOK
    <2>. QED
      BY <2>1, <2>2, ThreadCyc
  <1>4. ASSUME NEW n \in Nodes, ReadUnlock(n) PROVE TypeOK' /\ DecideHasStats' /\ ScoreDone' /\ CycleNorm' /\ IdleDone' /\ NormEq'
    <2>1. /\ tpc[n] = "runlock" /\ readers' = readers \ {n}
          /\ tpc' = [tpc EXCEPT ![n] = IF tstats[n] = NoEntry THEN "fetch" ELSE "decide"]
          /\ UNCHANGED <<cache, snap, upc, todo, writer, wwait, phase, pod, tstats, feasible, raw, norm>>
      BY <1>4 DEF ReadUnlock, upd
    <2>2. tstats' = [tstats EXCEPT ![n] = tstats[n]]
      BY <2>1 DEF TypeOK
    <2>3. TypeOK'
      BY <2>1 DEF TypeOK
    <2>. QED
      BY <2>1, <2>2, <2>3, ThreadCyc
  <1>5. ASSUME NEW n \in Nodes, Fetch(n) PROVE TypeOK' /\ DecideHasStats' /\ ScoreDone' /\ CycleNorm' /\ IdleDone' /\ NormEq'
    <2>1. PICK st \in GetNodeStats(n) : tstats' = [tstats EXCEPT ![n] = st]
      BY <1>5 DEF Fetch
    <2>2. st \in StatsType /\ st # NoEntry
      BY StatsTyped, MarkersAssumption
    <2>3. /\ tpc[n] = "fetch" /\ wwait' = wwait \cup {n} /\ tpc' = [tpc EXCEPT ![n] = "lock"]
          /\ UNCHANGED <<cache, snap, upc, todo, writer, readers, phase, pod, feasible, raw, norm>>
      BY <1>5 DEF Fetch, upd
    <2>4. TypeOK'
      BY <2>1, <2>2, <2>3 DEF TypeOK, Threads
    <2>. QED
      BY <2>1, <2>2, <2>3, <2>4, ThreadCyc
  <1>6. ASSUME NEW n \in Nodes, WriteBack(n) PROVE TypeOK' /\ DecideHasStats' /\ ScoreDone' /\ CycleNorm' /\ IdleDone' /\ NormEq'
    <2>1. /\ tpc[n] = "lock" /\ cache' = [cache EXCEPT ![n] = tstats[n]]
          /\ wwait' = wwait \ {n} /\ tpc' = [tpc EXCEPT ![n] = "decide"]
          /\ UNCHANGED <<snap, upc, todo, writer, readers, phase, pod, tstats, feasible, raw, norm>>
      BY <1>6 DEF WriteBack, upd
    <2>2. tstats' = [tstats EXCEPT ![n] = tstats[n]] /\ tstats[n] # NoEntry
      BY <2>1 DEF TypeOK, DecideHasStats
    <2>3. TypeOK'
      BY <2>1 DEF TypeOK
    <2>. QED
      BY <2>1, <2>2, <2>3, ThreadCyc
  <1>7. ASSUME NEW n \in Nodes, Decide(n) PROVE TypeOK' /\ DecideHasStats' /\ ScoreDone' /\ CycleNorm' /\ IdleDone' /\ NormEq'
    <2>. DEFINE req == ExtractPodRequirements(pod)
    <2>1. /\ tpc[n] = "decide" /\ tpc' = [tpc EXCEPT ![n] = "done"]
          /\ UNCHANGED <<cache, snap, upc, todo, writer, readers, wwait, phase, pod, tstats, norm>>
      BY <1>7 DEF Decide, upd, lock
    <2>2. phase \in {"filter", "score"}
      BY <2>1 DEF IdleDone, AllDone, TypeOK
    <2>3. DecideHasStats' /\ IdleDone'
      BY <2>1, <2>2 DEF DecideHasStats, IdleDone, TypeOK
    <2>4. CASE phase = "filter"
      <3>1. feasible' \subseteq feasible \cup {n} /\ raw' = raw
        BY <1>7, <2>4 DEF Decide
      <3>2. norm = None
        BY <2>4 DEF CycleNorm
      <3>. QED
        BY <2>1, <2>3, <2>4, <3>1, <3>2 DEF TypeOK, ScoreDone, CycleNorm, NormEq
    <2>5. CASE phase = "score"
      <3>1. raw' = [raw EXCEPT ![n] = ScoreMultiResource(req, tstats[n])] /\ feasible' = feasible
        BY <1>7, <2>5 DEF Decide
      <3>2. ScoreMultiResource(req, tstats[n]) \in (0..MaxScore) \cup {NaN}
        <4>1. req \in [Dims -> Nat] /\ tstats[n] \in StatsType
          BY <2>1, RequirementsTyped DEF TypeOK, DecideHasStats
        <4>. QED
          BY <4>1, ScoreRange
      <3>3. ScoreMultiResource(req, tstats[n]) # None
        BY <3>2, MarkersAssumption
      <3>4. norm = None
        BY <2>5 DEF CycleNorm
      <3>. QED
        BY <2>1, <2>3, <2>5, <3>1, <3>2, <3>3, <3>4 DEF TypeOK, ScoreDone, CycleNorm, NormEq
    <2>. QED
      BY <2>2, <2>4, <2>5

  \* The framework.
  <1>8. ASSUME NEW p \in Pods, CycleStart(p) PROVE TypeOK' /\ DecideHasStats' /\ ScoreDone' /\ CycleNorm' /\ IdleDone' /\ NormEq'
    <2>1. /\ phase' = "filter" /\ pod' = p /\ snap' = Nodes
          /\ tpc' = [m \in Nodes |-> "rlock"] /\ tstats' = [m \in Nodes |-> NoEntry]
          /\ feasible' = {} /\ raw' = [m \in Nodes |-> None] /\ norm' = None
          /\ UNCHANGED <<cache, upc, todo, writer, readers, wwait>>
      BY <1>8 DEF CycleStart, upd, lock
    <2>. QED
      BY <2>1 DEF TypeOK, DecideHasStats, ScoreDone, CycleNorm, IdleDone, NormEq
  <1>9. CASE FilterDone
    <2>1. /\ phase = "filter" /\ AllDone
          /\ UNCHANGED <<cache, snap, upc, todo, writer, readers, wwait, pod, tstats, feasible, raw, norm>>
          /\ \/ phase' = "idle" /\ tpc' = tpc
             \/ phase' = "score" /\ tpc' = [m \in Nodes |-> IF m \in feasible THEN "rlock" ELSE "done"]
      BY <1>9 DEF FilterDone, upd, lock
    <2>2. norm = None
      BY <2>1 DEF CycleNorm
    <2>. QED
      BY <2>1, <2>2 DEF TypeOK, DecideHasStats, ScoreDone, CycleNorm, IdleDone, NormEq, AllDone
  <1>10. CASE Normalize
    <2>. DEFINE f == [m \in feasible |-> raw[m]]
    <2>1. /\ phase = "score" /\ AllDone /\ norm' = NormalizeScore(f) /\ phase' = "idle"
          /\ UNCHANGED <<cache, snap, upc, todo, writer, readers, wwait, pod, tpc, tstats, feasible, raw>>
      BY <1>10 DEF Normalize, upd, lock
    <2>2. f \in [feasible -> (0..MaxScore) \cup {NaN}]
      BY <2>1 DEF ScoreDone, AllDone, TypeOK
    <2>3. norm' \in [feasible' -> Int]
      BY <2>1, <2>2, NormTyped
    <2>4. TypeOK'
      BY <2>1, <2>3 DEF TypeOK
    <2>. QED
      BY <2>1, <2>4 DEF DecideHasStats, ScoreDone, CycleNorm, IdleDone, NormEq, AllDone
  <1>11. CASE UNCHANGED vars
    <2>1. UNCHANGED <<cache, snap, upc, todo, writer, readers, wwait>> /\ UNCHANGED cyc
      BY <1>11 DEF vars, upd, lock
    <2>2. TypeOK'
      BY <2>1 DEF TypeOK, cyc
    <2>. QED
      BY <2>1, <2>2, UpdaterCyc
  <1>. QED
    BY <1>1, <1>2, <1>3, <1>4, <1>5, <1>6, <1>7, <1>8, <1>9, <1>10, <1>11
       DEF Next, UpdaterStep, ThreadStep, LockStep, Framework


\* Every reachable state of the plugin satisfies the inductive invariant.
THEOREM Invariant == Spec => []IInv
  BY InitIInv, StepIInv, PTL DEF Spec

\* The nodeStats map, the RWMutex holders, the goroutines' local stats and
\* every raw and normalized score keep their types (TypeOK): in particular
\* scoreMultiResource is only ever called on stats a goroutine holds and
\* returns a score in [0, maxScore] or NaN, and NormalizeScore is only run
\* once every feasible node was scored.
THEOREM TypeCorrect == Spec => []TypeOK
  BY Invariant, PTL DEF IInv

\* The scores NormalizeScore leaves for the framework keep the strict order
\* of the raw scores Score returned and, when those differ, span 0 to
\* maxScore (NormalizeRescales), whatever the updater and the Filter and
\* Score goroutines interleave.
THEOREM Rescales == Spec => []NormalizeRescales
  <1>1. IInv => NormalizeRescales
    <2> SUFFICES ASSUME IInv, norm # None, \A n \in DOMAIN norm : raw[n] \in 0..MaxScore
                 PROVE  /\ \A a, b \in DOMAIN norm : raw[a] < raw[b] => norm[a] < norm[b]
                        /\ (\E a, b \in DOMAIN norm : raw[a] # raw[b]) =>
                               /\ \E a \in DOMAIN norm : norm[a] = 0
                               /\ \E b \in DOMAIN norm : norm[b] = MaxScore
      BY DEF NormalizeRescales
    <2>. DEFINE f == [m \in feasible |-> raw[m]]
    <2>1. DOMAIN norm = feasible /\ norm = NormalizeScore(f)
      BY DEF IInv, TypeOK, NormEq
    <2>2. f \in [feasible -> 0..MaxScore]
      BY <2>1
    <2>3. /\ \A a, b \in feasible : f[a] < f[b] => NormalizeScore(f)[a] < NormalizeScore(f)[b]
          /\ (\E a, b \in feasible : f[a] # f[b]) =>
                 /\ \E a \in feasible : NormalizeScore(f)[a] = 0
                 /\ \E b \in feasible : NormalizeScore(f)[b] = MaxScore
      BY <2>2, NormRescale
    <2>. QED
      BY <2>1, <2>3
  <1>. QED
    BY <1>1, Invariant, PTL

====
