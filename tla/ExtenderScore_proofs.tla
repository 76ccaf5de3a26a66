------------------------- MODULE ExtenderScore_proofs -------------------------
(***************************************************************************)
(* What the extender's Filter and Prioritize compute, for every demand     *)
(* vector and every NodeStats with natural free capacities: a node Filter  *)
(* rejects scores 0, and every score lies in 0..maxScore.  ExtenderCache   *)
(* checks the first as RejectedScoresZero and the second as part of        *)
(* TypeOK on small instances.                                              *)
(*                                                                         *)
(* ScoreMultiResource picks, with CHOOSE, a demanded dimension whose share *)
(* req/free is the largest, as the code's loop keeps the largest share.    *)
(* The proofs first show that such a dimension exists (MaxShareExists):    *)
(* a tournament over the six dimensions keeps a leader whose share is at   *)
(* least that of every demanded dimension seen so far, because comparing   *)
(* shares by cross products is total and, with positive frees, transitive. *)
(***************************************************************************)
EXTENDS ExtenderScore, TLAPS

\* The demand vectors and NodeStats the extender handles.
Demand == [Dims -> Nat]
StatsT == [Dims -> [total : Int, free : Nat]]

\* The share req[a]/st[a].free is at least req[b]/st[b].free.
AtLeast(req, st, a, b) == req[a] * st[b].free >= req[b] * st[a].free

\* One round of the tournament: the leader c meets dimension e.
Pick(req, st, c, e) ==
    IF c \notin Demanded(req) THEN e
    ELSE IF e \notin Demanded(req) THEN c
    ELSE IF AtLeast(req, st, c, e) THEN c ELSE e

\* c leads the demanded dimensions of S.
Leads(req, st, c, S) ==
    S \cap Demanded(req) # {} =>
        /\ c \in Demanded(req)
        /\ \A y \in S \cap Demanded(req) : AtLeast(req, st, c, y)

\* Comparing shares by cross products is transitive when the middle
\* dimension has a positive free.
LEMMA ShareTransitive ==
    ASSUME NEW ra \in Int, NEW rb \in Int, NEW rc \in Int,
           NEW fa \in Nat, NEW fb \in Nat \ {0}, NEW fc \in Nat,
           ra * fb >= rb * fa, rb * fc >= rc * fb
    PROVE  ra * fc >= rc * fa
<1>1. ra * fb * fc >= rb * fa * fc
    BY SMT
<1>2. rb * fc * fa >= rc * fb * fa
    BY SMT
<1>3. (ra * fc) * fb >= (rc * fa) * fb
    BY <1>1, <1>2, SMT
<1>. QED
    BY <1>3, SMT

\* A round keeps a leader of the dimensions seen so far.
LEMMA PickStep ==
    ASSUME NEW req \in Demand, NEW st \in StatsT,
           \A d \in Demanded(req) : st[d].free > 0,
           NEW S \in SUBSET Dims, NEW c \in Dims, NEW e \in Dims,
           Leads(req, st, c, S)
    PROVE  Leads(req, st, Pick(req, st, c, e), S \cup {e})
<1>. DEFINE D == Demanded(req)
<1>1. \A x \in D : AtLeast(req, st, x, x)
    BY SMT DEF D, Demanded, AtLeast, Demand, StatsT
<1>2. CASE c \notin D
    <2>1. S \cap D = {}
        BY <1>2 DEF Leads
    <2>. QED
        BY <1>1, <1>2, <2>1 DEF Pick, Leads
<1>3. CASE c \in D /\ e \notin D
    BY <1>3 DEF Pick, Leads
<1>4. CASE c \in D /\ e \in D /\ AtLeast(req, st, c, e)
    BY <1>4 DEF Pick, Leads
<1>5. CASE c \in D /\ e \in D /\ ~AtLeast(req, st, c, e)
    <2>1. Pick(req, st, c, e) = e
        BY <1>5 DEF Pick
    <2>2. AtLeast(req, st, e, c)
        BY <1>5, SMT DEF AtLeast, Demand, StatsT
    <2>3. ASSUME NEW y \in S \cap D PROVE AtLeast(req, st, e, y)
        <3>1. AtLeast(req, st, c, y)
            BY <1>5 DEF Leads
        <3>2. st[c].free \in Nat \ {0}
            BY <1>5 DEF StatsT, Demanded
        <3>. QED
            BY <2>2, <3>1, <3>2, ShareTransitive DEF AtLeast, Demand, StatsT, Demanded
    <2>. QED
        BY <1>1, <1>5, <2>1, <2>3 DEF Leads
<1>. QED
    BY <1>2, <1>3, <1>4, <1>5

\* A round's winner is one of the two dimensions that met.
LEMMA PickOneOf ==
    ASSUME NEW req, NEW st, NEW c, NEW e
    PROVE  Pick(req, st, c, e) \in {c, e}
    BY DEF Pick

\* With positive frees on the demanded dimensions, one of them has the
\* largest share: the CHOOSE of ScoreMultiResource has a witness.
LEMMA MaxShareExists ==
    ASSUME NEW req \in Demand, NEW st \in StatsT,
           \A d \in Demanded(req) : st[d].free > 0,
           Demanded(req) # {}
    PROVE  \E x \in Demanded(req) : \A y \in Demanded(req) : AtLeast(req, st, x, y)
<1>. DEFINE D == Demanded(req)
            c1 == Pick(req, st, "cpu", "mem")
            c2 == Pick(req, st, c1, "diskRead")
            c3 == Pick(req, st, c2, "diskWrite")
            c4 == Pick(req, st, c3, "netUp")
            c5 == Pick(req, st, c4, "netDown")
<1>0. Leads(req, st, "cpu", {"cpu"})
    BY SMT DEF Leads, AtLeast, Demand, StatsT, Demanded
<1>a. /\ "cpu" \in Dims /\ "mem" \in Dims /\ "diskRead" \in Dims
      /\ "diskWrite" \in Dims /\ "netUp" \in Dims /\ "netDown" \in Dims
      /\ Dims = {"cpu", "mem", "diskRead", "diskWrite", "netUp", "netDown"}
    BY DEF Dims, IoDims
<1>1. c1 \in Dims /\ Leads(req, st, c1, {"cpu", "mem"})
    <2>1. Leads(req, st, c1, {"cpu"} \cup {"mem"})
        BY <1>0, <1>a, PickStep DEF c1
    <2>. QED
        BY <1>a, <2>1, PickOneOf DEF c1
<1>2. c2 \in Dims /\ Leads(req, st, c2, {"cpu", "mem", "diskRead"})
    <2>1. Leads(req, st, c2, {"cpu", "mem"} \cup {"diskRead"})
        BY <1>1, <1>a, PickStep DEF c2
    <2>. QED
        BY <1>1, <1>a, <2>1, PickOneOf DEF c2
<1>3. c3 \in Dims /\ Leads(req, st, c3, {"cpu", "mem", "diskRead", "diskWrite"})
    <2>1. Leads(req, st, c3, {"cpu", "mem", "diskRead"} \cup {"diskWrite"})
        BY <1>2, <1>a, PickStep DEF c3
    <2>. QED
        BY <1>2, <1>a, <2>1, PickOneOf DEF c3
<1>4. c4 \in Dims /\ Leads(req, st, c4, {"cpu", "mem", "diskRead", "diskWrite", "netUp"})
    <2>1. Leads(req, st, c4, {"cpu", "mem", "diskRead", "diskWrite"} \cup {"netUp"})
        BY <1>3, <1>a, PickStep DEF c4
    <2>. QED
        BY <1>3, <1>a, <2>1, PickOneOf DEF c4
<1>5. Leads(req, st, c5, Dims)
    <2>1. Leads(req, st, c5, {"cpu", "mem", "diskRead", "diskWrite", "netUp"} \cup {"netDown"})
        BY <1>4, <1>a, PickStep DEF c5
    <2>. QED
        BY <1>a, <2>1
<1>6. D \subseteq Dims /\ D # {}
    BY DEF D, Demanded
<1>. QED
    BY <1>5, <1>6 DEF Leads, D


\* The dimension ScoreMultiResource scores by, in its last branch.
Dominant(req, st) ==
    CHOOSE x \in Demanded(req) :
        \A y \in Demanded(req) : req[x] * st[y].free >= req[y] * st[x].free

\* In ScoreMultiResource's last branch the dominant dimension is demanded,
\* has a positive free, and its share is at least every demanded share.
LEMMA DominantProps ==
    ASSUME NEW req \in Demand, NEW st \in StatsT,
           \A d \in Demanded(req) : st[d].free > 0,
           Demanded(req) # {}
    PROVE  /\ Dominant(req, st) \in Demanded(req)
           /\ \A y \in Demanded(req) : AtLeast(req, st, Dominant(req, st), y)
<1>1. \E x \in Demanded(req) : \A y \in Demanded(req) : AtLeast(req, st, x, y)
    BY MaxShareExists
<1>. QED
    BY <1>1 DEF Dominant, AtLeast

\* In its last branch ScoreMultiResource is maxScore * (1 - share) of the
\* dominant dimension, clamped at 0.
LEMMA ScoreLastBranch ==
    ASSUME NEW req \in Demand, NEW st \in StatsT,
           \A d \in Demanded(req) : st[d].free # 0,
           Demanded(req) # {}
    PROVE  ScoreMultiResource(req, st)
             = Pos((MaxScore * (st[Dominant(req, st)].free - req[Dominant(req, st)]))
                   \div st[Dominant(req, st)].free)
    BY DEF ScoreMultiResource, Dominant

(***************************************************************************)
(* Prioritize gives 0 to every node that Filter rejects on the same        *)
(* NodeStats (extender.go, CanScheduleMulti and ScoreMultiResource): the   *)
(* dimension that does not fit has a share above 1, so the dominant share  *)
(* does too and the score is clamped to 0.  ExtenderCache checks this on   *)
(* the cache as RejectedScoresZero.                                        *)
(***************************************************************************)
THEOREM RejectedScoreZero ==
    ASSUME NEW req \in Demand, NEW st \in StatsT,
           ~CanScheduleMulti(req, st)
    PROVE  ScoreMultiResource(req, st) = 0
<1>1. PICK d \in Dims : req[d] > st[d].free
    BY SMT DEF CanScheduleMulti, Demand, StatsT
<1>2. d \in Demanded(req)
    BY <1>1, SMT DEF Demanded, Demand, StatsT
<1>3. CASE \E e \in Demanded(req) : st[e].free = 0
    BY <1>3 DEF ScoreMultiResource
<1>4. CASE \A e \in Demanded(req) : st[e].free # 0
    <2>. DEFINE x == Dominant(req, st)
                rx == req[x]  fx == st[x].free
                rd == req[d]  fd == st[d].free
    <2>1. \A e \in Demanded(req) : st[e].free > 0
        BY <1>4, SMT DEF Demanded, StatsT
    <2>2. x \in Demanded(req) /\ AtLeast(req, st, x, d)
        BY <1>2, <2>1, DominantProps
    <2>3. /\ rx \in Nat /\ rd \in Nat /\ fx \in Nat \ {0} /\ fd \in Nat \ {0}
          /\ rd > fd /\ rx * fd >= rd * fx
        BY <1>1, <1>2, <2>1, <2>2, SMT DEF AtLeast, Demand, StatsT, Demanded
    <2>4. rd * fx > fd * fx
        BY <2>3, SMT
    <2>5. rx > fx
        BY <2>3, <2>4, SMT
    <2>6. (MaxScore * (fx - rx)) \div fx < 0
        BY <2>3, <2>5, MaxScoreAssumption, SMT
    <2>7. ScoreMultiResource(req, st) = Pos((MaxScore * (fx - rx)) \div fx)
        BY <1>2, <1>4, ScoreLastBranch
    <2>. QED
        BY <2>6, <2>7 DEF Pos
<1>. QED
    BY <1>3, <1>4

(***************************************************************************)
(* Every score Prioritize returns lies in 0..maxScore (extender.go,        *)
(* ScoreMultiResource), whatever the demand and the cached NodeStats: a    *)
(* zero free gives 0, no demand gives maxScore, and otherwise the clamp    *)
(* and a nonnegative demand keep maxScore * (1 - share) in range.          *)
(***************************************************************************)
THEOREM ScoreBounded ==
    ASSUME NEW req \in Demand, NEW st \in StatsT
    PROVE  ScoreMultiResource(req, st) \in 0..MaxScore
<1>1. CASE \E e \in Demanded(req) : st[e].free = 0
    <2>1. ScoreMultiResource(req, st) = 0
        BY <1>1 DEF ScoreMultiResource
    <2>. QED
        BY <2>1, MaxScoreAssumption, SMT
<1>2. CASE Demanded(req) = {}
    BY <1>2, MaxScoreAssumption DEF ScoreMultiResource
<1>3. CASE Demanded(req) # {} /\ \A e \in Demanded(req) : st[e].free # 0
    <2>. DEFINE x == Dominant(req, st)
                rx == req[x]  fx == st[x].free
    <2>1. \A e \in Demanded(req) : st[e].free > 0
        BY <1>3, SMT DEF Demanded, StatsT
    <2>2. x \in Demanded(req)
        BY <1>3, <2>1, DominantProps
    <2>3. rx \in Nat /\ fx \in Nat \ {0}
        BY <2>1, <2>2 DEF Demand, StatsT, Demanded
    <2>4. (MaxScore * (fx - rx)) \div fx <= MaxScore
        <3>1. MaxScore * (fx - rx) <= MaxScore * fx
            BY <2>3, MaxScoreAssumption, SMT
        <3>2. (MaxScore * fx) \div fx = MaxScore
            BY <2>3, MaxScoreAssumption, SMT
        <3>. QED
            BY <2>3, <3>1, <3>2, MaxScoreAssumption, SMT
    <2>5. ScoreMultiResource(req, st) = Pos((MaxScore * (fx - rx)) \div fx)
        BY <1>3, ScoreLastBranch
    <2>6. (MaxScore * (fx - rx)) \div fx \in Int
        BY <2>3, MaxScoreAssumption, SMT
    <2>. QED
        BY <2>4, <2>5, <2>6, MaxScoreAssumption, SMT DEF Pos
<1>. QED
    BY <1>1, <1>2, <1>3

=============================================================================
