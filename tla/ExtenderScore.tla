---------------------------- MODULE ExtenderScore ----------------------------
(***************************************************************************)
(* The extender's admission check and score (sched_extension/extender.go): *)
(* CanScheduleMulti and ScoreMultiResource over a demand vector and a      *)
(* NodeStats, both functions of the six resource dimensions.  They are     *)
(* kept apart from ExtenderCache so that what they compute can be proved   *)
(* for every demand and every NodeStats (ExtenderScore_proofs).            *)
(***************************************************************************)
EXTENDS Integers

CONSTANT MaxScore   \* e.maxScore (100)

ASSUME MaxScoreAssumption == MaxScore \in Nat \ {0}

IoDims == {"diskRead", "diskWrite", "netUp", "netDown"}
Dims == {"cpu", "mem"} \cup IoDims

Pos(x) == IF x < 0 THEN 0 ELSE x

\* CanScheduleMulti: every dimension is a hard check; alpha is not used.
CanScheduleMulti(req, st) == \A d \in Dims : req[d] <= st[d].free

(***************************************************************************)
(* ScoreMultiResource: maxScore * (1 - dominant share), clamped at 0 and   *)
(* truncated, over the dimensions with a nonzero demand.  A zero free      *)
(* gives share +Inf and so score 0.  The shares are compared exactly, as   *)
(* cross products, instead of in float64.                                  *)
(***************************************************************************)
Demanded(req) == {d \in Dims : req[d] # 0}
\* Faulty variant: the clamp of a negative score to 0 is dropped.
ScoreMultiResourceNoClamp(req, st) ==
    IF \E d \in Demanded(req) : st[d].free = 0 THEN 0
    ELSE IF Demanded(req) = {} THEN MaxScore
    ELSE LET x == CHOOSE x \in Demanded(req) :
                    \A y \in Demanded(req) : req[x] * st[y].free >= req[y] * st[x].free
         IN  (MaxScore * (st[x].free - req[x])) \div st[x].free
\* Faulty variant: the shares are taken against total instead of free.
ScoreMultiResourceOfTotal(req, st) ==
    IF \E d \in Demanded(req) : st[d].total = 0 THEN 0
    ELSE IF Demanded(req) = {} THEN MaxScore
    ELSE LET x == CHOOSE x \in Demanded(req) :
                    \A y \in Demanded(req) : req[x] * st[y].total >= req[y] * st[x].total
         IN  Pos((MaxScore * (st[x].total - req[x])) \div st[x].total)
ScoreMultiResource(req, st) ==
    IF \E d \in Demanded(req) : st[d].free = 0 THEN 0
    ELSE IF Demanded(req) = {} THEN MaxScore
    ELSE LET x == CHOOSE x \in Demanded(req) :
                    \A y \in Demanded(req) : req[x] * st[y].free >= req[y] * st[x].free
         IN  Pos((MaxScore * (st[x].free - req[x])) \div st[x].free)

=============================================================================
