---------------------------- MODULE UpdateRules ----------------------------
(***************************************************************************)
(* What the linear learners of classifier/ and regression/ add to their    *)
(* weights, in exact arithmetic.  train reads the scores and the variance, *)
(* releases the storage's lock and takes it again for the update, so that  *)
(* calls of several threads interleave; the passive_aggressive regressions,*)
(* which keep sums of their own without a lock, are called by one.         *)
(*                                                                         *)
(* Numbers are fractions <<n, d>> with d >= 0: <<1, 0>> is the infinity of *)
(* a double and <<0, 0>> its NaN.  A regression is a classification with   *)
(* the one label "+" and the margin -|error|.                              *)
(***************************************************************************)
EXTENDS Integers, FiniteSetsExt, Functions, TLC

CONSTANTS Thread,
          Feature,
          Rule,      \* of [task, method, C, sensitivity]
          Vector,    \* functions from features to integers
          Target,    \* task -> labels or values
          Root,      \* what a root that is no fraction is rounded to: 1/Root
          Limit,     \* bound on the parts of the weights' fractions
          MaxTrains  \* bound on the calls

VARIABLES rule,   \* the learner, fixed
          w,      \* label -> feature -> [v1, v2]
          tally,  \* sum_, sq_sum_ and count_
          doing,  \* what each thread is about to add, or NoStep
          last,   \* the last update, and the weights before it
          spoilt, \* whether an update met what its train could not know
          trains

vars == <<rule, w, tally, doing, last, spoilt, trains>>

---------------------------------------------------------------------------
Gcd[a \in Nat, b \in Nat] == IF b = 0 THEN a ELSE Gcd[b, a % b]
Abs(n) == IF n < 0 THEN -n ELSE n
Q(n, d) ==
    LET g == Gcd[Abs(n), Abs(d)]
    IN  IF g = 0 THEN <<0, 0>> ELSE IF d < 0 THEN <<-n \div g, -d \div g>> ELSE <<n \div g, d \div g>>
Zero == <<0, 1>>
One == <<1, 1>>
NaN == <<0, 0>>
p \oplus q ==
    LET g == Gcd[p[2], q[2]]
    IN  IF g = 0 THEN NaN ELSE Q(p[1] * (q[2] \div g) + q[1] * (p[2] \div g), (p[2] \div g) * q[2])
p \otimes q == LET x == Q(p[1], q[2]) y == Q(q[1], p[2]) IN Q(x[1] * y[1], x[2] * y[2])
Neg(a) == <<-a[1], a[2]>>
p \ominus q == p \oplus Neg(q)
Inv(a) == Q(a[2], a[1])
p \oslash q == p \otimes Inv(q)
p \prec q == LET c == p \ominus q IN c[1] < 0
Least(a, b) == IF a \prec b THEN a ELSE b
Times(k, a) == Q(k, 1) \otimes a
Size(a) == <<Abs(a[1]), a[2]>>
Sum(S, f(_)) == FoldSet(LAMBDA x, s : f(x) \oplus s, Zero, S)

IsqrtIn[n \in Nat, lo \in Nat, hi \in Nat] ==
    IF hi - lo <= 1 THEN lo
    ELSE LET mid == (lo + hi) \div 2
         IN  IF mid * mid <= n THEN IsqrtIn[n, mid, hi] ELSE IsqrtIn[n, lo, mid]
Isqrt(n) == IsqrtIn[n, 0, 46340]
Square(n) == Isqrt(n) * Isqrt(n) = n
IsSquare(a) == Square(a[1]) /\ Square(a[2])

\* sqrt, exact for the square of a fraction.
Sqrt(a) == IF IsSquare(a) THEN Q(Isqrt(a[1]), Isqrt(a[2]))
           ELSE IF a[2] = 0 THEN a
           ELSE Q(Isqrt((a[1] * Root * Root) \div a[2]), Root)

---------------------------------------------------------------------------
Labels == DOMAIN w
Regression == rule.task = "regression"
Fresh == [v1 |-> Zero, v2 |-> One]
Weight(table, l, f) == IF l \in DOMAIN table /\ f \in DOMAIN table[l] THEN table[l][f] ELSE Fresh
Score(table, l, x) == Sum(DOMAIN x, LAMBDA f : Times(x[f], Weight(table, l, f).v1))
squared_norm(x) == Sum(DOMAIN x, LAMBDA f : Q(x[f] * x[f], 1))
NoLabel == ""
NoStep == [to |-> NoLabel]

\* get_largest_incorrect_label: any of the best
Best(L, x) == {l \in L : \A o \in L : ~(Score(w, l, x) \prec Score(w, o, x))}
Incorrect(L, x) == IF L = {} THEN {NoLabel} ELSE Best(L, x)

\* calc_margin: the correct score less the other
Margin(table, l, neg, x) == Score(table, l, x) \ominus (IF neg = NoLabel THEN Zero ELSE Score(table, neg, x))

calc_variance(l, neg, x) ==
    Sum(DOMAIN x, LAMBDA f : Times(x[f] * x[f], Weight(w, l, f).v2 \oplus Weight(w, neg, f).v2))

estimate(x) == Score(w, "+", x)
calc_variance_regression(x) == Sum(DOMAIN x, LAMBDA f : Times(x[f] * x[f], Weight(w, "+", f).v2))

Holds == {"arow", "confidence_weighted", "normal_herd"}
Passive == {"passive_aggressive", "passive_aggressive_1", "passive_aggressive_2"}

(* How far each classifier goes for a loss, a margin, a norm or a variance.*)
passive_aggressive(loss, norm) == loss \oslash Times(2, norm)

\* Mutant of passive_aggressive_1: the step is not limited.
Unlimited(loss, norm) == loss \oslash Times(2, norm)

passive_aggressive_1(loss, norm) == Least(rule.C, loss \oslash Times(2, norm))
passive_aggressive_2(loss, norm) == loss \oslash (Times(2, norm) \oplus Inv(Times(2, rule.C)))

b(m) == One \oplus Times(2, rule.C \otimes m)
squared(m, v) == (b(m) \otimes b(m)) \ominus Times(8, rule.C \otimes (m \ominus (rule.C \otimes v)))
confidence_weighted(m, v) == (Sqrt(squared(m, v)) \ominus b(m)) \oslash Times(4, rule.C \otimes v)

beta(v) == Inv(v \oplus Inv(rule.C))
arow(loss, v) == loss \otimes beta(v)
normal_herd(loss, v) == loss \oslash (v \oplus Inv(rule.C))

(* And each regression.  The last of the passive_aggressive ones adds      *)
(* 1 / 2 * C to the norm, in which 1 / 2 is a division of integers.        *)
perceptron_regression(error) == rule.C \otimes error
passive_aggressive_regression(loss, norm) == loss \oslash norm
passive_aggressive_1_regression(loss, norm) == Least(rule.C, loss \oslash norm)
passive_aggressive_2_regression(loss, norm) == loss \oslash (norm \oplus Times(1 \div 2, rule.C))
confidence_weighted_regression(error, v) == confidence_weighted(Neg(error), v)
arow_regression(loss, v) == loss \otimes beta(v)
normal_herd_regression(loss, v) == loss \oslash (v \oplus Inv(rule.C))

Width(m, loss, norm, v) ==
    CASE rule.method = "perceptron" -> One
      [] rule.method = "passive_aggressive" -> passive_aggressive(loss, norm)
      [] rule.method = "passive_aggressive_1" -> passive_aggressive_1(loss, norm)
      [] rule.method = "passive_aggressive_2" -> passive_aggressive_2(loss, norm)
      [] rule.method = "confidence_weighted" -> confidence_weighted(m, v)
      [] rule.method = "arow" -> arow(loss, v)
      [] rule.method = "normal_herd" -> normal_herd(loss, v)

RegressionWidth(error, loss, norm, v) ==
    CASE rule.method = "perceptron" -> perceptron_regression(error)
      [] rule.method = "passive_aggressive" -> passive_aggressive_regression(loss, norm)
      [] rule.method = "passive_aggressive_1" -> passive_aggressive_1_regression(loss, norm)
      [] rule.method = "passive_aggressive_2" -> passive_aggressive_2_regression(loss, norm)
      [] rule.method = "confidence_weighted" -> confidence_weighted_regression(error, v)
      [] rule.method = "arow" -> arow_regression(loss, v)
      [] rule.method = "normal_herd" -> normal_herd_regression(loss, v)

(* What they leave of a covariance s where the vector has a number of square  *)
(* n, and what the regressions leave.                                      *)
arow_update(s, n, v) == s \ominus Times(n, beta(v) \otimes (s \otimes s))
confidence_weighted_update(s, n, width) == Inv(Inv(s) \oplus Times(2 * n, width \otimes rule.C))
normal_herd_update(s, n, v) ==
    Inv(Inv(s) \oplus Times(n, Times(2, rule.C) \oplus (rule.C \otimes (rule.C \otimes v))))
arow_regression_update(s, n, v) == s \ominus Times(n, beta(v) \otimes (s \otimes s))
confidence_weighted_regression_update(s, n, width) == Inv(Inv(s) \oplus Times(2 * n, width \otimes rule.C))
normal_herd_regression_update(s, n, v) ==
    Inv(Inv(s) \oplus Times(n, Times(2, rule.C) \oplus (rule.C \otimes (rule.C \otimes v))))

Shrunk(s, n, width, v) ==
    CASE rule.method = "arow" -> IF Regression THEN arow_regression_update(s, n, v) ELSE arow_update(s, n, v)
      [] rule.method = "confidence_weighted" ->
            IF Regression THEN confidence_weighted_regression_update(s, n, width)
            ELSE confidence_weighted_update(s, n, width)
      [] rule.method = "normal_herd" ->
            IF Regression THEN normal_herd_regression_update(s, n, v) ELSE normal_herd_update(s, n, v)
      [] OTHER -> s

---------------------------------------------------------------------------
Init ==
    /\ rule \in Rule
    /\ w = [l \in {} |-> 0]
    /\ tally = [sum |-> 0, sq |-> 0, count |-> 0]
    /\ doing = [t \in Thread |-> NoStep]
    /\ last = NoStep
    /\ spoilt = FALSE
    /\ trains = 0

\* register_label, and what the call sets out to add
Begin(t, step, known) ==
    /\ doing' = [doing EXCEPT ![t] = step]
    /\ w' = [l \in Labels \cup known |-> IF l \in Labels THEN w[l] ELSE [f \in {} |-> 0]]
    /\ trains' = trains + 1
    /\ UNCHANGED <<rule, last, spoilt>>

Step(x, l, neg, sign, m, loss, width, v) ==
    [x |-> x, to |-> l, neg |-> neg, sign |-> sign, m |-> m, loss |-> loss, width |-> width, var |-> v,
     from |-> w]

\* The classifiers' train, up to the update.
ClassifierTrain(t, x, y) ==
    /\ ~Regression
    /\ UNCHANGED tally
    /\ \E neg \in (IF rule.method = "perceptron" THEN Incorrect(Labels, x) ELSE Incorrect(Labels \ {y}, x)) :
          LET m == Margin(w, y, neg, x)
              v == calc_variance(y, neg, x)
              norm == squared_norm(x)
              width == Width(m, One \ominus m, norm, v)
              idle == CASE rule.method = "perceptron" -> y = neg
                        [] rule.method \in Passive -> (One \prec m) \/ norm = Zero
                        [] rule.method = "confidence_weighted" -> v = Zero \/ ~(Zero \prec width)
                        [] OTHER -> ~(m \prec One)
              silent == rule.method = "perceptron" \/ (rule.method = "passive_aggressive" /\ (One \prec m))
          IN  IF idle THEN Begin(t, NoStep, IF silent THEN {} ELSE {y})
                 ELSE Begin(t, Step(x, y, neg, 1, m, One \ominus m, width, v), {})

\* The deviation of the values trained so far.
std_dev(sums) ==
    LET avg == Q(sums.sum, sums.count)
    IN  Sqrt(Q(sums.sq, sums.count) \ominus (avg \otimes avg))

\* The regressions' train, up to the update.
RegressionTrain(t, x, y) ==
    LET counts == rule.method \in Passive
        error == Q(y, 1) \ominus estimate(x)
        sign == IF Zero \prec error THEN 1 ELSE -1
        sens == IF counts THEN rule.sensitivity \otimes std_dev(tally')
                ELSE IF rule.method = "perceptron" THEN Zero ELSE rule.sensitivity
        loss == Size(error) \ominus sens
        v == calc_variance_regression(x)
        width == RegressionWidth(Size(error), loss, squared_norm(x), v)
    IN  /\ Regression
        /\ counts => \A s \in Thread : doing[s] = NoStep
        /\ tally' = IF counts THEN [sum |-> tally.sum + y, sq |-> tally.sq + y * y, count |-> tally.count + 1]
                    ELSE tally
        /\ Begin(t, IF (Zero \prec loss \/ rule.method = "perceptron") /\ (counts => width[2] # 0)
                    THEN Step(x, "+", NoLabel, sign, Neg(Size(error)), loss, width, v) ELSE NoStep, {})

\* A weight of the label that gains or of the one that loses.
Moved(l, f, step, gains) ==
    LET old == Weight(w, l, f)
        times == Times(step.sign * step.x[f], step.width)
        by == IF rule.method \in Holds THEN times \otimes old.v2 ELSE times
    IN  [v1 |-> IF gains THEN old.v1 \oplus by ELSE old.v1 \ominus by,
         v2 |-> Shrunk(old.v2, step.x[f] * step.x[f], step.width, step.var)]

\* A label was deleted between the train and the update.
Deleted(step) == \E l \in DOMAIN step.from : ~(l \in Labels /\ DOMAIN step.from[l] \subseteq DOMAIN w[l])

\* update or bulk_update, in the storage's lock
Update(t) ==
    LET step == doing[t]
        touched == {step.to, step.neg} \ {NoLabel}
    IN  /\ step # NoStep
        /\ w' = [l \in Labels \cup touched |->
                    [f \in (IF l \in Labels THEN DOMAIN w[l] ELSE {})
                              \cup (IF l \in touched THEN DOMAIN step.x ELSE {}) |->
                        IF l \in touched /\ f \in DOMAIN step.x THEN Moved(l, f, step, l = step.to)
                        ELSE w[l][f]]]
        /\ doing' = [doing EXCEPT ![t] = NoStep]
        /\ last' = step @@ [before |-> w]
        /\ spoilt' = (spoilt \/ Deleted(step) \/ (Regression /\ step.var = Zero))
        /\ UNCHANGED <<rule, tally, trains>>

\* delete_label, or its unlearner
delete_label(l) ==
    /\ l \in Labels /\ ~Regression
    /\ w' = Restrict(w, Labels \ {l})
    /\ last' = NoStep
    /\ UNCHANGED <<rule, tally, doing, spoilt, trains>>

\* clear, which is called alone
clear ==
    /\ \A t \in Thread : doing[t] = NoStep
    /\ w # [l \in {} |-> 0]
    /\ w' = [l \in {} |-> 0]
    /\ tally' = [sum |-> 0, sq |-> 0, count |-> 0]
    /\ last' = NoStep /\ spoilt' = FALSE
    /\ UNCHANGED <<rule, doing, trains>>

Bounded ==
    /\ trains < MaxTrains
    /\ \A l \in Labels : \A f \in DOMAIN w[l] :
          \A q \in {w[l][f].v1, w[l][f].v2} : Abs(q[1]) <= Limit /\ q[2] <= Limit

Next ==
    \/ \E t \in Thread, x \in Vector, y \in Target[rule.task] :
          /\ doing[t] = NoStep /\ Bounded
          /\ ClassifierTrain(t, x, y) \/ RegressionTrain(t, x, y)
    \/ \E t \in Thread : Update(t)
    \/ \E l \in Labels : delete_label(l)
    \/ clear

Spec == Init /\ [][Next]_vars

---------------------------------------------------------------------------
\* What an update of nothing but what its train saw gains: the loss it leaves is
\* none (passive_aggressive, and the passive_aggressive_2 regression with it), none
\* if the bound allows, or what its own regularization asks for; and with
\* confidence_weighted the margin becomes C times the variance it leaves.
Gain ==
    LET of(table) == Margin(table, last.to, last.neg, last.x)
    IN  Times(last.sign, of(w) \ominus of(last.before))

LossIsRight ==
    LET left == last.loss \ominus Gain
        width == last.width
        aim == (rule.C \otimes last.var) \oslash (One \oplus (Times(2, rule.C) \otimes (width \otimes last.var)))
        reached == last.m \oplus Gain
    IN  CASE rule.method = "perceptron" -> TRUE
          [] rule.method = "passive_aggressive" \/ (rule.method = "passive_aggressive_2" /\ Regression) ->
                left = Zero
          [] rule.method = "passive_aggressive_1" ->
                /\ ~(rule.C \prec width) /\ ~(left \prec Zero)
                /\ width \prec rule.C => left = Zero
          [] rule.method = "passive_aggressive_2" -> left = width \oslash Times(2, rule.C)
          [] rule.method = "confidence_weighted" -> 
                /\ last.m \prec reached /\ ~(aim \prec reached)
                /\ IsSquare(squared(last.m, last.var)) => reached = aim
          [] OTHER -> left = width \oslash rule.C

\* Covariances stay above nothing and never grow, in whatever order threads
\* update, and weights stay numbers, unless a label is deleted under a train, or
\* a regression is trained with a vector of zeros, of no variance.
UpdatesAreRight ==
    /\ last # NoStep /\ ~spoilt =>
          /\ last.from = last.before /\ (Regression \/ last.neg # NoLabel) /\ squared_norm(last.x) # Zero => LossIsRight
          /\ \A l \in Labels : \A f \in DOMAIN w[l] :
                LET s == w[l][f].v2
                IN  Zero \prec s /\ ~(Weight(last.before, l, f).v2 \prec s)
    /\ ~spoilt => \A l \in Labels : \A f \in DOMAIN w[l] : w[l][f].v1[2] # 0
=============================================================================
