------------------------------ MODULE Threshold ------------------------------
(***************************************************************************)
(* tune_threshold.py: the threshold it ships for saved scores, and what it *)
(* says of it.  Scores are integers in units fine enough for midpoints;    *)
(* ratios are pairs of a numerator and a denominator and compared exactly, *)
(* so the rounding of floating point is left out.  A case has y (its label *)
(* 0 or 1), s (its score), split, stratum and group (model and version);   *)
(* some rows of a table are the function that maps their numbers to them.  *)
(***************************************************************************)
EXTENDS Integers, FiniteSets, Functions

CONSTANTS Half,         \* the default threshold 0.5 in the units of the scores
          NoThreshold   \* None

(* The cases of each model and question version                            *)
parse(table) ==
  [g \in {table[i].group : i \in DOMAIN table} |->
     Restrict(table, {i \in DOMAIN table : table[i].group = g})]

at_least(p, q) == p[1] * q[2] >= q[1] * p[2]

counts(rows, threshold) ==
  LET number(flagged, y) == Cardinality({i \in DOMAIN rows : (rows[i].s >= threshold) = flagged /\ rows[i].y = y})
  IN [tp |-> number(TRUE, 1), fp |-> number(TRUE, 0), fn |-> number(FALSE, 1)]

ratio(a, b) == IF b = 0 THEN <<0, 1>> ELSE <<a, b>>

precision(c) == ratio(c.tp, c.tp + c.fp)
recall(c) == ratio(c.tp, c.tp + c.fn)

(* F-beta, with the fractions cancelled; b2 is the square of beta.         *)
f_beta(c, b2) ==
  ratio((b2[1] + b2[2]) * c.tp, (b2[1] + b2[2]) * c.tp + b2[1] * c.fn + b2[2] * c.fp)

(* wilson_lower(successes, n) >= m, solved for the root; 38415 / 10000 is  *)
(* the square of Z95.                                                      *)
wilson_at_least(successes, n, m) ==
  \/ m[1] = 0
  \/ /\ n > 0 /\ m[1] < m[2]
     /\ at_least(<<successes, n>>, m)
     /\ LET gap == successes * m[2] - m[1] * n
        IN gap * gap * 10000 >= 38415 * m[1] * (m[2] - m[1]) * n

meets(c, args) ==
  IF args.conservative
  THEN /\ wilson_at_least(c.tp, c.tp + c.fp, args.min_precision)
       /\ wilson_at_least(c.tp, c.tp + c.fn, args.min_recall)
  ELSE at_least(precision(c), args.min_precision) /\ at_least(recall(c), args.min_recall)

(* Mutation: midpoints only, so that no threshold flags every case.        *)
candidatesMidpoints(rows) ==
  LET u == {rows[i].s : i \in DOMAIN rows}
  IN {(p[1] + p[2]) \div 2 : p \in {q \in u \X u : q[1] < q[2] /\ \A c \in u : c <= q[1] \/ q[2] <= c}}

(* Midpoints between adjacent scores, and the lowest score                 *)
candidates(rows) ==
  LET u == {rows[i].s : i \in DOMAIN rows}
      lowest == {a \in u : \A b \in u : a <= b}
      next(a) == {b \in u : a < b /\ \A c \in u : c <= a \/ b <= c}
  IN lowest \cup {(p[1] + p[2]) \div 2 : p \in {q \in u \X u : q[2] \in next(q[1])}}

(* The first of the best thresholds that meet both minimums                *)
choose(rows, args) ==
  LET good == {t \in candidates(rows) : meets(counts(rows, t), args)}
      f(t) == f_beta(counts(rows, t), args.b2)
      best == {t \in good : \A u \in good : at_least(f(t), f(u))}
  IN IF good = {} THEN NoThreshold ELSE CHOOSE t \in best : \A u \in best : t <= u

(* The cases of each label, shuffled, are dealt to the folds in turn;      *)
(* shuffle[i] is the place of case i after the shuffle.                    *)
stratified_folds(rows, k, shuffle) ==
  LET before(i) == {j \in DOMAIN rows : rows[j].y = rows[i].y /\ shuffle[j] < shuffle[i]}
  IN [n \in 0 .. k - 1 |-> {i \in DOMAIN rows : Cardinality(before(i)) % k = n}]

heldout(rows, fold) == Restrict(rows, fold)

(* Mutation: a threshold is trained on all cases.                          *)
trainAll(rows, fold) == rows

train(rows, fold) == Restrict(rows, DOMAIN rows \ fold)

pooled(per_fold) ==
  FoldFunction(LAMBDA c, a : [tp |-> a.tp + c.tp, fp |-> a.fp + c.fp, fn |-> a.fn + c.fn],
               [tp |-> 0, fp |-> 0, fn |-> 0], per_fold)

(* Every fold is tested at the default and, if training on the others      *)
(* finds a threshold, at that; the shipped one is chosen on all rows.      *)
tune(rows, folds, args) ==
  LET t == [n \in DOMAIN folds |-> choose(train(rows, folds[n]), args)]
      tuned == {n \in DOMAIN folds : t[n] # NoThreshold}
      at(n, x) == counts(heldout(rows, folds[n]), x)
  IN [shipped |-> choose(rows, args),
      thresholds |-> t,
      tuned |-> pooled([n \in tuned |-> at(n, t[n])]),
      default |-> pooled([n \in DOMAIN folds |-> at(n, Half)]),
      failed |-> {n \in DOMAIN folds : t[n] = NoThreshold \/ ~meets(at(n, t[n]), args)}]

errors(cases, threshold) ==
  {i \in DOMAIN cases : (cases[i].s >= threshold) # (cases[i].y = 1)}

by_stratum(cases, threshold) ==
  [g \in {cases[i].stratum : i \in DOMAIN cases} |->
     counts(Restrict(cases, {i \in DOMAIN cases : cases[i].stratum = g}), threshold)]

in_split(cases, split) == Restrict(cases, {i \in DOMAIN cases : cases[i].split = split})

(* k = 0 stands for the error that dev has too few cases of a label.       *)
report(cases, args) ==
  LET dev == in_split(cases, "dev")
      test == in_split(cases, "test")
      positives == Cardinality({i \in DOMAIN dev : dev[i].y = 1})
      negatives == Cardinality(DOMAIN dev) - positives
      k == CHOOSE n \in {args.folds, positives, negatives} :
             n <= args.folds /\ n <= positives /\ n <= negatives
      folds == stratified_folds(dev, k, args.shuffle)
      result == tune(dev, folds, args)
      t == result.shipped
  IN IF k < 2 THEN [k |-> 0]
     ELSE [k |-> k, dev |-> dev, folds |-> folds, tuned |-> result,
           test_at_shipped |-> IF t = NoThreshold THEN <<>> ELSE <<counts(test, t)>>,
           strata |-> IF t = NoThreshold THEN <<>>
                      ELSE <<by_stratum(IF DOMAIN test # {} THEN test ELSE dev, t)>>,
           errors |-> IF t = NoThreshold THEN {} ELSE errors(dev, t),
           unsupported |-> t # NoThreshold /\ \E n \in DOMAIN folds : result.thresholds[n] = NoThreshold]
==============================================================================
