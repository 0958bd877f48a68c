------------------------------ MODULE Programs ------------------------------
(***************************************************************************)
(* Five programs of the repository that compute a value from one input and *)
(* keep nothing: the scoring of review trials, the validation of guardrail *)
(* coverage, the tuning of thresholds, and the checks of Python's imports  *)
(* and of its nested loops.                                                *)
(* A behaviour is one call: Init picks program and input, a step runs it.  *)
(***************************************************************************)
EXTENDS Scoring, RuleCoverage, Threshold, Fanout, Scalability

CONSTANTS ScoreInputs,      \* [defects, findings]
          CoverageInputs,   \* [catalog, ledger, structure_only]
          TuneInputs,       \* [table, args]
          FanoutInputs,     \* [file, node, files, source_roots, root_packages, name]
          NestingInputs     \* [tree, future]

VARIABLES program, input, output

vars == <<program, input, output>>

NotRun == <<>>

Init ==
  /\ \/ program = "analyze" /\ input \in ScoreInputs
     \/ program = "validate_rule_coverage" /\ input \in CoverageInputs
     \/ program = "tune_threshold" /\ input \in TuneInputs
     \/ program = "check-python-fanout" /\ input \in FanoutInputs
     \/ program = "check-python-scalability" /\ input \in NestingInputs
  /\ output = NotRun

Runs(p, result) ==
  /\ program = p /\ output = NotRun
  /\ output' = <<result>>
  /\ UNCHANGED <<program, input>>

Score ==
  Runs("analyze", [detected |-> score(input.defects, input.findings, FALSE),
                   any |-> score(input.defects, input.findings, TRUE),
                   unmatched |-> unmatched(input.defects, input.findings)])

Cover == Runs("validate_rule_coverage", coverage(input.catalog, input.ledger, input.structure_only))

Tune ==
  Runs("tune_threshold",
       LET groups == parse(input.table) IN [g \in DOMAIN groups |-> report(groups[g], input.args)])

FanOut ==
  Runs("check-python-fanout",
       analyse_fanout(input.file, {input.node}, input.nloc, input.files, input.source_roots,
                      input.root_packages, input.limits))

Nesting == Runs("check-python-scalability", diagnostics_for_file(input.tree, input.future))

Next == Score \/ Cover \/ Tune \/ FanOut \/ Nesting

Spec == Init /\ [][Next]_vars

Ran(p) == program = p /\ output # NotRun
result == output[1]

-----------------------------------------------------------------------------
(* Properties *)

(* score: no finding that is left over could still credit a defect that    *)
(* was not detected, and no finding credits two.  The sensitivity check    *)
(* with minor findings never detects less, though a minor finding may take *)
(* the defect of a blocking one.                                           *)
ScoreIsMaximal ==
  Ran("analyze") =>
    LET fs == input.findings
        found == DOMAIN result.detected
    IN /\ \A d, e \in found : result.detected[d] = result.detected[e] => d = e
       /\ \A d \in found : credits(fs[result.detected[d]], input.defects[d])
       /\ \A i \in result.unmatched, d \in DOMAIN input.defects \ found :
            ~credits(fs[i], input.defects[d])
       /\ found \subseteq DOMAIN result.any

(* A ledger that passes proves each rule of the catalog by evidence of the *)
(* kind the rule asks for: a violating fixture that the configured tool    *)
(* rejects with its diagnostic, beside the CI or an installed hook that    *)
(* reports its own; the host; or an exclusion of a conditional rule that   *)
(* the user approved.  What passes would have passed the check of its      *)
(* structure before the rules were applied.                                *)
CoverageProves ==
  Ran("validate_rule_coverage") /\ result \in {"PASS", "PASS_WITH_APPROVED_EXCLUSIONS"} =>
    LET rule(i) == input.catalog.rules[i]
        rowsOf(i) == {j \in 1 .. Len(input.ledger.rules) : input.ledger.rules[j].id = rule(i).id}
        rejects(row) ==
          row.canary.violating = "fails" /\ row.canary.passing = "exits 0" /\ row.canary.diagnostic
        enforced(i, row) ==
          /\ row.status = "implemented"
          /\ \/ row.evidence_kind = "host_query" /\ row.exit = "exits 0"
             \/ row.evidence_kind = "local_ci" /\ rejects(row) /\ "ci" \in row.facts
             \/ /\ row.evidence_kind = "git_hook" /\ rejects(row)
                /\ row.hook.check = "exits 0" /\ row.hook.diagnostic
          /\ rule(i).kind = "tool" /\ row.evidence_kind # "host_query" => "configuration" \in row.facts
        waived(i, row) ==
          result # "PASS" /\ rule(i).applicability = "conditional" /\ "approval" \in row.facts
    IN /\ \A i \in 1 .. Len(input.catalog.rules) :
            /\ Cardinality(rowsOf(i)) = 1
            /\ \A j \in rowsOf(i) :
                 LET row == input.ledger.rules[j]
                 IN /\ row.evidence_kind = rule(i).evidence_kind
                    /\ enforced(i, row) \/ waived(i, row)
       /\ coverage(input.catalog, input.ledger, TRUE) = "STRUCTURE_ONLY"

(* The shipped threshold meets the minimums, no threshold at all that does *)
(* has a better F-beta on dev, and without a shipped one none does.        *)
ShippedIsBest ==
  Ran("tune_threshold") =>
    \A g \in {g \in DOMAIN result : result[g].k > 0} :
      LET r == result[g]
          at(t) == counts(r.dev, t)
          every == 0 .. 1 + CHOOSE m \in {r.dev[i].s : i \in DOMAIN r.dev} :
                              \A i \in DOMAIN r.dev : r.dev[i].s <= m
          qualified == {t \in every : meets(at(t), input.args)}
          shipped == r.tuned.shipped
      IN IF shipped = NoThreshold THEN qualified = {}
         ELSE /\ meets(at(shipped), input.args)
              /\ \A t \in qualified : at_least(f_beta(at(shipped), input.args.b2), f_beta(at(t), input.args.b2))
              /\ Cardinality(r.errors) = at(shipped).fp + at(shipped).fn

(* What is tested was not trained on: test cases and other models do not   *)
(* change a threshold, the labels held out of a fold do not change its     *)
(* threshold, each dev case is held out once, and each fold trains and is  *)
(* tested on both labels.                                                  *)
HoldoutIsSeparate ==
  Ran("tune_threshold") =>
    \A g \in {g \in DOMAIN result : result[g].k > 0} :
      LET r == result[g]
          flipped(n) == [i \in DOMAIN r.dev |->
                           IF i \in r.folds[n] THEN [r.dev[i] EXCEPT !.y = 1 - @] ELSE r.dev[i]]
          labels(S) == {r.dev[i].y : i \in S}
          all == DOMAIN r.dev
      IN /\ report(r.dev, input.args).tuned = r.tuned
         /\ \A n \in DOMAIN r.folds :
              /\ tune(flipped(n), r.folds, input.args).thresholds[n] = r.tuned.thresholds[n]
              /\ labels(r.folds[n]) = {0, 1} /\ labels(all \ r.folds[n]) = {0, 1}
         /\ \A i \in all : Cardinality({n \in DOMAIN r.folds : i \in r.folds[n]}) = 1

(* However a first-party name is imported, absolutely, with leading dots   *)
(* or by importlib, the file depends on the longest known module in it.    *)
EdgesAreImports ==
  Ran("check-python-fanout") =>
    LET known == known_modules(input.files, input.source_roots, input.root_packages)
        self == module_for_path(input.file, input.source_roots).module
        inside == {m \in known : IsPrefix(m, input.name)}
        owner == CHOOSE m \in inside : \A n \in inside : Len(n) <= Len(m)
    IN result.dependencies = {owner} \ {self}

(* After k steps, path p goes into the body of a node of one of kinds.     *)
Within(tree, p, k, kinds) == k < Len(p) /\ tree[Prefix(p, k)].is \in kinds /\ p[k + 1][1] = "body"

(* The loops in which p is repeated within one call                        *)
Around(tree, p) ==
  {k \in 0 .. Len(p) : /\ Within(tree, p, k, {"loop"})
                       /\ \A c \in 0 .. Len(p) : Within(tree, p, c, {"def", "lambda"}) => c < k}

InFunction(tree, p) == \E c \in 0 .. Len(p) : Within(tree, p, c, {"def"})

(* With future no annotation is evaluated, and without it none of a        *)
(* variable in a function.                                                 *)
Evaluated(tree, future, p) ==
  \A k \in 0 .. Len(p) - 1 : p[k + 1][1] = "annotation" =>
    /\ ~future
    /\ tree[Prefix(p, k)].is = "annotated" => ~InFunction(tree, Prefix(p, k))

(* A loop is reported if and only if it is repeated within MAX_LOOP_DEPTH  *)
(* loops or more of the same call, itself included: whatever was visited   *)
(* before it, loops around a def or a lambda do not count, nor does a loop *)
(* for its iterable or its else, and what is never evaluated is not read.  *)
NestingIsCounted ==
  Ran("check-python-scalability") =>
    result = {p \in DOMAIN input.tree :
                /\ input.tree[p].is = "loop" /\ Evaluated(input.tree, input.future, p)
                /\ Cardinality(Around(input.tree, p)) >= MAX_LOOP_DEPTH}
=============================================================================
