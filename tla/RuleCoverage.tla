----------------------------- MODULE RuleCoverage -----------------------------
(***************************************************************************)
(* validate_rule_coverage.py: does the ledger of a target prove every rule *)
(* of the catalog?  A row carries what its checks would find: `facts` are  *)
(* the statements about files and texts that are true of it, `canary` and  *)
(* `hook` how the commands end and whether their output has the diagnostic *)
(* of the row, `exit` how the recorded host query ended.                   *)
(***************************************************************************)
EXTENDS Naturals, Sequences, FiniteSets

Ends == {"exits 0", "fails", "does not end"}

Facts == {"implementation", "local", "ci", "configuration", "canary", "hook", "hostOutput",
          "hostStderr", "reason", "approval", "exclusion"}

(* schema_version and rules are right, no id twice, at least one           *)
rows(table) ==
  /\ table.schema
  /\ Len(table.rules) > 0
  /\ \A i, j \in 1 .. Len(table.rules) : table.rules[i].id = table.rules[j].id => i = j

ids(table) == {table.rules[i].id : i \in 1 .. Len(table.rules)}
row_of(table, id) == table.rules[CHOOSE i \in 1 .. Len(table.rules) : table.rules[i].id = id]

(* Each file exists inside the target, each runner names its marker.       *)
implemented_paths(row, evidence_kind) ==
  /\ {"implementation", "local"} \subseteq row.facts
  /\ evidence_kind = "local_ci" => "ci" \in row.facts

configuration(row) == "configuration" \in row.facts

(* Mutation: a violating fixture that does not end counts as rejected.     *)
canaryTimeout(row) ==
  /\ "canary" \in row.facts
  /\ row.canary.passing = "exits 0"
  /\ row.canary.violating # "exits 0"
  /\ row.canary.diagnostic

(* The compliant fixture passes, the violating one fails with the          *)
(* diagnostic, and both in time.                                           *)
canary(row) ==
  /\ "canary" \in row.facts
  /\ row.canary.passing = "exits 0"
  /\ row.canary.violating = "fails"
  /\ row.canary.diagnostic

(* Mutation: an installation check that says nothing counts.               *)
hookUnheard(row, structure_only) ==
  /\ "hook" \in row.facts
  /\ structure_only \/ row.hook.check = "exits 0"

(* The installation check is described; it is run, ends well and reports   *)
(* the diagnostic unless only the structure is checked.                    *)
hook_installation(row, structure_only) ==
  /\ "hook" \in row.facts
  /\ structure_only \/ (row.hook.check = "exits 0" /\ row.hook.diagnostic)

host_query(row, excluded) ==
  /\ excluded \/ row.exit = "exits 0"
  /\ "hostOutput" \in row.facts \/ (excluded /\ "hostStderr" \in row.facts)

check_excluded(contract, row) ==
  /\ contract.applicability = "conditional"
  /\ {"reason", "approval"} \subseteq row.facts
  /\ IF contract.evidence_kind = "host_query" THEN host_query(row, TRUE)
     ELSE "exclusion" \in row.facts

check_implemented(contract, row, structure_only) ==
  IF contract.evidence_kind = "host_query" THEN host_query(row, FALSE)
  ELSE /\ implemented_paths(row, contract.evidence_kind)
       /\ contract.evidence_kind = "git_hook" => hook_installation(row, structure_only)
       /\ contract.kind = "tool" => configuration(row)
       /\ IF structure_only THEN "canary" \in row.facts ELSE canary(row)

check_rule(contract, row, structure_only) ==
  /\ contract.evidence_kind \in {"local_ci", "git_hook", "host_query"}
  /\ row.evidence_kind = contract.evidence_kind
  /\ \/ row.status = "not_applicable" /\ check_excluded(contract, row)
     \/ row.status = "implemented" /\ check_implemented(contract, row, structure_only)

(* No rule missing, none unknown, none in error *)
validate(catalog, ledger, structure_only) ==
  /\ rows(catalog) /\ rows(ledger)
  /\ ids(catalog) = ids(ledger)
  /\ \A id \in ids(catalog) : check_rule(row_of(catalog, id), row_of(ledger, id), structure_only)

exclusions(ledger) == {i \in 1 .. Len(ledger.rules) : ledger.rules[i].status = "not_applicable"}

coverage(catalog, ledger, structure_only) ==
  IF ~validate(catalog, ledger, structure_only) THEN "FAIL"
  ELSE IF structure_only THEN "STRUCTURE_ONLY"
  ELSE IF exclusions(ledger) # {} THEN "PASS_WITH_APPROVED_EXCLUSIONS" ELSE "PASS"
=============================================================================
