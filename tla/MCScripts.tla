------------------------------ MODULE MCScripts ------------------------------
(* Small inputs of the five programs, in which every branch is taken.       *)
EXTENDS Programs

(* Two defects whose windows overlap at line 4, in one file or in two of    *)
(* which one path ends like the other; up to three findings.                *)
MCScoreInputs ==
  LET span(f, a, b, st) == [file |-> f, start |-> a, end |-> b, steps |-> st]
      findings == [severity : {"blocking", "minor"}, file : {<<"a">>, <<"b", "a">>},
                   line : {NoLine, 2, 4, 6}, step : {NoLine, 2}]
  IN [defects : {<<span(<<"a">>, 2, 3, {1}), span(f, 5, 5, {1, 2})>> : f \in {<<"a">>, <<"b", "a">>}},
      findings : UNION {[1 .. n -> findings] : n \in 0 .. 3}]

(* One rule of every kind beside a host rule; a row in which at most one    *)
(* fact and one command is not as it should be; five defects of a ledger.   *)
MCCoverageInputs ==
  LET rule == [id : {"r"}, kind : {"tool", "other"}, applicability : {"always", "conditional"},
               evidence_kind : {"local_ci", "git_hook", "host_query"}]
      host == [id |-> "h", kind |-> "other", applicability |-> "always", evidence_kind |-> "host_query"]
      right == [id |-> "r", status |-> "implemented", evidence_kind |-> "local_ci", facts |-> Facts,
                canary |-> [passing |-> "exits 0", violating |-> "fails", diagnostic |-> TRUE],
                hook |-> [check |-> "exits 0", diagnostic |-> TRUE], exit |-> "exits 0"]
      hostRow == [right EXCEPT !.id = "h", !.evidence_kind = "host_query"]
      lapses == {right} \cup {[right EXCEPT !.canary.passing = e] : e \in Ends}
                \cup {[right EXCEPT !.canary.violating = e] : e \in Ends}
                \cup {[right EXCEPT !.canary.diagnostic = FALSE]}
                \cup {[right EXCEPT !.hook.check = e] : e \in Ends}
                \cup {[right EXCEPT !.hook.diagnostic = FALSE]}
                \cup {[right EXCEPT !.exit = e] : e \in Ends}
      facts == {Facts \ S : S \in {{}} \cup {{f} : f \in Facts}}
      row == {[[r EXCEPT !.facts = F] EXCEPT !.status = s, !.evidence_kind = k] : r \in lapses, F \in facts,
                s \in {"implemented", "not_applicable", "planned"}, k \in {"local_ci", "git_hook", "host_query"}}
      table(s, rs) == [schema |-> s, rules |-> rs]
      ledgers(r) == {table(TRUE, <<r, hostRow>>)} \cup
                    IF r.facts # Facts THEN {}
                    ELSE {table(FALSE, <<r, hostRow>>), table(TRUE, <<r>>), table(TRUE, <<r, r, hostRow>>),
                          table(TRUE, <<r, hostRow, [r EXCEPT !.id = "x"]>>), table(TRUE, <<>>)}
  IN UNION {[catalog : {table(TRUE, <<c, host>>)}, structure_only : BOOLEAN,
             ledger : UNION {ledgers(r) : r \in row}] : c \in rule}

(* Two negative and three positive dev cases, or three of each, perhaps a   *)
(* test case or a case of another model; scores in tenths of 0.1 .. 0.9.    *)
MCTuneInputs ==
  LET case(y, s, split, g) == [y |-> y, s |-> s, split |-> split, stratum |-> IF s > 4 THEN "high" ELSE "low", group |-> g]
      dev(ys, ss) == [i \in 1 .. Len(ys) |-> case(ys[i], ss[i], "dev", "m")]
      small == {dev(<<0, 1, 0, 1, 1>>, ss) : ss \in [1 .. 5 -> {2, 4, 6}]}
      large == {dev(<<0, 0, 0, 1, 1, 1>>, ss) : ss \in [1 .. 6 -> {2, 6}]}
      more == {<<>>} \cup {<<case(y, s, "test", "m")>> : y \in {0, 1}, s \in {2, 6}}
                     \cup {<<case(y, 2, "dev", "n")>> : y \in {0, 1}}
      args == [min_precision : {<<0, 1>>, <<1, 2>>, <<1, 1>>}, min_recall : {<<0, 1>>, <<2, 3>>},
               conservative : {FALSE}, b2 : {<<1, 4>>, <<4, 1>>}, folds : {3}]
              \cup [min_precision : {<<1, 5>>, <<1, 3>>}, min_recall : {<<1, 5>>},
                    conservative : {TRUE}, b2 : {<<1, 1>>}, folds : {5}]
      with(a, shuffle) == [shuffle |-> shuffle] @@ a
  IN {[table |-> d \o m, args |-> with(a, <<4, 2, 3, 5, 1, 6>>)] : d \in small, m \in more, a \in args}
     \cup {[table |-> d, args |-> with(a, <<1, 4, 2, 6, 5, 3>>)] : d \in large, a \in args}

(* Three layouts: a flat one, one under src and one with nested roots; each *)
(* name of up to three parts in each of its spellings.                      *)
MCFanoutInputs ==
  LET file(d, n) == [dir |-> d, name |-> n]
      layout(root) == {file(root \o <<"p">>, "__init__"), file(root \o <<"p">>, "q"), file(root, "q"),
                       file(root \o <<"p", "p">>, "__init__"), file(root \o <<"p", "p">>, "q")}
      layouts == {[files |-> layout(<<>>), roots |-> {<<>>}], [files |-> layout(<<"src">>), roots |-> {<<"src">>}],
                  [files |-> layout(<<>>) \cup layout(<<"src">>), roots |-> {<<>>, <<"src">>}]}
      names == {n \in UNION {[1 .. k -> {"p", "q"}] : k \in 1 .. 3} : n[1] = "p"}
      node(is, l, m, a, p) == [is |-> is, level |-> l, module |-> m, alias |-> a, package |-> p]
      rest(n, k) == SubSeq(n, k + 1, Len(n))
      \* from m import a, where m . a is the name
      froms(l, m) == {node("from", l, m, "*", <<>>)} \cup
                     (IF m = <<>> THEN {} ELSE {node("from", l, Front(m), Last(m), <<>>)})
      package(f, roots) == LET c == module_for_path(f, roots)
                           IN IF c.is_package THEN c.module ELSE Front(c.module)
      spellings(f, roots, n) ==
        {node("import", 0, n, "*", <<>>), node("dynamic", 0, n, "*", <<>>)}
        \cup {x \in froms(0, n) : x.module # <<>>}
        \cup UNION {LET p == package(f, roots)
                        level == Len(p) - k + 1
                    IN IF k > Len(p) \/ Prefix(p, k) # Prefix(n, k) THEN {}
                       ELSE froms(level, rest(n, k)) \cup {node("dynamic", level, rest(n, k), "*", p)}
                    : k \in 1 .. Len(n)}
      inputs(L, f, n) == [file : {f}, files : {L.files}, source_roots : {L.roots}, root_packages : {{"p"}},
                          nloc : {1}, limits : {[architectural_max |-> 10, large_module_nloc |-> 800,
                                                 large_module_architectural_max |-> 3]},
                          name : {n}, node : spellings(f, L.roots, n)]
  IN UNION {UNION {UNION {inputs(L, f, n) : n \in names} : f \in L.files} : L \in layouts}

(* Syntax trees of height 3; of two children one is a loop.  A node and its *)
(* children, trees in their slots, make a tree.                             *)
MCNestingInputs ==
  LET slots == {"before", "body", "after", "annotation"}
      node(is, kids) ==
        LET steps == UNION {{<<s, i>> : i \in 1 .. Len(kids[s])} : s \in DOMAIN kids}
            child(step) == kids[step[1]][step[2]]
            paths == {<<>>} \cup UNION {{<<step>> \o p : p \in DOMAIN child(step)} : step \in steps}
        IN [p \in paths |->
              IF p = <<>> THEN [is |-> is] @@ [s \in slots |-> IF s \in DOMAIN kids THEN Len(kids[s]) ELSE 0]
              ELSE child(p[1])[Tail(p)]]
      pairs(A, B) == {<<a, b>> : a \in A, b \in B} \cup {<<b, a>> : a \in A, b \in B}
      loops == {node("loop", [before |-> <<>>])}
      height0 == loops \cup {node("other", [before |-> <<>>])}
      above(A, B) ==
        UNION {{node("loop", [before |-> <<q[1]>>, body |-> <<q[2]>>]), node("loop", [body |-> <<q[1]>>, after |-> <<q[2]>>]),
                node("def", [before |-> <<q[1]>>, body |-> <<q[2]>>]), node("def", [body |-> <<q[1]>>, annotation |-> <<q[2]>>]),
                node("lambda", [before |-> <<q[1]>>, body |-> <<q[2]>>]),
                node("annotated", [before |-> <<q[1]>>, annotation |-> <<q[2]>>]),
                node("other", [before |-> q])} : q \in pairs(A, B)}
      height1 == above(height0, height0)
      height2 == above(height1, loops)
      height3 == above(height2, loops)
  IN [tree : height3, future : BOOLEAN]
==============================================================================
