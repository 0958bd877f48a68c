----------------------------- MODULE Scalability -----------------------------
(***************************************************************************)
(* check-python-scalability.py: the loops it reports as nested too deep    *)
(* (PYS250).  A syntax tree is made of nodes                               *)
(*   loop       a for, a while or one generator of a comprehension: what   *)
(*              is evaluated once before (iter), what is repeated (test,   *)
(*              target, conditions, body, the further generators and the   *)
(*              result) and what comes after (orelse)                      *)
(*   def        decorators and defaults before, annotations, body          *)
(*   lambda     defaults before, body                                      *)
(*   annotated  an assignment, with target and value before                *)
(*   other      its children before                                        *)
(* It maps the path of each node, the steps <<slot, index>> to it from the *)
(* root, to what it is and how many children it has in each slot.          *)
(***************************************************************************)
EXTENDS Integers, Sequences

CONSTANT MAX_LOOP_DEPTH

ASSUME DepthAssumption == MAX_LOOP_DEPTH \in Nat

(* A ScalabilityVisitor of the tree, whatever it has seen                  *)
Visitors(tree) == [loop_depth : Int, functions : Int, diagnostics : SUBSET DOMAIN tree]

(* visit maps a path and a visitor to the visitor that was there.          *)
visit_slot(slot, tree, path, visit, visitor) ==
  LET visited[i \in 0 .. tree[path][slot]] ==
        IF i = 0 THEN visitor ELSE visit[<<Append(path, <<slot, i>>), visited[i - 1]>>]
  IN visited[tree[path][slot]]

enter_loop(path, visitor) ==
  LET deeper == [visitor EXCEPT !.loop_depth = @ + 1]
  IN IF deeper.loop_depth > MAX_LOOP_DEPTH THEN [deeper EXCEPT !.diagnostics = @ \cup {path}] ELSE deeper

(* Mutation: orelse counts as part of the loop.                            *)
visit_loop_orelse(tree, path, visit, visitor) ==
  LET inside == visit_slot("body", tree, path, visit,
                           enter_loop(path, visit_slot("before", tree, path, visit, visitor)))
      left == visit_slot("after", tree, path, visit, inside)
  IN [left EXCEPT !.loop_depth = @ - 1]

visit_loop(tree, path, visit, visitor) ==
  LET inside == visit_slot("body", tree, path, visit,
                           enter_loop(path, visit_slot("before", tree, path, visit, visitor)))
      left == [inside EXCEPT !.loop_depth = @ - 1]
  IN visit_slot("after", tree, path, visit, left)

(* A body is called from elsewhere: it starts at depth 0.                  *)
visit_body(tree, path, visit, visitor) ==
  LET left == visit_slot("body", tree, path, visit, [visitor EXCEPT !.loop_depth = 0])
  IN [left EXCEPT !.loop_depth = visitor.loop_depth]

(* future: the file imports annotations from __future__                    *)
visit_function(tree, path, future, visit, visitor) ==
  LET before == visit_slot("before", tree, path, visit, visitor)
      annotated == IF future THEN before ELSE visit_slot("annotation", tree, path, visit, before)
      body == visit_body(tree, path, visit, [annotated EXCEPT !.functions = @ + 1])
  IN [body EXCEPT !.functions = @ - 1]

visit_AnnAssign(tree, path, future, visit, visitor) ==
  LET before == visit_slot("before", tree, path, visit, visitor)
  IN IF before.functions > 0 \/ future THEN before
     ELSE visit_slot("annotation", tree, path, visit, before)

visit_node(tree, path, future, visit, visitor) ==
  CASE tree[path].is = "loop" -> visit_loop(tree, path, visit, visitor)
    [] tree[path].is = "def" -> visit_function(tree, path, future, visit, visitor)
    [] tree[path].is = "lambda" ->
         visit_body(tree, path, visit, visit_slot("before", tree, path, visit, visitor))
    [] tree[path].is = "annotated" -> visit_AnnAssign(tree, path, future, visit, visitor)
    [] tree[path].is = "other" -> visit_slot("before", tree, path, visit, visitor)

diagnostics_for_file(tree, future) ==
  LET visit[x \in (DOMAIN tree) \X Visitors(tree)] == visit_node(tree, x[1], future, visit, x[2])
  IN visit[<<<<>>, [loop_depth |-> 0, functions |-> 0, diagnostics |-> {}]>>].diagnostics
==============================================================================
