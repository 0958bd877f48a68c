-------------------------------- MODULE Fanout --------------------------------
(***************************************************************************)
(* check-python-fanout.py: the first-party modules a Python file imports.  *)
(* Paths and dotted names are sequences of their parts; NoModule, the      *)
(* empty sequence, is the module of the file __init__.py of a source root. *)
(* An import node has                                                      *)
(*   is       "import" (one alias), "from" (one alias) or "dynamic", which *)
(*            is importlib.import_module                                   *)
(*   level    its leading dots                                             *)
(*   module   the name after the dots                                      *)
(*   alias    of "from", perhaps "*"                                       *)
(*   package  the literal second argument of "dynamic", or NoModule        *)
(***************************************************************************)
EXTENDS Integers, Sequences, FiniteSets, SequencesExt

CONSTANTS Stdlib   \* sys.stdlib_module_names

NoModule == <<>>

Prefix(s, n) == SubSeq(s, 1, n)

(* The deepest source root above a file names its module.                  *)
module_for_path(file, source_roots) ==
  LET above == {r \in source_roots : IsPrefix(r, file.dir)}
      root == CHOOSE r \in above : \A q \in above : Len(q) <= Len(r)
      rel == SubSeq(file.dir, Len(root) + 1, Len(file.dir))
  IN IF above = {} THEN [module |-> NoModule, is_package |-> FALSE]
     ELSE IF file.name = "__init__" THEN [module |-> rel, is_package |-> TRUE]
     ELSE [module |-> Append(rel, file.name), is_package |-> FALSE]

(* Every module, every package above one, every root package               *)
known_modules(files, source_roots, root_packages) ==
  LET modules == {module_for_path(f, source_roots).module : f \in files} \ {NoModule}
  IN modules \cup (UNION {{Prefix(m, n) : n \in 1 .. Len(m) - 1} : m \in modules})
             \cup {<<p>> : p \in root_packages}

is_first_party(module, root_packages) == module # <<>> /\ module[1] \in root_packages

normalise_known_module(module, root_packages, known) ==
  IF ~is_first_party(module, root_packages) THEN module
  ELSE LET ends == {n \in 1 .. Len(module) : Prefix(module, n) \in known}
       IN Prefix(module, CHOOSE n \in ends : \A k \in ends : k <= n)

(* Mutation: a package is taken for a module, so one dot leads above it.   *)
resolve_relative_import_module(current, node) ==
  LET package == Front(current.module)
      up == IF node.level - 1 > Len(package) THEN Len(package) ELSE node.level - 1
  IN IF node.level = 0 THEN node.module
     ELSE Prefix(package, Len(package) - up) \o node.module

resolve_relative_import(current, node) ==
  LET package == IF current.is_package THEN current.module ELSE Front(current.module)
      up == IF node.level - 1 > Len(package) THEN Len(package) ELSE node.level - 1
  IN IF node.level = 0 THEN node.module
     ELSE Prefix(package, Len(package) - up) \o node.module

resolve_relative_dynamic_import(node) ==
  Prefix(node.package, Len(node.package) - node.level + 1) \o node.module

imports_from_import_from(node, current, root_packages, known) ==
  LET module == resolve_relative_import(current, node)
      candidate == IF node.alias = "*" THEN module ELSE Append(module, node.alias)
  IN IF node.level > 0 /\ current.module = NoModule THEN {}
     ELSE IF ~is_first_party(module, root_packages) THEN {module}
     ELSE IF candidate \in known THEN {normalise_known_module(candidate, root_packages, known)}
     ELSE {normalise_known_module(module, root_packages, known)}

imports_from_node(node, current, root_packages, known) ==
  CASE node.is = "import" -> {normalise_known_module(node.module, root_packages, known)}
    [] node.is = "from" -> imports_from_import_from(node, current, root_packages, known)
    [] node.is = "dynamic" ->
         IF node.level = 0 THEN {normalise_known_module(node.module, root_packages, known)}
         ELSE IF node.level > Len(node.package) THEN {}
         ELSE {normalise_known_module(resolve_relative_dynamic_import(node), root_packages, known)}

imported_modules(nodes, current, root_packages, known) ==
  (UNION {imports_from_node(n, current, root_packages, known) : n \in nodes}) \ ({current.module} \ {NoModule})

architectural_dependencies(imports) == {m \in imports : m = <<>> \/ m[1] \notin Stdlib}

(* The dependencies of a file, and whether they are too many for its size  *)
analyse_fanout(file, nodes, nloc, files, source_roots, root_packages, limits) ==
  LET known == known_modules(files, source_roots, root_packages)
      current == module_for_path(file, source_roots)
      dependencies == architectural_dependencies(imported_modules(nodes, current, root_packages, known))
      count == Cardinality(dependencies)
  IN [dependencies |-> dependencies,
      fails |-> \/ count > limits.architectural_max
                \/ nloc > limits.large_module_nloc /\ count > limits.large_module_architectural_max]
===============================================================================
