--------------------------- MODULE Programs_proofs ---------------------------
(***************************************************************************)
(* Proofs about Programs, for inputs of any size.                          *)
(***************************************************************************)
EXTENDS Programs, FiniteSetTheorems, SequenceTheorems, WellFoundedInduction, TLAPS

---------------------------------------------------------------------------
(* Induction *)

(* A nonempty set of numbers has a least element.                          *)
LEMMA LeastNumber ==
  ASSUME NEW S \in SUBSET Nat, S # {}
  PROVE  \E x \in S : \A y \in S : x <= y
<1> DEFINE R == OpToRel(<, Nat)
<1>1. IsWellFoundedOn(R, Nat)
  BY NatLessThanWellFounded
<1>2. \A x, y \in Nat : x < y => <<x, y>> \in R
  BY DEF OpToRel
<1> HIDE DEF R
<1>3. PICK x \in S : \A y \in S : ~ (<<y, x>> \in R)
  BY <1>1, WFMin
<1>4. ASSUME NEW y \in S PROVE x <= y
  <2>1. ~ (y < x)
    BY <1>2, <1>3
  <2> QED
    BY <2>1
<1> QED
  BY <1>4

(* Induction up to N, about a set of numbers instead of a predicate        *)
LEMMA Induction ==
  ASSUME NEW N \in Nat, NEW T \in SUBSET (0 .. N), 0 \in T,
         \A n \in 1 .. N : n - 1 \in T => n \in T
  PROVE  T = 0 .. N
<1> DEFINE others == (0 .. N) \ T
<1> SUFFICES ASSUME others # {} PROVE FALSE
  OBVIOUS
<1>1. PICK c \in others : \A d \in others : c <= d
  <2>1. others \in SUBSET Nat
    OBVIOUS
  <2> HIDE DEF others
  <2> QED
    BY <2>1, LeastNumber
<1>2. c \in 1 .. N /\ c - 1 \in 0 .. N /\ ~ (c <= c - 1)
  BY <1>1
<1>3. c - 1 \in T
  BY <1>1, <1>2
<1> QED
  BY <1>2, <1>3

(* A loop of N turns has its values: one step after the other, from a on.  *)
Iterated(N, S, a, step) ==
  \E g \in [0 .. N -> S] : g[0] = a /\ \A n \in 1 .. N : g[n] = step[<<g[n - 1], n>>]

LEMMA Iterates ==
  ASSUME NEW N \in Nat, NEW S, NEW a \in S, NEW step \in [S \X (1 .. N) -> S]
  PROVE  Iterated(N, S, a, step)
<1> DEFINE Turns(m, g) == g[0] = a /\ \A n \in 1 .. m : g[n] = step[<<g[n - 1], n>>]
           T == {m \in 0 .. N : \E g \in [0 .. m -> S] : Turns(m, g)}
<1>1. 0 \in T
  <2> DEFINE g == [n \in 0 .. 0 |-> a]
  <2>1. g \in [0 .. 0 -> S] /\ Turns(0, g)
    OBVIOUS
  <2>2. 0 \in 0 .. N
    OBVIOUS
  <2> HIDE DEF g, Turns
  <2> QED
    BY <2>1, <2>2
<1>2. ASSUME NEW m \in 1 .. N, m - 1 \in T PROVE m \in T
  <2>1. PICK g \in [0 .. m - 1 -> S] : Turns(m - 1, g)
    BY <1>2
  <2> DEFINE h == [n \in 0 .. m |-> IF n = m THEN step[<<g[m - 1], m>>] ELSE g[n]]
  <2>2. step[<<g[m - 1], m>>] \in S
    BY <2>1
  <2>3. h \in [0 .. m -> S]
    BY <2>1, <2>2
  <2>4. ASSUME NEW n \in 1 .. m PROVE h[n] = step[<<h[n - 1], n>>]
    <3>1. CASE n = m
      BY <2>1, <3>1
    <3>2. CASE n # m
      <4>1. n \in 1 .. m - 1 /\ n - 1 \in 0 .. m - 1 /\ n - 1 # m
        BY <3>2
      <4>2. h[n] = g[n] /\ h[n - 1] = g[n - 1]
        BY <4>1, <3>2
      <4> QED
        BY <2>1, <4>1, <4>2
    <3> QED
      BY <3>1, <3>2
  <2>5. h[0] = a
    BY <2>1
  <2> HIDE DEF h
  <2> QED
    BY <2>3, <2>4, <2>5
<1>3. T = 0 .. N
  <2> HIDE DEF T
  <2> QED
    BY <1>1, <1>2, Induction DEF T
<1> QED
  BY <1>3 DEF Iterated

---------------------------------------------------------------------------
(* Calls *)

LEMMA Singletons == \A x, y : <<x>> # NotRun /\ <<x>>[1] = x
BY DEF NotRun

(* A call of a program keeps what held of its input, and puts its result   *)
(* out.                                                                    *)
OneCall ==
  /\ program = "analyze" =>
       /\ input \in ScoreInputs
       /\ output # NotRun =>
            result = [detected |-> score(input.defects, input.findings, FALSE),
                      any |-> score(input.defects, input.findings, TRUE),
                      unmatched |-> unmatched(input.defects, input.findings)]
  /\ program = "validate_rule_coverage" =>
       /\ input \in CoverageInputs
       /\ output # NotRun =>
            result = coverage(input.catalog, input.ledger, input.structure_only)
  /\ program = "tune_threshold" =>
       /\ input \in TuneInputs
       /\ output # NotRun =>
            result = LET groups == parse(input.table)
                     IN [g \in DOMAIN groups |-> report(groups[g], input.args)]
  /\ program = "check-python-fanout" =>
       /\ input \in FanoutInputs
       /\ output # NotRun =>
            result = analyse_fanout(input.file, {input.node}, input.nloc, input.files,
                                    input.source_roots, input.root_packages, input.limits)
  /\ program = "check-python-scalability" =>
       /\ input \in NestingInputs
       /\ output # NotRun => result = diagnostics_for_file(input.tree, input.future)

LEMMA CallsKeepInputs == Spec => []OneCall
<1>1. Init => OneCall
  BY DEF Init, OneCall
<1>2. OneCall /\ [Next]_vars => OneCall'
  BY Singletons DEF OneCall, Next, Score, Cover, Tune, FanOut, Nesting, Runs, vars, result
<1> QED
  BY <1>1, <1>2, PTL DEF Spec

---------------------------------------------------------------------------
(* analyze.py: the crediting of findings *)

(* A record whose defects have numbers and spans of lines, and whose       *)
(* findings have a line, NoLine included.                                  *)
Located(defects, findings) ==
  /\ DOMAIN defects \subseteq Nat
  /\ \A d \in DOMAIN defects : defects[d].start \in Nat /\ defects[d].end \in Nat
  /\ Len(findings) \in Nat
  /\ \A i \in 1 .. Len(findings) : findings[i].line \in Int

(* Of some candidates one is the nearest: the comparison is a total order  *)
(* whose every set has a least element.                                    *)
Key(f, defects, d) == <<distance(f, defects[d]), defects[d].start, d>>
Before(a, b) ==
  \/ a[1] < b[1]
  \/ a[1] = b[1] /\ a[2] < b[2]
  \/ a[1] = b[1] /\ a[2] = b[2] /\ a[3] <= b[3]

LEMMA DistanceIsNumber ==
  ASSUME NEW ds, NEW fs, Located(ds, fs), NEW i \in 1 .. Len(fs), NEW d \in DOMAIN ds
  PROVE  distance(fs[i], ds[d]) \in Nat
<1>1. ds[d].start \in Nat /\ ds[d].end \in Nat /\ fs[i].line \in Int
  BY DEF Located
<1>2. \A l \in Int, s, e \in Nat : 2 * l - (s + e) \in Int
  OBVIOUS
<1> QED
  BY <1>1, <1>2 DEF distance

LEMMA NearestIsCandidate ==
  ASSUME NEW ds, NEW fs, Located(ds, fs), NEW i \in 1 .. Len(fs),
         NEW C \in SUBSET DOMAIN ds, C # {}
  PROVE  /\ nearest(fs[i], ds, C) \in C
         /\ \A e \in C : Before(Key(fs[i], ds, nearest(fs[i], ds, C)), Key(fs[i], ds, e))
<1> DEFINE far(d) == distance(fs[i], ds[d])
           start(d) == ds[d].start
<1>1. \A d \in C : far(d) \in Nat /\ start(d) \in Nat /\ d \in Nat
  BY DistanceIsNumber DEF Located
<1> HIDE DEF far, start
<1>2. PICK a \in {far(d) : d \in C} : \A b \in {far(d) : d \in C} : a <= b
  <2> DEFINE S == {far(d) : d \in C}
  <2>1. S \in SUBSET Nat /\ S # {}
    BY <1>1
  <2> HIDE DEF S
  <2>2. \E a \in S : \A b \in S : a <= b
    BY <2>1, LeastNumber
  <2> QED
    BY <2>2 DEF S
<1> DEFINE C1 == {d \in C : far(d) = a}
<1>3. PICK b \in {start(d) : d \in C1} : \A x \in {start(d) : d \in C1} : b <= x
  <2> DEFINE S == {start(d) : d \in C1}
  <2>1. S \in SUBSET Nat /\ S # {}
    BY <1>1, <1>2
  <2> HIDE DEF S
  <2>2. \E b \in S : \A x \in S : b <= x
    BY <2>1, LeastNumber
  <2> QED
    BY <2>2 DEF S
<1> DEFINE C2 == {d \in C1 : start(d) = b}
<1>4. PICK c \in C2 : \A d \in C2 : c <= d
  <2>1. C2 \in SUBSET Nat /\ C2 # {}
    BY <1>1, <1>3
  <2> HIDE DEF C2
  <2> QED
    BY <2>1, LeastNumber
<1>5. ASSUME NEW e \in C
      PROVE  \/ far(c) < far(e)
             \/ far(c) = far(e) /\ start(c) < start(e)
             \/ far(c) = far(e) /\ start(c) = start(e) /\ c <= e
  <2>1. far(c) = a /\ start(c) = b /\ a <= far(e)
    BY <1>2, <1>4
  <2>2. far(e) = a => b <= start(e)
    BY <1>3
  <2>3. far(e) = a /\ start(e) = b => c <= e
    BY <1>4
  <2> QED
    BY <1>1, <2>1, <2>2, <2>3
<1>6. c \in C /\ \A e \in C : Before(Key(fs[i], ds, c), Key(fs[i], ds, e))
  BY <1>4, <1>5 DEF Before, Key, far, start
<1>7. nearest(fs[i], ds, C) = CHOOSE d \in C : \A e \in C : Before(Key(fs[i], ds, d), Key(fs[i], ds, e))
  BY DEF nearest, Before, Key
<1> QED
  BY <1>6, <1>7

(* What may have been detected after some of N findings                    *)
Found(defects, N) == UNION {[E -> 1 .. N] : E \in SUBSET DOMAIN defects}

Left(f, defects, detected) == {d \in DOMAIN defects \ DOMAIN detected : credits(f, defects[d])}

(* A turn changes g to h: with d, or with nothing that is left             *)
Takes(f, defects, i, g, h) ==
  LET left == Left(f, defects, g)
      d == nearest(f, defects, left)
  IN IF left = {} THEN h = g
     ELSE d \in left /\ h = [e \in DOMAIN g \cup {d} |-> IF e = d THEN i ELSE g[e]]

LEMMA TakeOne ==
  ASSUME NEW ds, NEW fs, Located(ds, fs), NEW i \in 1 .. Len(fs), NEW g \in Found(ds, Len(fs))
  PROVE  /\ Takes(fs[i], ds, i, g, take(ds, g, i, fs[i]))
         /\ take(ds, g, i, fs[i]) \in Found(ds, Len(fs))
<1> DEFINE left == Left(fs[i], ds, g)
           d == nearest(fs[i], ds, left)
           h == [e \in DOMAIN g \cup {d} |-> IF e = d THEN i ELSE g[e]]
<1>1. left \subseteq DOMAIN ds
  BY DEF Left
<1>2. take(ds, g, i, fs[i]) = IF left = {} THEN g ELSE h
  BY DEF take, Left
<1> HIDE DEF left
<1>3. left # {} => d \in left
  BY <1>1, NearestIsCandidate
<1>4. PICK E \in SUBSET DOMAIN ds : g \in [E -> 1 .. Len(fs)]
  BY DEF Found
<1>5. ASSUME left # {} PROVE h \in Found(ds, Len(fs))
  <2>1. d \in DOMAIN ds
    BY <1>1, <1>3, <1>5
  <2> HIDE DEF d
  <2>2. h \in [E \cup {d} -> 1 .. Len(fs)]
    BY <1>4
  <2>3. E \cup {d} \in SUBSET DOMAIN ds
    BY <2>1
  <2> HIDE DEF h
  <2> QED
    BY <2>2, <2>3 DEF Found
<1> HIDE DEF d, h
<1> QED
  BY <1>2, <1>3, <1>5 DEF left, d, h, Takes

(* The loop runs: it starts with nothing, and each turn is one of take for *)
(* a finding that counts.                                                  *)
Loops(ds, fs, any, D) ==
  /\ D \in [0 .. Len(fs) -> Found(ds, Len(fs))]
  /\ D[0] = <<>>
  /\ \A n \in 1 .. Len(fs) :
       D[n] = IF n \in reported(fs, any) THEN take(ds, D[n - 1], n, fs[n]) ELSE D[n - 1]

LEMMA DetectionsStep ==
  ASSUME NEW ds, NEW fs, Located(ds, fs), NEW any
  PROVE  Loops(ds, fs, any, detections(ds, fs, any))
<1> DEFINE N == Len(fs)
           S == Found(ds, N)
           R == reported(fs, any)
           Loop(d) == d = [n \in 0 .. N |-> IF n = 0 THEN <<>>
                                            ELSE IF n \in R THEN take(ds, d[n - 1], n, fs[n]) ELSE d[n - 1]]
           step == [x \in S \X (1 .. N) |-> IF x[2] \in R THEN take(ds, x[1], x[2], fs[x[2]]) ELSE x[1]]
<1>1. N \in Nat /\ <<>> \in S
  <2>1. <<>> \in [{} -> 1 .. N]
    OBVIOUS
  <2>2. {} \in SUBSET DOMAIN ds
    OBVIOUS
  <2> QED
    BY <2>1, <2>2 DEF Located, Found
<1>2. detections(ds, fs, any) = CHOOSE d : Loop(d)
  BY Zenon DEF detections
<1>3. step \in [S \X (1 .. N) -> S]
  <2>1. \A g \in S, n \in 1 .. N : take(ds, g, n, fs[n]) \in S
    BY TakeOne
  <2> HIDE DEF S, R
  <2> QED
    BY <2>1
<1>4. PICK g \in [0 .. N -> S] : g[0] = <<>> /\ \A n \in 1 .. N : g[n] = step[<<g[n - 1], n>>]
  <2> HIDE DEF N, S, R, step
  <2>1. Iterated(N, S, <<>>, step)
    BY <1>1, <1>3, Iterates
  <2> QED
    BY <2>1 DEF Iterated
<1> HIDE DEF S, R
<1>5. \A n \in 1 .. N : g[n] = IF n \in R THEN take(ds, g[n - 1], n, fs[n]) ELSE g[n - 1]
  <2> SUFFICES ASSUME NEW n \in 1 .. N
               PROVE  g[n] = IF n \in R THEN take(ds, g[n - 1], n, fs[n]) ELSE g[n - 1]
    OBVIOUS
  <2>1. g[n - 1] \in S
    BY <1>1, <1>4
  <2> QED
    BY <1>4, <2>1
<1>6. Loop(g)
  <2>1. \A n \in 0 .. N : n = 0 \/ n \in 1 .. N
    BY <1>1
  <2> QED
    BY <1>4, <1>5, <2>1
<1>7. \A d : Loop(d) => /\ DOMAIN d = 0 .. N /\ d[0] = <<>>
                        /\ \A n \in 1 .. N : d[n] = IF n \in R THEN take(ds, d[n - 1], n, fs[n]) ELSE d[n - 1]
  <2> SUFFICES ASSUME NEW d, Loop(d)
               PROVE  /\ DOMAIN d = 0 .. N /\ d[0] = <<>>
                      /\ \A n \in 1 .. N : d[n] = IF n \in R THEN take(ds, d[n - 1], n, fs[n]) ELSE d[n - 1]
    OBVIOUS
  <2> DEFINE body(n) == IF n = 0 THEN <<>>
                        ELSE IF n \in R THEN take(ds, d[n - 1], n, fs[n]) ELSE d[n - 1]
  <2>1. d = [n \in 0 .. N |-> body(n)]
    OBVIOUS
  <2>2. body(0) = <<>>
    OBVIOUS
  <2>3. \A n \in 1 .. N : n \in 0 .. N
           /\ body(n) = IF n \in R THEN take(ds, d[n - 1], n, fs[n]) ELSE d[n - 1]
    BY <1>1
  <2> HIDE DEF body, Loop
  <2>4. DOMAIN d = 0 .. N /\ \A n \in 0 .. N : d[n] = body(n)
    BY <2>1
  <2> QED
    BY <1>1, <2>2, <2>3, <2>4
<1> DEFINE D == detections(ds, fs, any)
<1>8. Loop(D)
  <2> HIDE DEF Loop
  <2> QED
    BY <1>2, <1>6
<1>9. /\ D = [n \in DOMAIN D |-> D[n]] /\ DOMAIN D = 0 .. N /\ D[0] = <<>>
      /\ \A n \in 1 .. N : D[n] = IF n \in R THEN take(ds, D[n - 1], n, fs[n]) ELSE D[n - 1]
  <2>1. D = [n \in DOMAIN D |-> D[n]]
    BY <1>8
  <2> HIDE DEF Loop
  <2> QED
    BY <1>7, <1>8, <2>1
<1> HIDE DEF D, Loop
<1>10. \A n \in 0 .. N : D[n] \in S
  <2> DEFINE T == {n \in 0 .. N : D[n] \in S}
  <2>1. 0 \in T
    BY <1>1, <1>9
  <2>2. ASSUME NEW n \in 1 .. N, n - 1 \in T PROVE n \in T
    <3>1. D[n - 1] \in S
      BY <2>2
    <3>2. take(ds, D[n - 1], n, fs[n]) \in S
      BY <3>1, TakeOne DEF S
    <3>3. n \in 0 .. N
      BY <1>1
    <3> QED
      BY <1>9, <3>1, <3>2, <3>3
  <2>3. T = 0 .. N
    <3> HIDE DEF T
    <3> QED
      BY <1>1, <2>1, <2>2, Induction DEF T
  <2> QED
    BY <2>3
<1> QED
  BY <1>9, <1>10 DEF D, S, R, Loops

(* The detections g after n findings: each defect has a finding of its own *)
(* that credits it, and a finding without a defect credits none that is    *)
(* left.                                                                   *)
Right(defects, findings, any, n, g) ==
  /\ \A d \in DOMAIN g : /\ g[d] \in 1 .. n /\ g[d] \in reported(findings, any)
                         /\ credits(findings[g[d]], defects[d])
  /\ \A d, e \in DOMAIN g : g[d] = g[e] => d = e
  /\ \A i \in 1 .. n, d \in DOMAIN defects \ DOMAIN g :
       i \in reported(findings, any) /\ (\A e \in DOMAIN g : g[e] # i) => ~credits(findings[i], defects[d])

LEMMA TakeIsRight ==
  ASSUME NEW ds, NEW fs, Located(ds, fs), NEW any, NEW n \in 1 .. Len(fs),
         NEW g \in Found(ds, Len(fs)), Right(ds, fs, any, n - 1, g)
  PROVE  Right(ds, fs, any, n, IF n \in reported(fs, any) THEN take(ds, g, n, fs[n]) ELSE g)
<1>1. /\ \A i : i \in 1 .. n <=> i \in 1 .. n - 1 \/ i = n
      /\ n \notin 1 .. n - 1
  BY DEF Located
<1>2. CASE n \notin reported(fs, any)
  BY <1>1, <1>2 DEF Right
<1>3. CASE n \in reported(fs, any) /\ Left(fs[n], ds, g) = {}
  <2>1. take(ds, g, n, fs[n]) = g
      <3>1. Takes(fs[n], ds, n, g, take(ds, g, n, fs[n]))
      BY TakeOne
    <3> QED
      BY <1>3, <3>1 DEF Takes
  <2>2. \A d \in DOMAIN ds \ DOMAIN g : ~credits(fs[n], ds[d])
    BY <1>3 DEF Left
  <2> QED
    BY <1>1, <1>3, <2>1, <2>2 DEF Right
<1>4. CASE n \in reported(fs, any) /\ Left(fs[n], ds, g) # {}
  <2> DEFINE d == nearest(fs[n], ds, Left(fs[n], ds, g))
             h == [e \in DOMAIN g \cup {d} |-> IF e = d THEN n ELSE g[e]]
  <2>1. d \in Left(fs[n], ds, g) /\ take(ds, g, n, fs[n]) = h
    <3>1. Takes(fs[n], ds, n, g, take(ds, g, n, fs[n]))
      BY TakeOne
    <3> QED
      BY <1>4, <3>1 DEF Takes
  <2>2. d \in DOMAIN ds /\ d \notin DOMAIN g /\ credits(fs[n], ds[d])
    BY <2>1 DEF Left
  <2> HIDE DEF d
  <2>3. DOMAIN h = DOMAIN g \cup {d} /\ h[d] = n /\ \A e \in DOMAIN g : h[e] = g[e]
    BY <2>2
  <2> HIDE DEF h
  <2>4. \A e \in DOMAIN g : g[e] \in 1 .. n - 1
    BY DEF Right
  <2>5. \A e \in DOMAIN h : /\ h[e] \in 1 .. n /\ h[e] \in reported(fs, any)
                            /\ credits(fs[h[e]], ds[e])
    BY <1>1, <1>4, <2>2, <2>3 DEF Right
  <2>6. \A e1, e2 \in DOMAIN h : h[e1] = h[e2] => e1 = e2
    BY <1>1, <2>3, <2>4 DEF Right
  <2>7. ASSUME NEW i \in 1 .. n, NEW e \in DOMAIN ds \ DOMAIN h,
               i \in reported(fs, any), \A x \in DOMAIN h : h[x] # i
        PROVE  ~credits(fs[i], ds[e])
    <3>1. i # n /\ e \notin DOMAIN g /\ \A x \in DOMAIN g : g[x] # i
      BY <2>3, <2>7
    <3> QED
      BY <1>1, <2>7, <3>1 DEF Right
  <2> QED
    BY <1>4, <2>1, <2>5, <2>6, <2>7 DEF Right
<1> QED
  BY <1>2, <1>3, <1>4

(* score: its detections are right for all findings.                       *)
LEMMA ScoreIsRight ==
  ASSUME NEW ds, NEW fs, Located(ds, fs), NEW any
  PROVE  /\ Right(ds, fs, any, Len(fs), score(ds, fs, any))
         /\ score(ds, fs, any) \in Found(ds, Len(fs))
<1> DEFINE D == detections(ds, fs, any)
           T == {n \in 0 .. Len(fs) : Right(ds, fs, any, n, D[n])}
<1>1. /\ Len(fs) \in Nat
      /\ D \in [0 .. Len(fs) -> Found(ds, Len(fs))]
      /\ D[0] = <<>>
      /\ \A n \in 1 .. Len(fs) :
           D[n] = IF n \in reported(fs, any) THEN take(ds, D[n - 1], n, fs[n]) ELSE D[n - 1]
  <2>1. Loops(ds, fs, any, D)
    BY DetectionsStep
  <2> QED
    BY <2>1 DEF Located, Loops
<1> HIDE DEF D
<1>2. 0 \in T
  <2>1. DOMAIN D[0] = {} /\ 1 .. 0 = {} /\ 0 \in 0 .. Len(fs)
    BY <1>1
  <2> QED
    BY <2>1 DEF Right
<1>3. ASSUME NEW n \in 1 .. Len(fs), n - 1 \in T PROVE n \in T
  <2>1. n - 1 \in 0 .. Len(fs) /\ n \in 0 .. Len(fs)
    BY <1>1
  <2>2. D[n - 1] \in Found(ds, Len(fs))
    BY <1>1, <2>1
  <2>3. Right(ds, fs, any, n, IF n \in reported(fs, any) THEN take(ds, D[n - 1], n, fs[n]) ELSE D[n - 1])
    BY <1>3, <2>2, TakeIsRight
  <2> QED
    BY <1>1, <2>1, <2>3
<1>4. T = 0 .. Len(fs)
  <2> HIDE DEF T
  <2> QED
    BY <1>1, <1>2, <1>3, Induction DEF T
<1>5. Len(fs) \in 0 .. Len(fs)
  BY <1>1
<1> QED
  BY <1>1, <1>4, <1>5 DEF score, D

(* With minor findings as well, no finding detects less: what is nearest   *)
(* among the defects that are left is nearest among fewer, if it is there. *)
LEMMA TakeMore ==
  ASSUME NEW ds, NEW fs, Located(ds, fs), NEW n \in 1 .. Len(fs),
         NEW g \in Found(ds, Len(fs)), NEW h \in Found(ds, Len(fs)), DOMAIN g \subseteq DOMAIN h
  PROVE  /\ DOMAIN take(ds, g, n, fs[n]) \subseteq DOMAIN take(ds, h, n, fs[n])
         /\ DOMAIN g \subseteq DOMAIN take(ds, h, n, fs[n])
<1> DEFINE few == Left(fs[n], ds, h)
           more == Left(fs[n], ds, g)
           x == nearest(fs[n], ds, few)
           y == nearest(fs[n], ds, more)
<1>1. few \subseteq more /\ more \subseteq DOMAIN ds
      /\ \A d \in more : d \notin DOMAIN h => d \in few
  BY DEF Left
<1>2. more # {} => y \in more /\ \A e \in more : Before(Key(fs[n], ds, y), Key(fs[n], ds, e))
  BY <1>1, NearestIsCandidate
<1>3. few # {} => x \in few /\ \A e \in few : Before(Key(fs[n], ds, x), Key(fs[n], ds, e))
  BY <1>1, NearestIsCandidate
<1>4. DOMAIN take(ds, g, n, fs[n]) = IF more = {} THEN DOMAIN g ELSE DOMAIN g \cup {y}
  <2>1. Takes(fs[n], ds, n, g, take(ds, g, n, fs[n]))
    BY TakeOne
  <2> QED
    BY <2>1 DEF Takes
<1>5. DOMAIN take(ds, h, n, fs[n]) = IF few = {} THEN DOMAIN h ELSE DOMAIN h \cup {x}
  <2>1. Takes(fs[n], ds, n, h, take(ds, h, n, fs[n]))
    BY TakeOne
  <2> QED
    BY <2>1 DEF Takes
<1>6. \A d, e \in DOMAIN ds :
        Before(Key(fs[n], ds, d), Key(fs[n], ds, e)) /\ Before(Key(fs[n], ds, e), Key(fs[n], ds, d)) => d = e
  <2> SUFFICES ASSUME NEW d \in DOMAIN ds, NEW e \in DOMAIN ds,
                      Before(Key(fs[n], ds, d), Key(fs[n], ds, e)),
                      Before(Key(fs[n], ds, e), Key(fs[n], ds, d))
               PROVE  d = e
    OBVIOUS
  <2>1. \A c \in {d, e} : distance(fs[n], ds[c]) \in Nat /\ ds[c].start \in Nat /\ c \in Nat
    BY DistanceIsNumber DEF Located
  <2> QED
    BY <2>1 DEF Before, Key
<1> HIDE DEF few, more, x, y
<1>7. more # {} /\ y \notin DOMAIN h => few # {} /\ x = y
  BY <1>1, <1>2, <1>3, <1>6
<1> QED
  BY <1>4, <1>5, <1>7

LEMMA MoreFindings ==
  ASSUME NEW ds, NEW fs, Located(ds, fs)
  PROVE  DOMAIN score(ds, fs, FALSE) \subseteq DOMAIN score(ds, fs, TRUE)
<1> DEFINE D == detections(ds, fs, FALSE)
           E == detections(ds, fs, TRUE)
           T == {n \in 0 .. Len(fs) : DOMAIN D[n] \subseteq DOMAIN E[n]}
<1>1. Loops(ds, fs, FALSE, D) /\ Loops(ds, fs, TRUE, E) /\ Len(fs) \in Nat
  BY DetectionsStep DEF Located
<1>2. reported(fs, FALSE) \subseteq reported(fs, TRUE)
  BY DEF reported
<1> HIDE DEF D, E
<1>3. 0 \in T
  BY <1>1 DEF Loops
<1>4. ASSUME NEW n \in 1 .. Len(fs), n - 1 \in T PROVE n \in T
  <2>1. n - 1 \in 0 .. Len(fs) /\ n \in 0 .. Len(fs)
    BY <1>1
  <2>2. D[n - 1] \in Found(ds, Len(fs)) /\ E[n - 1] \in Found(ds, Len(fs))
    BY <1>1, <2>1 DEF Loops
  <2>3. DOMAIN D[n - 1] \subseteq DOMAIN E[n - 1]
    BY <1>4
  <2>4. /\ DOMAIN take(ds, D[n - 1], n, fs[n]) \subseteq DOMAIN take(ds, E[n - 1], n, fs[n])
        /\ DOMAIN D[n - 1] \subseteq DOMAIN take(ds, E[n - 1], n, fs[n])
    BY <2>2, <2>3, TakeMore
  <2>5. /\ D[n] = IF n \in reported(fs, FALSE) THEN take(ds, D[n - 1], n, fs[n]) ELSE D[n - 1]
        /\ E[n] = IF n \in reported(fs, TRUE) THEN take(ds, E[n - 1], n, fs[n]) ELSE E[n - 1]
    BY <1>1 DEF Loops
  <2>6. DOMAIN D[n] \subseteq DOMAIN E[n]
    BY <1>2, <2>3, <2>4, <2>5
  <2> QED
    BY <2>1, <2>6
<1>5. T = 0 .. Len(fs)
  <2> HIDE DEF T
  <2> QED
    BY <1>1, <1>3, <1>4, Induction DEF T
<1>6. Len(fs) \in T
  BY <1>1, <1>5
<1> QED
  BY <1>6 DEF score, D, E

(* ScoreIsMaximal, for records of any size                                 *)
THEOREM ScoreTheorem ==
  (\A x \in ScoreInputs : Located(x.defects, x.findings)) => (Spec => []ScoreIsMaximal)
<1> SUFFICES ASSUME \A x \in ScoreInputs : Located(x.defects, x.findings)
             PROVE  Spec => []ScoreIsMaximal
  OBVIOUS
<1>1. ASSUME OneCall PROVE ScoreIsMaximal
  <2> SUFFICES ASSUME Ran("analyze") PROVE ScoreIsMaximal
    BY DEF ScoreIsMaximal
  <2> DEFINE ds == input.defects
             fs == input.findings
             g == score(ds, fs, FALSE)
  <2>1. /\ Located(ds, fs)
        /\ result = [detected |-> g, any |-> score(ds, fs, TRUE), unmatched |-> unmatched(ds, fs)]
    BY <1>1 DEF OneCall, Ran
  <2>2. Right(ds, fs, FALSE, Len(fs), g) /\ DOMAIN g \subseteq DOMAIN score(ds, fs, TRUE)
    BY <2>1, ScoreIsRight, MoreFindings
  <2>3. unmatched(ds, fs) = {i \in reported(fs, FALSE) : \A e \in DOMAIN g : g[e] # i}
    BY DEF unmatched, Range
  <2>4. reported(fs, FALSE) \subseteq 1 .. Len(fs)
    BY DEF reported
  <2>5. result.detected = g /\ result.any = score(ds, fs, TRUE) /\ result.unmatched = unmatched(ds, fs)
    BY <2>1
  <2> HIDE DEF g
  <2>6. /\ \A d, e \in DOMAIN g : g[d] = g[e] => d = e
        /\ \A d \in DOMAIN g : credits(fs[g[d]], ds[d])
        /\ \A i \in unmatched(ds, fs), d \in DOMAIN ds \ DOMAIN g : ~credits(fs[i], ds[d])
    BY <2>2, <2>3, <2>4 DEF Right
  <2> QED
    BY <2>2, <2>5, <2>6 DEF ScoreIsMaximal
<1> QED
  BY <1>1, CallsKeepInputs, PTL

---------------------------------------------------------------------------
(* validate_rule_coverage *)

(* A table with no id twice has one row for an id it names, and row_of     *)
(* finds it.                                                               *)
LEMMA RowOfId ==
  ASSUME NEW table, rows(table), NEW i \in 1 .. Len(table.rules)
  PROVE  /\ row_of(table, table.rules[i].id) = table.rules[i]
         /\ {j \in 1 .. Len(table.rules) : table.rules[j].id = table.rules[i].id} = {i}
BY DEF rows, row_of

(* What passes as a whole would pass as a structure.                       *)
LEMMA StructureIsLess ==
  ASSUME NEW contract, NEW row, check_rule(contract, row, FALSE)
  PROVE  check_rule(contract, row, TRUE)
BY DEF check_rule, check_implemented, hook_installation, canary

(* CoverageProves: a ledger that passes proves each rule of the catalog,   *)
(* whatever the catalog, the ledger and the outcomes of its commands are,  *)
(* and would have passed the check of its structure.                       *)
THEOREM CoverageTheorem == Spec => []CoverageProves
<1>1. ASSUME OneCall PROVE CoverageProves
  <2> SUFFICES ASSUME Ran("validate_rule_coverage"),
                      result \in {"PASS", "PASS_WITH_APPROVED_EXCLUSIONS"}
               PROVE  CoverageProves
    BY DEF CoverageProves
  <2> DEFINE catalog == input.catalog
             ledger == input.ledger
             only == input.structure_only
  <2>1. result = coverage(catalog, ledger, only)
    BY <1>1 DEF OneCall, Ran
  <2>2. /\ ~only /\ validate(catalog, ledger, only)
        /\ result = "PASS" => exclusions(ledger) = {}
    BY <2>1 DEF coverage
  <2>3. /\ rows(catalog) /\ rows(ledger) /\ ids(catalog) = ids(ledger)
        /\ \A id \in ids(catalog) : check_rule(row_of(catalog, id), row_of(ledger, id), FALSE)
    BY <2>2 DEF validate, check_rule, check_implemented, hook_installation
  <2>4. coverage(catalog, ledger, TRUE) = "STRUCTURE_ONLY"
    BY <2>3, StructureIsLess DEF coverage, validate
  <2>5. ASSUME NEW i \in 1 .. Len(catalog.rules)
        PROVE  LET rowsOf == {j \in 1 .. Len(ledger.rules) : ledger.rules[j].id = catalog.rules[i].id}
               IN /\ Cardinality(rowsOf) = 1
                  /\ \A j \in rowsOf : check_rule(catalog.rules[i], ledger.rules[j], FALSE)
    <3>1. PICK j \in 1 .. Len(ledger.rules) : ledger.rules[j].id = catalog.rules[i].id
      BY <2>3 DEF ids
    <3>2. /\ row_of(catalog, catalog.rules[i].id) = catalog.rules[i]
          /\ row_of(ledger, catalog.rules[i].id) = ledger.rules[j]
          /\ {k \in 1 .. Len(ledger.rules) : ledger.rules[k].id = catalog.rules[i].id} = {j}
      BY <2>3, <3>1, RowOfId
    <3>3. check_rule(catalog.rules[i], ledger.rules[j], FALSE)
      BY <2>3, <3>2 DEF ids
    <3> QED
      BY <3>2, <3>3, FS_Singleton
  <2>6. ASSUME NEW i \in 1 .. Len(catalog.rules), NEW j \in 1 .. Len(ledger.rules),
               check_rule(catalog.rules[i], ledger.rules[j], FALSE)
        PROVE  LET rule == catalog.rules[i]
                   row == ledger.rules[j]
                   rejects == /\ row.canary.violating = "fails" /\ row.canary.passing = "exits 0"
                              /\ row.canary.diagnostic
               IN /\ row.evidence_kind = rule.evidence_kind
                  /\ \/ /\ row.status = "implemented"
                        /\ \/ row.evidence_kind = "host_query" /\ row.exit = "exits 0"
                           \/ row.evidence_kind = "local_ci" /\ rejects /\ "ci" \in row.facts
                           \/ /\ row.evidence_kind = "git_hook" /\ rejects
                              /\ row.hook.check = "exits 0" /\ row.hook.diagnostic
                        /\ rule.kind = "tool" /\ row.evidence_kind # "host_query"
                             => "configuration" \in row.facts
                     \/ /\ result # "PASS" /\ rule.applicability = "conditional"
                        /\ "approval" \in row.facts
    BY <2>2, <2>6 DEF check_rule, check_excluded, check_implemented, implemented_paths, canary,
       configuration, hook_installation, host_query, exclusions
  <2> HIDE DEF catalog, ledger, only
  <2> QED
    BY <2>4, <2>5, <2>6 DEF CoverageProves, catalog, ledger
<1> QED
  BY <1>1, CallsKeepInputs, PTL

---------------------------------------------------------------------------
(* check-python-fanout: names and their longest known part *)

Names == Seq(STRING)

(* A bounded, nonempty set of numbers has a greatest element.              *)
LEMMA Greatest ==
  ASSUME NEW N \in Nat, NEW S \in SUBSET (0 .. N), S # {}
  PROVE  \E x \in S : \A y \in S : y <= x
<1> DEFINE T == {n \in Nat : N - n \in S}
<1>1. T # {} /\ T \in SUBSET Nat
  <2>1. PICK x \in S : x \in 0 .. N
    OBVIOUS
  <2>2. N - x \in T
    BY <2>1
  <2> QED
    BY <2>2
<1>2. PICK t \in T : \A u \in T : t <= u
  <2> HIDE DEF T
  <2> QED
    BY <1>1, LeastNumber
<1>3. ASSUME NEW y \in S PROVE y <= N - t
  <2>1. N - y \in T
    OBVIOUS
  <2> QED
    BY <1>2, <2>1
<1> QED
  BY <1>2, <1>3

(* The first parts of a name                                               *)
LEMMA PrefixOfName ==
  ASSUME NEW s \in Names, NEW n \in 0 .. Len(s)
  PROVE  /\ Prefix(s, n) \in Names
         /\ Len(Prefix(s, n)) = n
         /\ \A i \in 1 .. n : Prefix(s, n)[i] = s[i]
BY DEF Prefix, Names

LEMMA PrefixOfPrefix ==
  ASSUME NEW s \in Names, NEW n \in 0 .. Len(s), NEW k \in 0 .. n
  PROVE  Prefix(Prefix(s, n), k) = Prefix(s, k)
<1>1. Prefix(s, n) \in Names /\ Len(Prefix(s, n)) = n
  BY PrefixOfName
<1>2. /\ Prefix(Prefix(s, n), k) \in Names /\ Len(Prefix(Prefix(s, n), k)) = k
      /\ Prefix(s, k) \in Names /\ Len(Prefix(s, k)) = k
  BY <1>1, PrefixOfName
<1>3. \A i \in 1 .. k : Prefix(Prefix(s, n), k)[i] = Prefix(s, k)[i]
  BY <1>1, PrefixOfName
<1> QED
  BY <1>2, <1>3, SeqEqual DEF Names

(* What a name begins with is one of its prefixes.                         *)
LEMMA BeginsWith ==
  ASSUME NEW s \in Names, NEW m \in Names
  PROVE  IsPrefix(m, s) <=> Len(m) <= Len(s) /\ m = Prefix(s, Len(m))
BY SubSeqFull DEF IsPrefix, Prefix, Names

(* normalise_known_module finds the longest known part of a name.          *)
LongestKnown(s, known) ==
  LET inside == {m \in known : IsPrefix(m, s)}
  IN CHOOSE m \in inside : \A n \in inside : Len(n) <= Len(m)

LEMMA NormaliseIsLongest ==
  ASSUME NEW known \in SUBSET Names, NEW roots, NEW s \in Names, s # <<>>, s[1] \in roots,
         Prefix(s, 1) \in known
  PROVE  /\ normalise_known_module(s, roots, known) = LongestKnown(s, known)
         /\ \E e \in 1 .. Len(s) :
              /\ LongestKnown(s, known) = Prefix(s, e)
              /\ Prefix(s, e) \in known
              /\ \A n \in 1 .. Len(s) : Prefix(s, n) \in known => n <= e
<1> DEFINE ends == {n \in 1 .. Len(s) : Prefix(s, n) \in known}
           inside == {m \in known : IsPrefix(m, s)}
<1>1. Len(s) \in Nat \ {0}
  BY DEF Names
<1>2. PICK e \in ends : \A n \in ends : n <= e
  <2>1. ends \subseteq 0 .. Len(s) /\ ends # {}
    BY <1>1
  <2> QED
    BY <1>1, <2>1, Greatest
<1>3. (CHOOSE n \in ends : \A k \in ends : k <= n) = e
  <2>1. \A n \in ends : (\A k \in ends : k <= n) => n = e
    BY <1>2
  <2> QED
    BY <1>2, <2>1
<1>4. normalise_known_module(s, roots, known) = Prefix(s, e)
  BY <1>3 DEF normalise_known_module, is_first_party
<1>5. Prefix(s, e) \in inside /\ Len(Prefix(s, e)) = e
  BY <1>2, PrefixOfName, BeginsWith
<1>6. ASSUME NEW m \in inside PROVE m = Prefix(s, Len(m)) /\ Len(m) \in Nat /\ Len(m) <= e
  <2>1. m \in Names /\ m = Prefix(s, Len(m)) /\ Len(m) \in 0 .. Len(s)
    BY BeginsWith DEF Names
  <2>2. Len(m) # 0 => Len(m) \in ends
    BY <2>1
  <2> QED
    BY <1>2, <2>1, <2>2
<1>7. \A m \in inside : (\A n \in inside : Len(n) <= Len(m)) => m = Prefix(s, e)
  <2> SUFFICES ASSUME NEW m \in inside, \A n \in inside : Len(n) <= Len(m)
               PROVE  m = Prefix(s, e)
    OBVIOUS
  <2>1. Len(m) = e
    BY <1>5, <1>6
  <2> QED
    BY <1>6, <2>1
<1>8. LongestKnown(s, known) = Prefix(s, e)
  <2>1. \A n \in inside : Len(n) <= Len(Prefix(s, e))
    BY <1>5, <1>6
  <2> QED
    BY <1>5, <1>7, <2>1 DEF LongestKnown
<1> QED
  BY <1>2, <1>4, <1>8

---------------------------------------------------------------------------
(* check-python-fanout: the spellings of a name *)

package(current) == IF current.is_package THEN current.module ELSE Front(current.module)

(* One dot is the package itself, each further one the package above it,   *)
(* so k of its parts are kept.                                             *)
Dots(level, pkg, k) == k \in 1 .. Len(pkg) /\ level = Len(pkg) - k + 1

(* What is written after the dots, and after k parts that they stand for   *)
Rest(s, k) == SubSeq(s, k + 1, Len(s))

(* from m import *, or from the name above m import its last part          *)
From(node, m) ==
  \/ node.module = m /\ node.alias = "*"
  \/ m # <<>> /\ node.module = Front(m) /\ node.alias = Last(m) /\ node.alias # "*"

(* An import node whose target, by the rules of Python, is this name       *)
Spells(node, current, name) ==
  \/ node.is = "import" /\ node.module = name
  \/ node.is = "dynamic" /\ node.level = 0 /\ node.module = name
  \/ /\ node.is = "dynamic" /\ node.package \in Names
     /\ \E k \in 1 .. Len(name) :
          /\ Dots(node.level, node.package, k) /\ Prefix(node.package, k) = Prefix(name, k)
          /\ node.module = Rest(name, k)
  \/ node.is = "from" /\ node.level = 0 /\ node.module # <<>> /\ From(node, name)
  \/ /\ node.is = "from"
     /\ \E k \in 1 .. Len(name) :
          /\ Dots(node.level, package(current), k) /\ Prefix(package(current), k) = Prefix(name, k)
          /\ From(node, Rest(name, k))

(* A call of the check for a file that imports a first-party name, which   *)
(* is not one of the standard library                                      *)
FirstPartyImport(x) ==
  /\ x.files \subseteq [dir : Names, name : STRING] /\ x.file \in x.files
  /\ x.source_roots \subseteq Names
  /\ x.root_packages \subseteq STRING \ Stdlib
  /\ x.name \in Names /\ x.name # <<>> /\ x.name[1] \in x.root_packages
  /\ Spells(x.node, module_for_path(x.file, x.source_roots), x.name)

LEMMA ModuleIsName ==
  ASSUME NEW file \in [dir : Names, name : STRING], NEW roots \in SUBSET Names
  PROVE  /\ module_for_path(file, roots).module \in Names
         /\ module_for_path(file, roots).is_package \in BOOLEAN
<1> DEFINE above == {r \in roots : IsPrefix(r, file.dir)}
           root == CHOOSE r \in above : \A q \in above : Len(q) <= Len(r)
           rel == SubSeq(file.dir, Len(root) + 1, Len(file.dir))
<1>1. CASE above = {}
  BY <1>1 DEF module_for_path, NoModule, Names
<1>2. CASE above # {}
  <2> DEFINE lengths == {Len(r) : r \in above}
  <2>1. file.dir \in Names /\ Len(file.dir) \in Nat
    BY DEF Names
  <2>2. \A r \in above : r \in Names /\ Len(r) \in 0 .. Len(file.dir)
    BY <2>1, BeginsWith DEF Names
  <2>3. PICK n \in lengths : \A l \in lengths : l <= n
    <3>1. lengths \in SUBSET (0 .. Len(file.dir)) /\ lengths # {}
      BY <1>2, <2>2
    <3> HIDE DEF lengths
    <3> QED
      BY <2>1, <3>1, Greatest
  <2>4. \E r \in above : \A q \in above : Len(q) <= Len(r)
    BY <2>3
  <2>5. root \in above
    BY <2>4
  <2> HIDE DEF root
  <2>6. rel \in Names
    <3>1. Len(root) + 1 \in Int /\ Len(file.dir) \in Int
      BY <2>1, <2>2, <2>5
    <3>2. \A i \in Len(root) + 1 .. Len(file.dir) : file.dir[i] \in STRING
      BY <2>1, <2>2, <2>5 DEF Names
    <3> QED
      BY <3>1, <3>2, SubSeqProperties DEF Names
  <2>7. Append(rel, file.name) \in Names
    BY <2>6 DEF Names
  <2>8. module_for_path(file, roots) =
          IF file.name = "__init__" THEN [module |-> rel, is_package |-> TRUE]
          ELSE [module |-> Append(rel, file.name), is_package |-> FALSE]
    BY <1>2 DEF module_for_path, root
  <2> HIDE DEF rel
  <2> QED
    BY <2>6, <2>7, <2>8
<1> QED
  BY <1>1, <1>2

LEMMA KnownAreNames ==
  ASSUME NEW files \in SUBSET [dir : Names, name : STRING], NEW roots \in SUBSET Names,
         NEW root_packages \in SUBSET STRING
  PROVE  /\ known_modules(files, roots, root_packages) \in SUBSET (Names \ {<<>>})
         /\ \A p \in root_packages : <<p>> \in known_modules(files, roots, root_packages)
<1> DEFINE modules == {module_for_path(f, roots).module : f \in files} \ {NoModule}
<1>1. modules \subseteq Names \ {<<>>}
  BY ModuleIsName DEF NoModule
<1>2. ASSUME NEW m \in modules, NEW n \in 1 .. Len(m) - 1
      PROVE  Prefix(m, n) \in Names \ {<<>>}
  <2>1. m \in Names /\ n \in 0 .. Len(m) /\ n # 0
    BY <1>1 DEF Names
  <2>2. Len(<<>>) = 0
    OBVIOUS
  <2> QED
    BY <2>1, <2>2, PrefixOfName
<1>3. \A p \in root_packages : <<p>> \in Names \ {<<>>}
  BY DEF Names
<1> HIDE DEF modules
<1> QED
  BY <1>1, <1>2, <1>3 DEF known_modules, modules

(* k parts that are kept and the rest of a name make the name.             *)
LEMMA PartsOfName ==
  ASSUME NEW s \in Names, NEW k \in 1 .. Len(s)
  PROVE  /\ Rest(s, k) \in Names /\ Len(Rest(s, k)) = Len(s) - k
         /\ Prefix(s, k) \o Rest(s, k) = s
         /\ Rest(s, k) # <<>> =>
              /\ Prefix(s, k) \o Front(Rest(s, k)) = Front(s)
              /\ Last(Rest(s, k)) = Last(s)
              /\ k <= Len(s) - 1
<1>1. s \in Seq(STRING) /\ Len(s) \in Nat
  BY DEF Names
<1>2. Rest(s, k) \in Names /\ Len(Rest(s, k)) = Len(s) - k
      /\ \A i \in 1 .. Len(s) - k : Rest(s, k)[i] = s[k + i]
  <2>1. \A i \in k + 1 .. Len(s) : s[i] \in STRING
    BY <1>1
  <2>2. k + 1 \in Int /\ Len(s) \in Int
    BY <1>1
  <2> QED
    BY <1>1, <2>1, <2>2, SubSeqProperties DEF Rest, Names
<1>3. Prefix(s, k) \o Rest(s, k) = s
  <2>1. SubSeq(s, 1, k) \o SubSeq(s, k + 1, Len(s)) = SubSeq(s, 1, Len(s))
    BY <1>1, ConcatAdjacentSubSeq
  <2> QED
    BY <1>1, <2>1, SubSeqFull DEF Prefix, Rest
<1>4. ASSUME Rest(s, k) # <<>>
      PROVE  /\ Prefix(s, k) \o Front(Rest(s, k)) = Front(s)
             /\ Last(Rest(s, k)) = Last(s)
             /\ k <= Len(s) - 1
  <2>1. k <= Len(s) - 1
    <3>1. Len(Rest(s, k)) # 0
      BY <1>2, <1>4 DEF Names
    <3> QED
      BY <1>1, <1>2, <3>1
  <2>2. Last(Rest(s, k)) = Last(s)
    BY <1>1, <1>2, <2>1 DEF Last
  <2>3. Front(Rest(s, k)) = SubSeq(s, k + 1, Len(s) - 1)
    <3> DEFINE r == Rest(s, k)
               f == SubSeq(r, 1, Len(r) - 1)
               g == SubSeq(s, k + 1, Len(s) - 1)
    <3>1. /\ f \in Seq(STRING) /\ Len(f) = Len(s) - 1 - k
          /\ \A i \in 1 .. Len(s) - 1 - k : f[i] = s[k + i]
      <4>1. r \in Seq(STRING) /\ Len(r) = Len(s) - k
        BY <1>2 DEF Names
      <4>2. \A i \in 1 .. Len(r) - 1 : r[i] \in STRING
        BY <1>1, <4>1
      <4>3. /\ f \in Seq(STRING) /\ Len(f) = IF 1 <= Len(r) - 1 THEN Len(r) - 1 - 1 + 1 ELSE 0
            /\ \A i \in 1 .. Len(r) - 1 - 1 + 1 : f[i] = r[1 + i - 1]
        <5> HIDE DEF r
        <5>1. 1 \in Int /\ Len(r) - 1 \in Int
          BY <1>1, <4>1
        <5> QED
          BY <4>2, <5>1, SubSeqProperties
      <4> HIDE DEF r, f
      <4> QED
        BY <1>1, <1>2, <2>1, <4>1, <4>3 DEF r
    <3>2. /\ g \in Seq(STRING) /\ Len(g) = Len(s) - 1 - k
          /\ \A i \in 1 .. Len(s) - 1 - k : g[i] = s[k + i]
      <4>1. \A i \in k + 1 .. Len(s) - 1 : s[i] \in STRING
        BY <1>1
      <4>2. k + 1 \in Int /\ Len(s) - 1 \in Int
        BY <1>1
      <4> QED
        BY <1>1, <2>1, <4>1, <4>2, SubSeqProperties
    <3> HIDE DEF f, g
    <3>3. f = g
      BY <3>1, <3>2, SeqEqual
    <3> QED
      BY <3>3 DEF f, g, Front
  <2>4. SubSeq(s, 1, k) \o SubSeq(s, k + 1, Len(s) - 1) = SubSeq(s, 1, Len(s) - 1)
    BY <1>1, <2>1, ConcatAdjacentSubSeq
  <2> QED
    BY <2>1, <2>2, <2>3, <2>4 DEF Front, Prefix
<1> QED
  BY <1>2, <1>3, <1>4

LEMMA FrontOfName ==
  ASSUME NEW s \in Names, s # <<>>
  PROVE  /\ Front(s) = Prefix(s, Len(s) - 1)
         /\ Front(s) \in Names /\ Len(Front(s)) = Len(s) - 1
         /\ Append(Front(s), Last(s)) = s
<1>1. s \in Seq(STRING) /\ Len(s) \in Nat \ {0}
  BY DEF Names
<1>2. Front(s) = Prefix(s, Len(s) - 1)
  BY DEF Front, Prefix
<1>3. Front(s) \in Names /\ Len(Front(s)) = Len(s) - 1
      /\ \A i \in 1 .. Len(s) - 1 : Front(s)[i] = s[i]
  BY <1>1, <1>2, PrefixOfName
<1>4. Append(Front(s), Last(s)) \in Seq(STRING) /\ Len(Append(Front(s), Last(s))) = Len(s)
      /\ \A i \in 1 .. Len(s) : Append(Front(s), Last(s))[i] = s[i]
  BY <1>1, <1>3 DEF Last, Names
<1> QED
  BY <1>1, <1>2, <1>3, <1>4, SeqEqual

(* Leading dots stand for the first k parts of the package of the file.    *)
LEMMA DotsResolve ==
  ASSUME NEW current, current.module \in Names, NEW node, NEW k, Dots(node.level, package(current), k)
  PROVE  /\ resolve_relative_import(current, node) = Prefix(package(current), k) \o node.module
         /\ current.module # NoModule
<1>1. package(current) \in Names
  <2>1. current.module # <<>> => Front(current.module) \in Names
    BY FrontOfName
  <2>2. current.module = <<>> => Front(current.module) = <<>>
    BY DEF Front
  <2> QED
    BY <2>1, <2>2 DEF package, Names
<1>2. Len(package(current)) \in Nat /\ k \in 1 .. Len(package(current))
      /\ node.level = Len(package(current)) - k + 1
  BY <1>1 DEF Dots, Names
<1>3. resolve_relative_import(current, node) =
        LET up == IF node.level - 1 > Len(package(current)) THEN Len(package(current)) ELSE node.level - 1
        IN IF node.level = 0 THEN node.module
           ELSE Prefix(package(current), Len(package(current)) - up) \o node.module
  BY DEF resolve_relative_import, package
<1>4. node.level # 0 /\ ~ (node.level - 1 > Len(package(current)))
      /\ Len(package(current)) - (node.level - 1) = k
  BY <1>2
<1>5. resolve_relative_import(current, node) = Prefix(package(current), k) \o node.module
  BY <1>3, <1>4
<1>6. current.module # NoModule
  <2>1. package(current) # <<>>
    BY <1>2
  <2>2. <<>> = Front(<<>>)
    BY DEF Front
  <2> QED
    BY <2>1, <2>2 DEF package, NoModule
<1> QED
  BY <1>5, <1>6

(* "from m import a": whatever stands for m, the longest known part of the *)
(* name is found, with a if it is a module and without it if it is not.    *)
LEMMA FromFindsLongest ==
  ASSUME NEW known \in SUBSET Names, NEW roots, NEW name \in Names, name # <<>>, name[1] \in roots,
         Prefix(name, 1) \in known,
         NEW node, NEW current, ~ (node.level > 0 /\ current.module = NoModule),
         \/ resolve_relative_import(current, node) = name /\ node.alias = "*"
         \/ /\ resolve_relative_import(current, node) = Front(name) /\ Front(name) # <<>>
            /\ node.alias = Last(name) /\ node.alias # "*"
  PROVE  imports_from_import_from(node, current, roots, known) = {LongestKnown(name, known)}
<1> DEFINE module == resolve_relative_import(current, node)
<1>1. normalise_known_module(name, roots, known) = LongestKnown(name, known)
  BY NormaliseIsLongest
<1>2. CASE module = name /\ node.alias = "*"
  BY <1>1, <1>2 DEF imports_from_import_from, is_first_party
<1>3. CASE module = Front(name) /\ Front(name) # <<>> /\ node.alias = Last(name) /\ node.alias # "*"
  <2>1. /\ Front(name) = Prefix(name, Len(name) - 1) /\ Front(name) \in Names
        /\ Len(Front(name)) = Len(name) - 1 /\ Append(Front(name), Last(name)) = name
    BY FrontOfName
  <2>2. Len(name) \in Nat /\ Len(name) - 1 \in 1 .. Len(name)
    BY <1>3, <2>1 DEF Names
  <2>3. Front(name)[1] = name[1] /\ Prefix(Front(name), 1) = Prefix(name, 1)
    BY <2>1, <2>2, PrefixOfName, PrefixOfPrefix
  <2>4. imports_from_import_from(node, current, roots, known) =
          {IF name \in known THEN normalise_known_module(name, roots, known)
           ELSE normalise_known_module(Front(name), roots, known)}
    BY <1>3, <2>1, <2>3 DEF imports_from_import_from, is_first_party
  <2>5. name \notin known => LongestKnown(Front(name), known) = LongestKnown(name, known)
    <3> SUFFICES ASSUME name \notin known
                 PROVE  LongestKnown(Front(name), known) = LongestKnown(name, known)
      OBVIOUS
    <3>1. PICK e \in 1 .. Len(name) :
            /\ LongestKnown(name, known) = Prefix(name, e) /\ Prefix(name, e) \in known
            /\ \A n \in 1 .. Len(name) : Prefix(name, n) \in known => n <= e
      BY NormaliseIsLongest
    <3>2. PICK d \in 1 .. Len(Front(name)) :
            /\ LongestKnown(Front(name), known) = Prefix(Front(name), d)
            /\ Prefix(Front(name), d) \in known
            /\ \A n \in 1 .. Len(Front(name)) : Prefix(Front(name), n) \in known => n <= d
      BY <1>3, <2>1, <2>3, NormaliseIsLongest
    <3>3. \A n \in 1 .. Len(name) - 1 : Prefix(Front(name), n) = Prefix(name, n)
      BY <2>1, <2>2, PrefixOfPrefix
    <3>4. e # Len(name)
      BY <3>1, SubSeqFull DEF Prefix, Names
    <3>5. e \in 1 .. Len(name) - 1 /\ d \in 1 .. Len(name) - 1
      BY <2>1, <2>2, <3>4
    <3>6. e <= d /\ d <= e
      BY <2>1, <2>2, <3>1, <3>2, <3>3, <3>5
    <3> QED
      BY <3>1, <3>2, <3>3, <3>5, <3>6
  <2>6. name \notin known => normalise_known_module(Front(name), roots, known) = LongestKnown(Front(name), known)
    BY <1>3, <2>1, <2>3, NormaliseIsLongest
  <2> QED
    BY <1>1, <2>4, <2>5, <2>6
<1> QED
  BY <1>2, <1>3

(* Each spelling of a first-party name is traced to its longest known part. *)
LEMMA SpellingsAgree ==
  ASSUME NEW known \in SUBSET Names, NEW roots, NEW name \in Names, name # <<>>, name[1] \in roots,
         Prefix(name, 1) \in known,
         NEW current, current.module \in Names, NEW node, Spells(node, current, name)
  PROVE  imports_from_node(node, current, roots, known) = {LongestKnown(name, known)}
<1>1. normalise_known_module(name, roots, known) = LongestKnown(name, known)
  BY NormaliseIsLongest
<1>2. CASE node.is = "import" /\ node.module = name
  BY <1>1, <1>2 DEF imports_from_node
<1>3. CASE node.is = "dynamic" /\ node.level = 0 /\ node.module = name
  BY <1>1, <1>3 DEF imports_from_node
<1>4. ASSUME node.is = "dynamic", node.package \in Names, NEW k \in 1 .. Len(name),
             Dots(node.level, node.package, k), Prefix(node.package, k) = Prefix(name, k),
             node.module = Rest(name, k)
      PROVE  imports_from_node(node, current, roots, known) = {LongestKnown(name, known)}
  <2>1. /\ Len(node.package) \in Nat /\ k \in 1 .. Len(node.package)
        /\ node.level = Len(node.package) - k + 1
    BY <1>4 DEF Dots, Names
  <2>2. node.level # 0 /\ ~ (node.level > Len(node.package)) /\ Len(node.package) - node.level + 1 = k
    BY <2>1
  <2>3. resolve_relative_dynamic_import(node) = name
    BY <1>4, <2>2, PartsOfName DEF resolve_relative_dynamic_import
  <2> QED
    BY <1>1, <1>4, <2>2, <2>3 DEF imports_from_node
<1>5. CASE node.is = "from" /\ node.level = 0 /\ node.module # <<>> /\ From(node, name)
  <2>1. resolve_relative_import(current, node) = node.module
    BY <1>5 DEF resolve_relative_import
  <2>2. imports_from_import_from(node, current, roots, known) = {LongestKnown(name, known)}
    BY <1>5, <2>1, FromFindsLongest DEF From
  <2> QED
    BY <1>5, <2>2 DEF imports_from_node
<1>6. ASSUME node.is = "from", NEW k \in 1 .. Len(name), Dots(node.level, package(current), k),
             Prefix(package(current), k) = Prefix(name, k), From(node, Rest(name, k))
      PROVE  imports_from_node(node, current, roots, known) = {LongestKnown(name, known)}
  <2>1. /\ resolve_relative_import(current, node) = Prefix(name, k) \o node.module
        /\ current.module # NoModule
    BY <1>6, DotsResolve
  <2>2. CASE node.module = Rest(name, k) /\ node.alias = "*"
    <3>1. resolve_relative_import(current, node) = name
      BY <2>1, <2>2, PartsOfName
    <3> QED
      BY <1>6, <2>1, <2>2, <3>1, FromFindsLongest DEF imports_from_node
  <2>3. CASE /\ Rest(name, k) # <<>> /\ node.module = Front(Rest(name, k))
             /\ node.alias = Last(Rest(name, k)) /\ node.alias # "*"
    <3>1. /\ resolve_relative_import(current, node) = Front(name) /\ node.alias = Last(name)
          /\ k <= Len(name) - 1
      BY <2>1, <2>3, PartsOfName
    <3>2. Front(name) # <<>>
      BY <3>1, FrontOfName DEF Names
    <3> QED
      BY <1>6, <2>1, <2>3, <3>1, <3>2, FromFindsLongest DEF imports_from_node
  <2> QED
    BY <1>6, <2>2, <2>3 DEF From
<1> QED
  BY <1>2, <1>3, <1>4, <1>5, <1>6 DEF Spells

(* EdgesAreImports: whatever the layout of the repository, a first-party   *)
(* name, in any of its spellings, makes the file depend on the longest     *)
(* known module in it, and on nothing else.                                *)
THEOREM EdgesTheorem == (\A x \in FanoutInputs : FirstPartyImport(x)) => (Spec => []EdgesAreImports)
<1> SUFFICES ASSUME \A x \in FanoutInputs : FirstPartyImport(x)
             PROVE  Spec => []EdgesAreImports
  OBVIOUS
<1>1. ASSUME OneCall PROVE EdgesAreImports
  <2> SUFFICES ASSUME Ran("check-python-fanout") PROVE EdgesAreImports
    BY DEF EdgesAreImports
  <2> DEFINE known == known_modules(input.files, input.source_roots, input.root_packages)
             current == module_for_path(input.file, input.source_roots)
             owner == LongestKnown(input.name, known)
  <2>1. /\ FirstPartyImport(input)
        /\ result = analyse_fanout(input.file, {input.node}, input.nloc, input.files,
                                   input.source_roots, input.root_packages, input.limits)
    BY <1>1 DEF OneCall, Ran
  <2>2. /\ known \in SUBSET (Names \ {<<>>}) /\ current.module \in Names
        /\ <<input.name[1]>> \in known
    BY <2>1, KnownAreNames, ModuleIsName DEF FirstPartyImport
  <2>3. Prefix(input.name, 1) \in known /\ Len(input.name) \in Nat \ {0}
    <3>1. input.name \in Seq(STRING) /\ Len(input.name) \in Nat \ {0}
      BY <2>1 DEF FirstPartyImport, Names
    <3>2. Prefix(input.name, 1) = <<input.name[1]>>
      <4>1. /\ Prefix(input.name, 1) \in Seq(STRING) /\ Len(Prefix(input.name, 1)) = 1
            /\ Prefix(input.name, 1)[1] = input.name[1]
        <5>1. input.name \in Names /\ 1 \in 0 .. Len(input.name) /\ 1 \in 1 .. 1
          BY <3>1 DEF Names
        <5> QED
          BY <5>1, PrefixOfName DEF Names
      <4>2. <<input.name[1]>> \in Seq(STRING)
        BY <3>1
      <4> QED
        BY <4>1, <4>2, SeqEqual
    <3> QED
      BY <2>2, <3>1, <3>2
  <2> HIDE DEF known, current
  <2>4. imports_from_node(input.node, current, input.root_packages, known) = {owner}
    BY <2>1, <2>2, <2>3, SpellingsAgree DEF FirstPartyImport, current
  <2>5. owner # <<>> /\ owner[1] \notin Stdlib
    <3>1. PICK e \in 1 .. Len(input.name) : owner = Prefix(input.name, e) /\ Prefix(input.name, e) \in known
      BY <2>1, <2>2, <2>3, NormaliseIsLongest DEF FirstPartyImport
    <3>2. owner[1] = input.name[1]
      BY <2>1, <2>3, <3>1, PrefixOfName DEF FirstPartyImport
    <3> QED
      BY <2>1, <2>2, <3>1, <3>2 DEF FirstPartyImport
  <2> HIDE DEF owner
  <2>6. imported_modules({input.node}, current, input.root_packages, known) = {owner} \ {current.module}
    BY <2>4, <2>5 DEF imported_modules, NoModule
  <2>7. result.dependencies = {owner} \ {current.module}
    BY <2>1, <2>5, <2>6 DEF analyse_fanout, architectural_dependencies, known, current
  <2> QED
    BY <2>7 DEF EdgesAreImports, owner, LongestKnown, known, current
<1> QED
  BY <1>1, CallsKeepInputs, PTL

---------------------------------------------------------------------------
(* tune_threshold: fractions *)

Fraction == Nat \X (Nat \ {0})

LEMMA Products == \A a, b \in Nat : a * b \in Nat
OBVIOUS

LEMMA RatioIsFraction ==
  ASSUME NEW a \in Nat, NEW b \in Nat
  PROVE  ratio(a, b) \in Fraction
BY DEF ratio, Fraction

LEMMA AtLeastIsOrder ==
  ASSUME NEW p \in Fraction, NEW q \in Fraction, NEW r \in Fraction
  PROVE  /\ at_least(p, p)
         /\ at_least(p, q) \/ at_least(q, p)
         /\ at_least(p, q) /\ at_least(q, r) => at_least(p, r)
<1> SUFFICES ASSUME NEW a \in Nat, NEW b \in Nat \ {0}, NEW c \in Nat, NEW d \in Nat \ {0},
                    NEW e \in Nat, NEW f \in Nat \ {0}
             PROVE  /\ a * d >= c * b \/ c * b >= a * d
                    /\ a * d >= c * b /\ c * f >= e * d => a * f >= e * b
  BY DEF at_least, Fraction
<1>1. a * d \in Nat /\ c * b \in Nat
  OBVIOUS
<1>2. a * d >= c * b /\ c * f >= e * d => a * f >= e * b
  OBVIOUS
<1> QED
  BY <1>1, <1>2

(* Of finitely many fractions one is the greatest.                         *)
LEMMA GreatestFraction ==
  ASSUME NEW S, IsFiniteSet(S), S # {}, NEW g \in [S -> Fraction]
  PROVE  \E x \in S : \A y \in S : at_least(g[x], g[y])
<1> DEFINE C == {T \in SUBSET S : T # {} /\ \A y \in S : \E x \in T : at_least(g[x], g[y])}
           R == StrictSubsetOrdering(S)
<1>1. S \in C
  BY AtLeastIsOrder
<1>2. IsWellFoundedOn(R, SUBSET S)
  BY FS_StrictSubsetOrderingWellFounded, FS_FiniteSubsetsOfFinite
<1>3. PICK T \in C : \A U \in C : ~ (<<U, T>> \in R)
  <2>1. C \subseteq SUBSET S /\ C # {}
    BY <1>1
  <2> HIDE DEF C, R
  <2> QED
    BY <1>2, <2>1, WFMin
<1>4. PICK a \in T : TRUE
  OBVIOUS
<1>5. ASSUME NEW b \in T, b # a PROVE FALSE
  <2>1. PICK x \in {a, b}, y \in {a, b} : x # y /\ at_least(g[x], g[y])
    BY <1>5, AtLeastIsOrder
  <2>2. T \ {y} \in C
    <3>1. x \in T \ {y}
      BY <2>1
    <3>2. ASSUME NEW z \in S PROVE \E w \in T \ {y} : at_least(g[w], g[z])
      <4>1. PICK w \in T : at_least(g[w], g[z])
        OBVIOUS
      <4>2. w = y => at_least(g[x], g[z])
        BY <2>1, <4>1, AtLeastIsOrder
      <4> QED
        BY <3>1, <4>1, <4>2
    <3> QED
      BY <3>1, <3>2
  <2>3. <<T \ {y}, T>> \in R
    BY <2>1, <1>4 DEF StrictSubsetOrdering
  <2> QED
    BY <1>3, <2>2, <2>3
<1>6. T = {a}
  BY <1>4, <1>5
<1> QED
  BY <1>6

---------------------------------------------------------------------------
(* tune_threshold: the choice *)

(* Cases with a label, and a score in even units, so that the midpoint of  *)
(* two scores is between them; no score reaches the mark for no threshold. *)
Cases(rs) ==
  /\ IsFiniteSet(DOMAIN rs)
  /\ \A i \in DOMAIN rs :
       /\ rs[i].y \in {0, 1} /\ rs[i].s \in Nat /\ rs[i].s % 2 = 0
       /\ NoThreshold \notin 0 .. rs[i].s

Scored(rs) == Cases(rs) /\ DOMAIN rs # {}

Minimums(args) ==
  /\ args.min_precision \in Fraction /\ args.min_recall \in Fraction
  /\ args.b2 \in Nat \X (Nat \ {0})

Scores(rs) == {rs[i].s : i \in DOMAIN rs}

LEMMA CountsAreNumbers ==
  ASSUME NEW rs, Scored(rs), NEW t
  PROVE  counts(rs, t).tp \in Nat /\ counts(rs, t).fp \in Nat /\ counts(rs, t).fn \in Nat
<1>1. IsFiniteSet(DOMAIN rs)
  BY DEF Scored, Cases
<1>2. ASSUME NEW flagged, NEW y
      PROVE  Cardinality({i \in DOMAIN rs : (rs[i].s >= t) = flagged /\ rs[i].y = y}) \in Nat
  BY <1>1, FS_Subset, FS_CardinalityType
<1> QED
  BY <1>2 DEF counts

LEMMA FBetaIsFraction ==
  ASSUME NEW rs, Scored(rs), NEW t, NEW args, Minimums(args)
  PROVE  f_beta(counts(rs, t), args.b2) \in Fraction
<1> DEFINE c == counts(rs, t)
           B == args.b2[1] + args.b2[2]
<1>1. c.tp \in Nat /\ c.fp \in Nat /\ c.fn \in Nat
  BY CountsAreNumbers
<1>2. args.b2[1] \in Nat /\ args.b2[2] \in Nat /\ B \in Nat
  BY DEF Minimums
<1> HIDE DEF c, B
<1>3. B * c.tp \in Nat /\ args.b2[1] * c.fn \in Nat /\ args.b2[2] * c.fp \in Nat
  BY <1>1, <1>2, Products
<1>4. B * c.tp + args.b2[1] * c.fn + args.b2[2] * c.fp \in Nat
  BY <1>3
<1> QED
  BY <1>3, <1>4, RatioIsFraction DEF f_beta, c, B

(* Thresholds that flag the same cases count the same.                     *)
LEMMA SameFlags ==
  ASSUME NEW rs, NEW t, NEW u, \A i \in DOMAIN rs : (rs[i].s >= t) = (rs[i].s >= u)
  PROVE  counts(rs, t) = counts(rs, u)
<1>1. \A flagged, y : {i \in DOMAIN rs : (rs[i].s >= t) = flagged /\ rs[i].y = y}
                      = {i \in DOMAIN rs : (rs[i].s >= u) = flagged /\ rs[i].y = y}
  OBVIOUS
<1> QED
  BY <1>1 DEF counts

LEMMA ScoresAreFinite ==
  ASSUME NEW rs, Scored(rs)
  PROVE  /\ Scores(rs) \in SUBSET Nat /\ Scores(rs) # {} /\ IsFiniteSet(Scores(rs))
         /\ \A x \in Scores(rs) : x % 2 = 0 /\ NoThreshold \notin 0 .. x
<1> DEFINE f == [i \in DOMAIN rs |-> rs[i].s]
<1>1. IsFiniteSet(DOMAIN rs) /\ DOMAIN rs # {}
  BY DEF Scored, Cases
<1>2. Scores(rs) \in SUBSET Nat /\ Scores(rs) # {}
      /\ \A x \in Scores(rs) : x % 2 = 0 /\ NoThreshold \notin 0 .. x
  BY <1>1 DEF Scored, Cases, Scores
<1>3. f \in Surjection(DOMAIN rs, Scores(rs))
  BY DEF Surjection, Scores
<1> QED
  BY <1>1, <1>2, <1>3, FS_Surjection

(* A finite set of numbers that is not empty has a least and a greatest    *)
(* element.                                                                *)
LEMMA Extremes ==
  ASSUME NEW S \in SUBSET Nat, IsFiniteSet(S), S # {}
  PROVE  /\ \E x \in S : \A y \in S : x <= y
         /\ \E x \in S : \A y \in S : y <= x
<1>1. \E x \in S : \A y \in S : y <= x
  <2> DEFINE g == [x \in S |-> <<x, 1>>]
  <2>1. g \in [S -> Fraction]
    BY DEF Fraction
  <2>2. PICK x \in S : \A y \in S : at_least(g[x], g[y])
    <3> HIDE DEF g
    <3> QED
      BY <2>1, GreatestFraction
  <2> QED
    BY <2>2 DEF at_least
<1>2. \E x \in S : \A y \in S : x <= y
  <2>1. PICK m \in S : \A y \in S : y <= m
    BY <1>1
  <2> DEFINE T == {n \in 0 .. m : m - n \in S}
  <2>2. T \in SUBSET (0 .. m) /\ 0 \in T /\ m \in Nat
    BY <2>1
  <2>3. PICK t \in T : \A u \in T : u <= t
    BY <2>2, Greatest
  <2>4. ASSUME NEW y \in S PROVE m - t <= y
    <3>1. m - y \in T
      BY <2>1
    <3> QED
      BY <2>2, <2>3, <3>1
  <2> QED
    BY <2>4
<1> QED
  BY <1>1, <1>2

(* The candidates are numbers from the least to the greatest score.        *)
LEMMA CandidatesAreFinite ==
  ASSUME NEW rs, Scored(rs)
  PROVE  /\ candidates(rs) \in SUBSET Nat /\ IsFiniteSet(candidates(rs)) /\ candidates(rs) # {}
         /\ NoThreshold \notin candidates(rs)
<1> DEFINE u == Scores(rs)
<1>1. u \in SUBSET Nat /\ u # {} /\ IsFiniteSet(u) /\ \A x \in u : NoThreshold \notin 0 .. x
  BY ScoresAreFinite
<1>2. PICK m \in u : \A x \in u : x <= m
  BY <1>1, Extremes
<1>3. PICK l \in u : \A x \in u : l <= x
  BY <1>1, Extremes
<1>4. candidates(rs) = {a \in u : \A b \in u : a <= b}
        \cup {(p[1] + p[2]) \div 2 :
               p \in {q \in u \X u : q[2] \in {b \in u : q[1] < b /\ \A c \in u : c <= q[1] \/ b <= c}}}
  BY DEF candidates, Scores
<1> HIDE DEF u
<1>5. \A a, b \in u : (a + b) \div 2 \in 0 .. m
  BY <1>1, <1>2
<1>6. candidates(rs) \subseteq 0 .. m
  <2>1. \A a \in u : a \in 0 .. m
    BY <1>1, <1>2
  <2> QED
    BY <1>4, <1>5, <2>1
<1>7. l \in candidates(rs)
  BY <1>3, <1>4
<1>8. IsFiniteSet(0 .. m)
  BY <1>1, FS_Interval
<1> QED
  BY <1>1, <1>6, <1>7, <1>8, FS_Subset

(* Each threshold that flags a case flags the same ones as a candidate.    *)
LEMMA CandidateFor ==
  ASSUME NEW rs, Scored(rs), NEW t \in Int, \E i \in DOMAIN rs : rs[i].s >= t
  PROVE  \E c \in candidates(rs) : counts(rs, c) = counts(rs, t)
<1> DEFINE u == Scores(rs)
           above == {x \in u : x >= t}
           below == {x \in u : x < t}
<1>1. u \in SUBSET Nat /\ u # {} /\ IsFiniteSet(u) /\ \A x \in u : x % 2 = 0
  BY ScoresAreFinite
<1>2. candidates(rs) = {a \in u : \A b \in u : a <= b}
        \cup {(p[1] + p[2]) \div 2 :
               p \in {q \in u \X u : q[2] \in {b \in u : q[1] < b /\ \A c \in u : c <= q[1] \/ b <= c}}}
  BY DEF candidates, Scores
<1>3. above \in SUBSET Nat /\ above # {} /\ IsFiniteSet(above)
      /\ below \in SUBSET Nat /\ IsFiniteSet(below)
  BY <1>1, FS_Subset DEF Scores
<1>4. \A i \in DOMAIN rs : rs[i].s \in u
  BY DEF Scores
<1> HIDE DEF u
<1>5. PICK b \in above : \A x \in above : b <= x
  BY <1>3, Extremes
<1>6. CASE below = {}
  <2>1. b \in candidates(rs) /\ \A x \in u : x >= b /\ x >= t
    BY <1>1, <1>2, <1>5, <1>6
  <2>2. counts(rs, b) = counts(rs, t)
    BY <1>4, <2>1, SameFlags
  <2> QED
    BY <2>1, <2>2
<1>7. CASE below # {}
  <2>1. PICK a \in below : \A x \in below : x <= a
    BY <1>3, <1>7, Extremes
  <2> DEFINE c == (a + b) \div 2
  <2>2. a \in u /\ b \in u /\ a < t /\ t <= b /\ \A x \in u : x <= a \/ b <= x
    BY <1>1, <1>5, <2>1
  <2>3. c \in candidates(rs)
    <3>1. <<a, b>> \in {q \in u \X u : q[2] \in {d \in u : q[1] < d /\ \A e \in u : e <= q[1] \/ d <= e}}
      BY <1>1, <2>2
    <3> QED
      BY <1>2, <3>1
  <2>4. c \in Nat /\ a < c /\ c <= b
    <3>1. a \in Nat /\ b \in Nat /\ a % 2 = 0 /\ b % 2 = 0 /\ a < b
      BY <1>1, <2>2
    <3> QED
      BY <3>1
  <2> HIDE DEF c
  <2>5. \A x \in u : (x >= c) = (x >= t)
    BY <1>1, <2>2, <2>4
  <2>6. counts(rs, c) = counts(rs, t)
    BY <1>4, <2>5, SameFlags
  <2> QED
    BY <2>3, <2>6
<1> QED
  BY <1>6, <1>7

(* If flagging no case meets the minimums, they are zero, and anything     *)
(* meets them and is at least as good.                                     *)
LEMMA NothingFlagged ==
  ASSUME NEW rs, Scored(rs), NEW args, Minimums(args), NEW t \in Int, NEW c,
         \A i \in DOMAIN rs : rs[i].s < t,
         meets(counts(rs, t), args)
  PROVE  /\ meets(counts(rs, c), args)
         /\ at_least(f_beta(counts(rs, c), args.b2), f_beta(counts(rs, t), args.b2))
<1> DEFINE n == counts(rs, t)
           k == counts(rs, c)
<1>1. n.tp = 0 /\ n.fp = 0 /\ n.fn \in Nat
  <2>1. \A y : {i \in DOMAIN rs : (rs[i].s >= t) = TRUE /\ rs[i].y = y} = {}
    BY DEF Scored, Cases
  <2>2. n.tp = 0 /\ n.fp = 0
    BY <2>1, FS_EmptySet DEF counts
  <2> QED
    BY <2>2, CountsAreNumbers
<1>2. k.tp \in Nat /\ k.fp \in Nat /\ k.fn \in Nat
  BY CountsAreNumbers
<1>3. PICK mp \in Nat, np \in Nat \ {0}, mr \in Nat, nr \in Nat \ {0} :
        args.min_precision = <<mp, np>> /\ args.min_recall = <<mr, nr>>
  BY DEF Minimums, Fraction
<1>4. args.b2[1] \in Nat /\ args.b2[2] \in Nat
  BY DEF Minimums
<1>5. f_beta(k, args.b2) \in Fraction
  BY FBetaIsFraction
<1> HIDE DEF n, k
<1>6. mp = 0 /\ mr = 0
  <2>1. CASE args.conservative
    <3>1. /\ wilson_at_least(0, 0, <<mp, np>>)
          /\ wilson_at_least(0, n.fn, <<mr, nr>>)
      BY <1>1, <1>3, <2>1 DEF meets, n
    <3>2. mp = 0
      BY <1>3, <3>1 DEF wilson_at_least
    <3>3. mr = 0
      <4>1. mr = 0 \/ (n.fn > 0 /\ 0 * nr >= mr * n.fn)
        BY <3>1 DEF wilson_at_least, at_least
      <4>2. n.fn > 0 /\ mr > 0 => mr * n.fn > 0
        BY <1>1, <1>3
      <4> QED
        BY <1>1, <1>3, <4>1, <4>2
    <3> QED
      BY <3>2, <3>3
  <2>2. CASE ~args.conservative
    <3>1. /\ at_least(ratio(0, 0), <<mp, np>>)
          /\ at_least(ratio(0, n.fn), <<mr, nr>>)
      BY <1>1, <1>3, <2>2 DEF meets, precision, recall, n
    <3>2. mp = 0
      BY <1>3, <3>1 DEF at_least, ratio
    <3>3. mr = 0
      <4>1. CASE n.fn = 0
        BY <1>3, <3>1, <4>1 DEF at_least, ratio
      <4>2. CASE n.fn # 0
        <5>1. 0 * nr >= mr * n.fn
          BY <3>1, <4>2 DEF at_least, ratio
        <5>2. mr > 0 => mr * n.fn > 0
          BY <1>1, <1>3, <4>2
        <5> QED
          BY <1>1, <1>3, <5>1, <5>2
      <4> QED
        BY <4>1, <4>2
    <3> QED
      BY <3>2, <3>3
  <2> QED
    BY <2>1, <2>2
<1>7. meets(k, args)
  <2>1. ratio(k.tp, k.tp + k.fp) \in Fraction /\ ratio(k.tp, k.tp + k.fn) \in Fraction
    BY <1>2, RatioIsFraction
  <2>2. \A q \in Fraction : at_least(q, <<0, np>>) /\ at_least(q, <<0, nr>>)
    <3>1. \A a \in Nat, b \in Nat \ {0} : a * np >= 0 * b /\ a * nr >= 0 * b
      <4>1. \A a \in Nat : a * np \in Nat /\ a * nr \in Nat
        BY <1>3, Products
      <4> QED
        BY <4>1
    <3> QED
      BY <3>1 DEF Fraction, at_least
  <2> QED
    BY <1>3, <1>6, <2>1, <2>2 DEF meets, wilson_at_least, precision, recall
<1>8. at_least(f_beta(k, args.b2), f_beta(n, args.b2))
  <2> DEFINE B == args.b2[1] + args.b2[2]
             d == args.b2[1] * n.fn
  <2>1. B * 0 = 0 /\ d \in Nat /\ args.b2[2] * 0 = 0
    <3>1. d \in Nat
      BY <1>1, <1>4, Products
    <3>2. B \in Nat
      BY <1>4
    <3>3. \A x \in Nat : x * 0 = 0
      OBVIOUS
    <3> HIDE DEF B, d
    <3> QED
      BY <1>4, <3>1, <3>2, <3>3
  <2>2. f_beta(n, args.b2) = ratio(0, d)
    <3>1. f_beta(n, args.b2) = ratio(B * 0, B * 0 + d + args.b2[2] * 0)
      BY <1>1 DEF f_beta
    <3>2. 0 + d + 0 = d
      BY <2>1
    <3> QED
      BY <2>1, <3>1, <3>2
  <2> HIDE DEF d
  <2>3. PICK z \in Nat \ {0} : ratio(0, d) = <<0, z>>
    BY <2>1 DEF ratio
  <2>4. PICK a \in Nat, b \in Nat \ {0} : f_beta(k, args.b2) = <<a, b>>
    BY <1>5 DEF Fraction
  <2>5. a * z \in Nat /\ 0 * b = 0
    BY Products
  <2>6. a * z >= 0 * b
    BY <2>5
  <2> QED
    BY <2>2, <2>3, <2>4, <2>6 DEF at_least
<1> QED
  BY <1>7, <1>8 DEF n, k

(* Of the candidates that meet both minimums, choose finds one of the best. *)
LEMMA ChooseAmongCandidates ==
  ASSUME NEW rs, Scored(rs), NEW args, Minimums(args)
  PROVE  LET good == {t \in candidates(rs) : meets(counts(rs, t), args)}
             f(t) == f_beta(counts(rs, t), args.b2)
         IN IF good = {} THEN choose(rs, args) = NoThreshold
            ELSE choose(rs, args) \in good /\ \A t \in good : at_least(f(choose(rs, args)), f(t))
<1> DEFINE good == {t \in candidates(rs) : meets(counts(rs, t), args)}
           f(t) == f_beta(counts(rs, t), args.b2)
           best == {t \in good : \A u \in good : at_least(f(t), f(u))}
<1>1. good \in SUBSET Nat /\ IsFiniteSet(good)
  BY CandidatesAreFinite, FS_Subset
<1>2. choose(rs, args) = IF good = {} THEN NoThreshold ELSE CHOOSE t \in best : \A u \in best : t <= u
  BY DEF choose
<1>3. \A t : f(t) \in Fraction
  BY FBetaIsFraction
<1> HIDE DEF f
<1>4. ASSUME good # {} PROVE \E t \in best : \A u \in best : t <= u
  <2> HIDE DEF good
  <2> DEFINE g == [t \in good |-> f(t)]
  <2>1. g \in [good -> Fraction]
    BY <1>3
  <2>2. \E t \in good : \A u \in good : at_least(g[t], g[u])
    <3> HIDE DEF g
    <3> QED
      BY <1>1, <1>4, <2>1, GreatestFraction
  <2>3. best # {} /\ best \in SUBSET Nat /\ IsFiniteSet(best)
    BY <1>1, <2>2, FS_Subset
  <2> HIDE DEF best
  <2> QED
    BY <2>3, Extremes
<1>5. good # {} => choose(rs, args) \in best
  BY <1>2, <1>4
<1> QED
  BY <1>2, <1>5 DEF f

(* choose: the threshold for any table of cases meets both minimums, no    *)
(* other threshold that does has a better F-beta, and without one none     *)
(* does: the search is over the midpoints and the least score, the claim   *)
(* about every number.                                                     *)
THEOREM ChoiceTheorem ==
  ASSUME NEW rs, Scored(rs), NEW args, Minimums(args)
  PROVE  LET shipped == choose(rs, args)
             qualified == {t \in Int : meets(counts(rs, t), args)}
             f(t) == f_beta(counts(rs, t), args.b2)
         IN IF shipped = NoThreshold THEN qualified = {}
            ELSE shipped \in qualified /\ \A t \in qualified : at_least(f(shipped), f(t))
<1> DEFINE good == {t \in candidates(rs) : meets(counts(rs, t), args)}
           qualified == {t \in Int : meets(counts(rs, t), args)}
           f(t) == f_beta(counts(rs, t), args.b2)
<1>1. /\ candidates(rs) \in SUBSET Nat /\ candidates(rs) # {} /\ NoThreshold \notin candidates(rs)
  BY CandidatesAreFinite
<1>2. ASSUME NEW t \in qualified PROVE \E c \in good : at_least(f(c), f(t))
  <2>1. CASE \E i \in DOMAIN rs : rs[i].s >= t
    <3>1. PICK c \in candidates(rs) : counts(rs, c) = counts(rs, t)
      BY <2>1, CandidateFor
    <3>2. at_least(f(t), f(t))
      BY FBetaIsFraction, AtLeastIsOrder
    <3> QED
      BY <3>1, <3>2
  <2>2. CASE ~ \E i \in DOMAIN rs : rs[i].s >= t
    <3>1. \A i \in DOMAIN rs : rs[i].s < t
      BY <2>2 DEF Scored, Cases
    <3>2. PICK c \in candidates(rs) : TRUE
      BY <1>1
    <3> QED
      BY <3>1, <3>2, NothingFlagged
  <2> QED
    BY <2>1, <2>2
<1>3. IF good = {} THEN choose(rs, args) = NoThreshold
      ELSE choose(rs, args) \in good /\ \A t \in good : at_least(f(choose(rs, args)), f(t))
  BY ChooseAmongCandidates
<1>4. good \subseteq qualified
  BY <1>1
<1>5. \A t : f(t) \in Fraction
  BY FBetaIsFraction
<1>6. CASE good = {}
  BY <1>2, <1>3, <1>6
<1>7. CASE good # {}
  <2>1. choose(rs, args) \in good /\ choose(rs, args) # NoThreshold
    BY <1>1, <1>3, <1>7
  <2>2. ASSUME NEW t \in qualified PROVE at_least(f(choose(rs, args)), f(t))
    <3>1. PICK c \in good : at_least(f(c), f(t))
      BY <1>2
    <3> HIDE DEF f
    <3> QED
      BY <1>3, <1>5, <1>7, <3>1, AtLeastIsOrder
  <2> QED
    BY <1>4, <2>1, <2>2
<1> QED
  BY <1>6, <1>7

---------------------------------------------------------------------------
(* tune_threshold: the report *)

(* What a report is made from: its dev cases.                              *)
Positives(dev) == Cardinality({i \in DOMAIN dev : dev[i].y = 1})
Negatives(dev) == Cardinality(DOMAIN dev) - Positives(dev)
FoldCount(dev, args) ==
  CHOOSE n \in {args.folds, Positives(dev), Negatives(dev)} :
    n <= args.folds /\ n <= Positives(dev) /\ n <= Negatives(dev)
FoldsOf(dev, args) == stratified_folds(dev, FoldCount(dev, args), args.shuffle)

LEMMA ReportOf ==
  ASSUME NEW cases, NEW args
  PROVE  LET r == report(cases, args)
             dev == in_split(cases, "dev")
             t == tune(dev, FoldsOf(dev, args), args)
         IN IF FoldCount(dev, args) < 2 THEN r.k = 0
            ELSE /\ r.k = FoldCount(dev, args)
                 /\ r.dev = dev
                 /\ r.folds = FoldsOf(dev, args)
                 /\ r.tuned = t
                 /\ r.errors = IF t.shipped = NoThreshold THEN {} ELSE errors(dev, t.shipped)
<1> DEFINE dev == in_split(cases, "dev")
           test == in_split(cases, "test")
           k == FoldCount(dev, args)
           folds == FoldsOf(dev, args)
           tuned == tune(dev, folds, args)
           t == tuned.shipped
           told == [k |-> k, dev |-> dev, folds |-> folds, tuned |-> tuned,
                    test_at_shipped |-> IF t = NoThreshold THEN <<>> ELSE <<counts(test, t)>>,
                    strata |-> IF t = NoThreshold THEN <<>>
                               ELSE <<by_stratum(IF DOMAIN test # {} THEN test ELSE dev, t)>>,
                    errors |-> IF t = NoThreshold THEN {} ELSE errors(dev, t),
                    unsupported |-> t # NoThreshold /\ \E n \in DOMAIN folds : tuned.thresholds[n] = NoThreshold]
<1>1. report(cases, args) = IF k < 2 THEN [k |-> 0] ELSE told
  BY Zenon DEF report, FoldCount, FoldsOf, Positives, Negatives
<1>2. /\ told.k = k /\ told.dev = dev /\ told.folds = folds /\ told.tuned = tuned
      /\ told.errors = IF t = NoThreshold THEN {} ELSE errors(dev, t)
  <2> HIDE DEF folds, k, tuned, test, dev
  <2> QED
    OBVIOUS
<1> HIDE DEF told, tuned, k, folds, dev
<1> QED
  BY <1>1, <1>2 DEF tuned, k, folds, dev

(* What tune returns                                                       *)
LEMMA TuneOf ==
  ASSUME NEW rs, NEW folds, NEW args
  PROVE  /\ tune(rs, folds, args).shipped = choose(rs, args)
         /\ \A n \in DOMAIN folds :
              tune(rs, folds, args).thresholds[n] = choose(train(rs, folds[n]), args)
BY DEF tune

(* The number of folds is the least of three numbers.                      *)
LEMMA CountOfFolds ==
  ASSUME NEW dev, Cases(dev), NEW args, args.folds \in Int
  PROVE  /\ Positives(dev) \in Nat /\ Negatives(dev) \in Int /\ FoldCount(dev, args) \in Int
         /\ FoldCount(dev, args) <= Positives(dev) /\ FoldCount(dev, args) <= Negatives(dev)
<1>1. Positives(dev) \in Nat /\ Cardinality(DOMAIN dev) \in Nat
  <2>1. {i \in DOMAIN dev : dev[i].y = 1} \in SUBSET DOMAIN dev /\ IsFiniteSet(DOMAIN dev)
    BY DEF Cases
  <2> QED
    BY <2>1, FS_Subset, FS_CardinalityType DEF Positives
<1>2. Negatives(dev) \in Int
  BY <1>1 DEF Negatives
<1>3. \A a, b, c \in Int : \E n \in {a, b, c} : n <= a /\ n <= b /\ n <= c
  OBVIOUS
<1> QED
  BY <1>1, <1>2, <1>3 DEF FoldCount

(* What a threshold gets wrong is flagged although it should not be, or    *)
(* not flagged although it should.                                         *)
LEMMA ErrorsCounted ==
  ASSUME NEW rs, Scored(rs), NEW t \in Int
  PROVE  Cardinality(errors(rs, t)) = counts(rs, t).fp + counts(rs, t).fn
<1> DEFINE fp == {i \in DOMAIN rs : (rs[i].s >= t) = TRUE /\ rs[i].y = 0}
           fn == {i \in DOMAIN rs : (rs[i].s >= t) = FALSE /\ rs[i].y = 1}
<1>1. IsFiniteSet(DOMAIN rs)
  BY DEF Scored, Cases
<1>2. IsFiniteSet(fp) /\ IsFiniteSet(fn)
  BY <1>1, FS_Subset
<1>3. fp \cap fn = {}
  OBVIOUS
<1>4. errors(rs, t) = fp \cup fn
  BY DEF errors, Scored, Cases
<1>5. counts(rs, t).fp = Cardinality(fp) /\ counts(rs, t).fn = Cardinality(fn)
  BY DEF counts
<1>6. Cardinality(fp \cup fn) = Cardinality(fp) + Cardinality(fn) - Cardinality({})
  BY <1>2, <1>3, FS_Union
<1> HIDE DEF fp, fn
<1> QED
  BY <1>2, <1>4, <1>5, <1>6, FS_EmptySet, FS_CardinalityType

(* A table of cases that are labelled, which parse sees to, and scored     *)
(* from 0 up; minimums and a beta that are not negative: probabilities and *)
(* the arguments' own meaning, which the program takes as they come; and a *)
(* shuffle that gives each case a place of its own.                        *)
Shuffled(rs, shuffle) ==
  /\ \A i \in DOMAIN rs : shuffle[i] \in Nat
  /\ \A i, j \in DOMAIN rs : shuffle[i] = shuffle[j] => i = j

TunedOnScores(x) ==
  /\ Cases(x.table) /\ Minimums(x.args) /\ x.args.folds \in Int
  /\ Shuffled(x.table, x.args.shuffle)

(* The dev cases of every model that is reported are such cases too.       *)
LEMMA DevCases ==
  ASSUME NEW x, TunedOnScores(x), NEW g \in DOMAIN parse(x.table),
         NEW dev, dev = in_split(parse(x.table)[g], "dev")
  PROVE  /\ Cases(dev) /\ Shuffled(dev, x.args.shuffle)
         /\ in_split(dev, "dev") = dev
<1> DEFINE mine == parse(x.table)[g]
<1>1. mine = [i \in {i \in DOMAIN x.table : x.table[i].group = g} |-> x.table[i]]
  BY DEF parse, Restrict
<1> HIDE DEF mine
<1>2. DOMAIN mine \in SUBSET DOMAIN x.table /\ \A i \in DOMAIN mine : mine[i] = x.table[i]
  BY <1>1
<1>3. dev = [i \in {i \in DOMAIN mine : mine[i].split = "dev"} |-> mine[i]]
  BY DEF in_split, Restrict, mine
<1>4. /\ DOMAIN dev \in SUBSET DOMAIN x.table
      /\ \A i \in DOMAIN dev : dev[i] = x.table[i] /\ dev[i].split = "dev"
  BY <1>2, <1>3
<1>5. IsFiniteSet(DOMAIN dev)
  BY <1>4, FS_Subset DEF TunedOnScores, Cases
<1>6. Cases(dev) /\ Shuffled(dev, x.args.shuffle)
  BY <1>4, <1>5 DEF TunedOnScores, Cases, Shuffled
<1>7. in_split(dev, "dev") = [i \in {i \in DOMAIN dev : dev[i].split = "dev"} |-> dev[i]]
  BY DEF in_split, Restrict
<1>8. {i \in DOMAIN dev : dev[i].split = "dev"} = DOMAIN dev
  BY <1>4
<1> QED
  BY <1>3, <1>6, <1>7, <1>8

LEMMA DevIsScored ==
  ASSUME NEW dev, Cases(dev), NEW args, args.folds \in Int, FoldCount(dev, args) >= 2
  PROVE  Scored(dev)
<1>1. Positives(dev) >= 2
  BY CountOfFolds
<1>2. DOMAIN dev = {} => Positives(dev) = 0
  BY FS_EmptySet DEF Positives
<1>3. Positives(dev) # 0
  BY <1>1
<1>4. DOMAIN dev # {}
  BY <1>2, <1>3, Zenon
<1> QED
  BY <1>4, Zenon DEF Scored

(* A report that is not an error: its folds, two at least, are dealt from  *)
(* its dev cases, and its threshold is chosen on them.                     *)
LEMMA ReportedOn ==
  ASSUME NEW x, TunedOnScores(x), NEW g \in DOMAIN parse(x.table),
         NEW r, r = report(parse(x.table)[g], x.args), r.k > 0
  PROVE  /\ Scored(r.dev) /\ Shuffled(r.dev, x.args.shuffle)
         /\ in_split(r.dev, "dev") = r.dev
         /\ FoldCount(r.dev, x.args) \in Int /\ FoldCount(r.dev, x.args) >= 2
         /\ r.folds = FoldsOf(r.dev, x.args)
         /\ r.tuned = tune(r.dev, r.folds, x.args)
         /\ r.errors = IF r.tuned.shipped = NoThreshold THEN {} ELSE errors(r.dev, r.tuned.shipped)
<1> DEFINE dev == in_split(parse(x.table)[g], "dev")
           k == FoldCount(dev, x.args)
<1>1. Cases(dev) /\ Shuffled(dev, x.args.shuffle) /\ in_split(dev, "dev") = dev
  BY DevCases
<1>2. k \in Int
  BY <1>1, CountOfFolds DEF TunedOnScores
<1>3. k >= 2
  <2>1. k < 2 => r.k = 0
    BY ReportOf
  <2> QED
    BY <1>2, <2>1
<1>4. Scored(dev)
  BY <1>1, <1>3, DevIsScored DEF TunedOnScores
<1>5. ~ (k < 2)
  BY <1>2, <1>3
<1>6. /\ r.dev = dev /\ r.folds = FoldsOf(dev, x.args)
      /\ r.tuned = tune(dev, FoldsOf(dev, x.args), x.args)
      /\ r.errors = IF r.tuned.shipped = NoThreshold THEN {} ELSE errors(dev, r.tuned.shipped)
  BY <1>5, ReportOf
<1> HIDE DEF dev, k
<1> QED
  BY <1>1, <1>2, <1>3, <1>4, <1>6 DEF k

(* ShippedIsBest, for tables of any size: the threshold in the report is   *)
(* the best of all, and the errors that it lists are those it counts.      *)
THEOREM ShippedTheorem == (\A x \in TuneInputs : TunedOnScores(x)) => (Spec => []ShippedIsBest)
<1> SUFFICES ASSUME \A x \in TuneInputs : TunedOnScores(x)
             PROVE  Spec => []ShippedIsBest
  OBVIOUS
<1>1. ASSUME OneCall PROVE ShippedIsBest
  <2> SUFFICES ASSUME Ran("tune_threshold"),
                      NEW g \in DOMAIN result, result[g].k > 0
               PROVE  LET r == result[g]
                          at(t) == counts(r.dev, t)
                          every == 0 .. 1 + CHOOSE m \in {r.dev[i].s : i \in DOMAIN r.dev} :
                                              \A i \in DOMAIN r.dev : r.dev[i].s <= m
                          qualified == {t \in every : meets(at(t), input.args)}
                          shipped == r.tuned.shipped
                      IN IF shipped = NoThreshold THEN qualified = {}
                         ELSE /\ meets(at(shipped), input.args)
                              /\ \A t \in qualified : at_least(f_beta(at(shipped), input.args.b2), f_beta(at(t), input.args.b2))
                              /\ Cardinality(r.errors) = at(shipped).fp + at(shipped).fn
    BY DEF ShippedIsBest
  <2> DEFINE r == result[g]
             most == CHOOSE m \in {r.dev[i].s : i \in DOMAIN r.dev} :
                       \A i \in DOMAIN r.dev : r.dev[i].s <= m
             shipped == r.tuned.shipped
  <2>1. /\ TunedOnScores(input)
        /\ result = LET groups == parse(input.table)
                    IN [h \in DOMAIN groups |-> report(groups[h], input.args)]
    BY <1>1 DEF OneCall, Ran
  <2>2. g \in DOMAIN parse(input.table) /\ r = report(parse(input.table)[g], input.args)
    BY <2>1
  <2>3. Minimums(input.args)
    BY <2>1 DEF TunedOnScores
  <2>4. /\ shipped = choose(r.dev, input.args)
        /\ r.errors = IF shipped = NoThreshold THEN {} ELSE errors(r.dev, shipped)
        /\ Scored(r.dev)
    BY <2>1, <2>2, ReportedOn, TuneOf
  <2> HIDE DEF r
  <2>5. most \in Nat
    <3>1. PICK m \in Scores(r.dev) : \A x \in Scores(r.dev) : x <= m
      BY <2>4, ScoresAreFinite, Extremes
    <3>2. m \in {r.dev[i].s : i \in DOMAIN r.dev} /\ \A i \in DOMAIN r.dev : r.dev[i].s <= m
      BY <3>1 DEF Scores
    <3>3. most \in Scores(r.dev)
      BY <3>2 DEF Scores
    <3> QED
      BY <2>4, <3>3, ScoresAreFinite
  <2>6. IF shipped = NoThreshold THEN {t \in Int : meets(counts(r.dev, t), input.args)} = {}
        ELSE /\ shipped \in Int /\ meets(counts(r.dev, shipped), input.args)
             /\ \A t \in Int : meets(counts(r.dev, t), input.args) =>
                  at_least(f_beta(counts(r.dev, shipped), input.args.b2),
                           f_beta(counts(r.dev, t), input.args.b2))
    BY <2>3, <2>4, ChoiceTheorem
  <2>7. shipped # NoThreshold =>
          Cardinality(r.errors) = counts(r.dev, shipped).fp + counts(r.dev, shipped).fn
    BY <2>4, <2>6, ErrorsCounted
  <2>8. 0 .. 1 + most \subseteq Int
    BY <2>5
  <2> HIDE DEF most, shipped
  <2> QED
    BY <2>6, <2>7, <2>8 DEF most, shipped, r
<1> QED
  BY <1>1, CallsKeepInputs, PTL

---------------------------------------------------------------------------
(* tune_threshold: the folds *)

(* Of the members of a finite set that are ordered by a number of their    *)
(* own, one has any given count of members before it.                      *)
LEMMA RankOfEach ==
  ASSUME NEW S, IsFiniteSet(S), NEW f, \A i \in S : f[i] \in Nat,
         \A i, j \in S : f[i] = f[j] => i = j,
         NEW p \in Nat, p < Cardinality(S)
  PROVE  \E i \in S : Cardinality({j \in S : f[j] < f[i]}) = p
<1> DEFINE before(i) == {j \in S : f[j] < f[i]}
           m == Cardinality(S)
           rank == [i \in S |-> Cardinality(before(i))]
<1>1. m \in Nat
  BY FS_CardinalityType
<1>2. ASSUME NEW i \in S
      PROVE  IsFiniteSet(before(i)) /\ Cardinality(before(i)) \in Nat /\ Cardinality(before(i)) < m
  <2>1. before(i) \in SUBSET S /\ i \notin before(i)
    OBVIOUS
  <2> HIDE DEF before
  <2>2. IsFiniteSet(before(i)) /\ Cardinality(before(i)) \in Nat /\ Cardinality(before(i)) <= m
    BY <2>1, FS_Subset, FS_CardinalityType
  <2>3. Cardinality(before(i)) # m
    BY <2>1, FS_Subset
  <2> QED
    BY <1>1, <2>2, <2>3
<1>3. ASSUME NEW i \in S, NEW j \in S, f[i] < f[j]
      PROVE  Cardinality(before(i)) < Cardinality(before(j))
  <2>1. before(i) \in SUBSET before(j) /\ i \in before(j) /\ i \notin before(i)
    BY <1>3
  <2> HIDE DEF before
  <2>2. /\ IsFiniteSet(before(j)) /\ Cardinality(before(i)) \in Nat /\ Cardinality(before(j)) \in Nat
    BY <1>2
  <2>3. Cardinality(before(i)) <= Cardinality(before(j)) /\ Cardinality(before(i)) # Cardinality(before(j))
    BY <2>1, <2>2, FS_Subset
  <2> QED
    BY <2>2, <2>3
<1>4. IsFiniteSet(0 .. m - 1) /\ Cardinality(0 .. m - 1) = m
  <2> HIDE DEF m
  <2>1. 0 \in Int /\ m - 1 \in Int /\ (0 > m - 1 => m = 0) /\ m - 1 - 0 + 1 = m
    BY <1>1
  <2> QED
    BY <2>1, FS_Interval
<1>5. rank \in [S -> 0 .. m - 1]
  <2> HIDE DEF before, m
  <2>1. \A i \in S : Cardinality(before(i)) \in 0 .. m - 1
    BY <1>1, <1>2
  <2> QED
    BY <2>1
<1>6. ASSUME NEW i \in S, NEW j \in S, rank[i] = rank[j] PROVE i = j
  <2>1. Cardinality(before(i)) = Cardinality(before(j))
    BY <1>6
  <2> HIDE DEF before
  <2>2. ~ (f[i] < f[j]) /\ ~ (f[j] < f[i])
    BY <1>2, <1>3, <2>1
  <2> QED
    BY <2>2
<1>7. rank \in Injection(S, 0 .. m - 1)
  <2> HIDE DEF rank
  <2> QED
    BY <1>5, <1>6 DEF Injection, IsInjective
<1>8. rank \in Surjection(S, 0 .. m - 1)
  <2> HIDE DEF rank
  <2> QED
    BY <1>4, <1>7, FS_Injection DEF m
<1>9. p \in 0 .. m - 1
  BY <1>1
<1>10. \E i \in S : rank[i] = p
  <2> HIDE DEF rank
  <2> QED
    BY <1>8, <1>9 DEF Surjection
<1> QED
  BY <1>10

(* Where a case is dealt                                                   *)
Place(rs, shuffle, i) == Cardinality({j \in DOMAIN rs : rs[j].y = rs[i].y /\ shuffle[j] < shuffle[i]})

LEMMA FoldOf ==
  ASSUME NEW rs, NEW k, NEW shuffle
  PROVE  /\ DOMAIN stratified_folds(rs, k, shuffle) = 0 .. k - 1
         /\ \A n \in 0 .. k - 1 :
              stratified_folds(rs, k, shuffle)[n] = {i \in DOMAIN rs : Place(rs, shuffle, i) % k = n}
BY DEF stratified_folds, Place

OfLabel(rs, y) == {i \in DOMAIN rs : rs[i].y = y}

(* The first cases of a label go to a fold each.                           *)
LEMMA DealtToEach ==
  ASSUME NEW rs, Cases(rs), NEW shuffle, Shuffled(rs, shuffle), NEW y,
         NEW p \in Nat, p < Cardinality(OfLabel(rs, y))
  PROVE  \E i \in OfLabel(rs, y) : Place(rs, shuffle, i) = p
<1> DEFINE S == OfLabel(rs, y)
<1> USE DEF OfLabel
<1>1. IsFiniteSet(S)
  BY FS_Subset DEF Cases
<1>2. (\A i \in S : shuffle[i] \in Nat) /\ \A i, j \in S : shuffle[i] = shuffle[j] => i = j
  BY DEF Shuffled
<1>3. S \in SUBSET DOMAIN rs /\ \A i \in S : rs[i].y = y
  OBVIOUS
<1>4. \A i \in S : {j \in DOMAIN rs : rs[j].y = rs[i].y /\ shuffle[j] < shuffle[i]} = {j \in S : shuffle[j] < shuffle[i]}
  OBVIOUS
<1> HIDE DEF OfLabel
<1>5. PICK i \in S : Cardinality({j \in S : shuffle[j] < shuffle[i]}) = p
  <2> HIDE DEF S
  <2> QED
    BY <1>1, <1>2, RankOfEach DEF S
<1> QED
  BY <1>3, <1>4, <1>5 DEF Place

(* Cases of both labels are dealt to each fold, and to the other folds.    *)
LEMMA FoldsHaveBothLabels ==
  ASSUME NEW rs, Cases(rs), NEW args, args.folds \in Int, Shuffled(rs, args.shuffle),
         FoldCount(rs, args) >= 2, NEW n \in DOMAIN FoldsOf(rs, args), NEW y \in {0, 1}
  PROVE  /\ \E i \in FoldsOf(rs, args)[n] : rs[i].y = y
         /\ \E i \in DOMAIN rs \ FoldsOf(rs, args)[n] : rs[i].y = y
<1> DEFINE k == FoldCount(rs, args)
           S(z) == OfLabel(rs, z)
           other == IF n = 0 THEN 1 ELSE 0
<1>1. k \in Int /\ k >= 2 /\ k <= Positives(rs) /\ k <= Negatives(rs)
  BY CountOfFolds
<1>2. /\ DOMAIN FoldsOf(rs, args) = 0 .. k - 1
      /\ \A m \in 0 .. k - 1 : FoldsOf(rs, args)[m] = {i \in DOMAIN rs : Place(rs, args.shuffle, i) % k = m}
  BY FoldOf DEF FoldsOf
<1>3. Cardinality(S(0)) = Negatives(rs) /\ Cardinality(S(1)) = Positives(rs)
  <2>1. S(0) = DOMAIN rs \ S(1) /\ DOMAIN rs \cap S(1) = S(1)
    BY DEF Cases, OfLabel
  <2>2. Cardinality(S(1)) = Positives(rs)
    BY DEF Positives, OfLabel
  <2> HIDE DEF S
  <2>3. Cardinality(S(0)) = Cardinality(DOMAIN rs) - Cardinality(S(1))
    BY <2>1, FS_Difference DEF Cases
  <2> QED
    BY <2>2, <2>3 DEF Negatives
<1>4. k <= Cardinality(S(y)) /\ Cardinality(S(y)) \in Int
  <2>1. Negatives(rs) \in Int /\ Positives(rs) \in Int
    BY CountOfFolds
  <2> HIDE DEF S
  <2> QED
    BY <1>1, <1>3, <2>1
<1> HIDE DEF k
<1>5. n \in 0 .. k - 1 /\ other \in 0 .. k - 1 /\ other # n
  BY <1>1, <1>2
<1>6. ASSUME NEW p \in 0 .. k - 1 PROVE \E i \in FoldsOf(rs, args)[p] : rs[i].y = y
  <2>1. p \in Nat /\ p < Cardinality(S(y))
    BY <1>1, <1>4
  <2>2. PICK i \in OfLabel(rs, y) : Place(rs, args.shuffle, i) = p
    BY <2>1, DealtToEach
  <2>3. p % k = p
    BY <1>1
  <2> QED
    BY <1>2, <2>2, <2>3 DEF OfLabel
<1>7. PICK i \in FoldsOf(rs, args)[other] : rs[i].y = y
  BY <1>5, <1>6
<1>8. i \in DOMAIN rs \ FoldsOf(rs, args)[n]
  BY <1>2, <1>5, <1>7
<1> QED
  BY <1>5, <1>6, <1>7, <1>8

(* A case is dealt to one fold.                                            *)
LEMMA DealtOnce ==
  ASSUME NEW rs, Cases(rs), NEW k \in Nat \ {0}, NEW shuffle, NEW i \in DOMAIN rs
  PROVE  LET folds == stratified_folds(rs, k, shuffle)
         IN Cardinality({n \in DOMAIN folds : i \in folds[n]}) = 1
<1> DEFINE folds == stratified_folds(rs, k, shuffle)
           p == Place(rs, shuffle, i)
           S == {n \in DOMAIN folds : i \in folds[n]}
<1>1. p \in Nat
  <2>1. {j \in DOMAIN rs : rs[j].y = rs[i].y /\ shuffle[j] < shuffle[i]} \in SUBSET DOMAIN rs
    OBVIOUS
  <2> QED
    BY <2>1, FS_Subset, FS_CardinalityType DEF Place, Cases
<1>2. p % k \in 0 .. k - 1
  BY <1>1
<1>3. \A n \in 0 .. k - 1 : i \in folds[n] <=> n = p % k
  BY FoldOf
<1>4. S = {p % k}
  BY <1>2, <1>3, FoldOf
<1> HIDE DEF S
<1> QED
  BY <1>4, FS_Singleton DEF S

(* Flipping the labels that a fold holds out changes nothing that its      *)
(* threshold is trained on.                                                *)
LEMMA TrainedOnOthers ==
  ASSUME NEW rs, NEW fold, NEW new
  PROVE  train([i \in DOMAIN rs |-> IF i \in fold THEN new[i] ELSE rs[i]], fold) = train(rs, fold)
BY DEF train, Restrict

(* HoldoutIsSeparate, for tables of any size: a threshold is tested on     *)
(* cases that it was not trained on, and on both labels.                   *)
THEOREM HoldoutTheorem == (\A x \in TuneInputs : TunedOnScores(x)) => (Spec => []HoldoutIsSeparate)
<1> SUFFICES ASSUME \A x \in TuneInputs : TunedOnScores(x)
             PROVE  Spec => []HoldoutIsSeparate
  OBVIOUS
<1>1. ASSUME OneCall PROVE HoldoutIsSeparate
  <2> DEFINE flipped(r, n) == [i \in DOMAIN r.dev |->
                                 IF i \in r.folds[n] THEN [r.dev[i] EXCEPT !.y = 1 - @] ELSE r.dev[i]]
             labels(r, S) == {r.dev[i].y : i \in S}
  <2> SUFFICES ASSUME Ran("tune_threshold"),
                      NEW g \in DOMAIN result, result[g].k > 0,
                      NEW r, r = result[g]
               PROVE  /\ report(r.dev, input.args).tuned = r.tuned
                      /\ \A n \in DOMAIN r.folds :
                           /\ tune(flipped(r, n), r.folds, input.args).thresholds[n] = r.tuned.thresholds[n]
                           /\ labels(r, r.folds[n]) = {0, 1} /\ labels(r, DOMAIN r.dev \ r.folds[n]) = {0, 1}
                      /\ \A i \in DOMAIN r.dev : Cardinality({n \in DOMAIN r.folds : i \in r.folds[n]}) = 1
    BY DEF HoldoutIsSeparate
  <2>1. /\ TunedOnScores(input)
        /\ result = LET groups == parse(input.table)
                    IN [h \in DOMAIN groups |-> report(groups[h], input.args)]
    BY <1>1 DEF OneCall, Ran
  <2>2. /\ Scored(r.dev) /\ Shuffled(r.dev, input.args.shuffle) /\ in_split(r.dev, "dev") = r.dev
        /\ FoldCount(r.dev, input.args) \in Int /\ FoldCount(r.dev, input.args) >= 2
        /\ r.folds = FoldsOf(r.dev, input.args) /\ r.tuned = tune(r.dev, r.folds, input.args)
    <3>1. g \in DOMAIN parse(input.table) /\ r = report(parse(input.table)[g], input.args) /\ r.k > 0
      BY <2>1
    <3> QED
      BY <2>1, <3>1, ReportedOn
  <2>3. Cases(r.dev) /\ input.args.folds \in Int
    BY <2>1, <2>2 DEF Scored, TunedOnScores
  <2>4. report(r.dev, input.args).tuned = r.tuned
    <3>1. ~ (FoldCount(r.dev, input.args) < 2)
      BY <2>2
    <3> QED
      BY <2>2, <3>1, ReportOf
  <2>5. ASSUME NEW n \in DOMAIN r.folds
        PROVE  tune(flipped(r, n), r.folds, input.args).thresholds[n] = r.tuned.thresholds[n]
    <3> DEFINE new == [i \in DOMAIN r.dev |-> [r.dev[i] EXCEPT !.y = 1 - @]]
    <3>1. flipped(r, n) = [i \in DOMAIN r.dev |-> IF i \in r.folds[n] THEN new[i] ELSE r.dev[i]]
      OBVIOUS
    <3> HIDE DEF flipped, new
    <3>2. train(flipped(r, n), r.folds[n]) = train(r.dev, r.folds[n])
      BY <3>1, TrainedOnOthers
    <3> QED
      BY <2>2, <2>5, <3>2, TuneOf
  <2>6. ASSUME NEW n \in DOMAIN r.folds
        PROVE  labels(r, r.folds[n]) = {0, 1} /\ labels(r, DOMAIN r.dev \ r.folds[n]) = {0, 1}
    <3>1. r.folds[n] \subseteq DOMAIN r.dev
      BY <2>2, <2>6, FoldOf DEF FoldsOf
    <3>2. \A i \in DOMAIN r.dev : r.dev[i].y \in {0, 1}
      BY <2>3 DEF Cases
    <3>3. \A y \in {0, 1} : /\ \E i \in r.folds[n] : r.dev[i].y = y
                            /\ \E i \in DOMAIN r.dev \ r.folds[n] : r.dev[i].y = y
      BY <2>2, <2>3, <2>6, FoldsHaveBothLabels
    <3> QED
      BY <3>1, <3>2, <3>3
  <2>7. ASSUME NEW i \in DOMAIN r.dev
        PROVE  Cardinality({n \in DOMAIN r.folds : i \in r.folds[n]}) = 1
    <3>1. FoldCount(r.dev, input.args) \in Nat \ {0}
      BY <2>2
    <3> QED
      BY <2>2, <2>3, <3>1, DealtOnce DEF FoldsOf
  <2> QED
    BY <2>4, <2>5, <2>6, <2>7
<1> QED
  BY <1>1, CallsKeepInputs, PTL

---------------------------------------------------------------------------
(* check-python-scalability: syntax trees *)

Slots == {"before", "body", "after", "annotation"}
Steps == Slots \X (Nat \ {0})

(* A tree of bounded height: each node but the root is a child of another, *)
(* in a slot that a node of that kind has.                                 *)
SyntaxTree(tree) ==
  /\ DOMAIN tree \subseteq Seq(Steps) /\ <<>> \in DOMAIN tree
  /\ \E N \in Nat : \A p \in DOMAIN tree : Len(p) <= N
  /\ \A p \in DOMAIN tree :
       /\ \A k \in 0 .. Len(p) : Prefix(p, k) \in DOMAIN tree
       /\ \A slot \in Slots : tree[p][slot] \in Nat
       /\ \A slot \in Slots, i \in Nat \ {0} : Append(p, <<slot, i>>) \in DOMAIN tree <=> i <= tree[p][slot]
       /\ \/ tree[p].is = "loop" /\ tree[p].annotation = 0
          \/ tree[p].is = "def" /\ tree[p].after = 0
          \/ tree[p].is = "lambda" /\ tree[p].after = 0 /\ tree[p].annotation = 0
          \/ tree[p].is = "annotated" /\ tree[p].body = 0 /\ tree[p].after = 0
          \/ tree[p].is = "other" /\ tree[p].body = 0 /\ tree[p].after = 0 /\ tree[p].annotation = 0

(* Child c of p is the i-th in slot.                                       *)
IsChild(tree, p, slot, i, c) ==
  p \in DOMAIN tree /\ slot \in Slots /\ i \in 1 .. tree[p][slot] /\ c = Append(p, <<slot, i>>)

(* The steps to a child are those to its parent and one more.              *)
LEMMA PathOfChild ==
  ASSUME NEW tree, SyntaxTree(tree), NEW p, NEW slot, NEW i, NEW c, IsChild(tree, p, slot, i, c)
  PROVE  /\ c \in DOMAIN tree /\ c \in Seq(Steps) /\ p \in Seq(Steps)
         /\ Len(p) \in Nat /\ Len(c) = Len(p) + 1
         /\ \A k \in 1 .. Len(p) : c[k] = p[k]
         /\ c[Len(p) + 1][1] = slot
         /\ \A k \in 0 .. Len(p) : Prefix(c, k) = Prefix(p, k)
         /\ Prefix(c, Len(p)) = p
<1>1. p \in Seq(Steps) /\ tree[p][slot] \in Nat /\ slot \in Slots /\ i \in Nat \ {0} /\ c = Append(p, <<slot, i>>)
      /\ p \in DOMAIN tree /\ i <= tree[p][slot]
  BY DEF SyntaxTree, IsChild
<1>2. <<slot, i>> \in Steps /\ <<slot, i>>[1] = slot
  BY <1>1 DEF Steps
<1>3. c \in DOMAIN tree
  BY <1>1 DEF SyntaxTree
<1> DEFINE s == <<slot, i>>
<1> HIDE DEF s
<1>4. c = Append(p, s) /\ s \in Steps /\ s[1] = slot
  BY <1>1, <1>2 DEF s
<1>5. /\ Len(p) \in Nat /\ Len(c) = Len(p) + 1 /\ c \in Seq(Steps)
      /\ \A k \in 1 .. Len(p) : c[k] = p[k]
      /\ c[Len(p) + 1] = s
  BY <1>1, <1>4
<1>6. ASSUME NEW k \in 0 .. Len(p) PROVE Prefix(c, k) = Prefix(p, k)
  <2>1. /\ Prefix(c, k) \in Seq(Steps) /\ Len(Prefix(c, k)) = k
        /\ Prefix(p, k) \in Seq(Steps) /\ Len(Prefix(p, k)) = k
    BY <1>1, <1>5 DEF Prefix
  <2>2. \A j \in 1 .. k : Prefix(c, k)[j] = Prefix(p, k)[j]
    BY <1>1, <1>5 DEF Prefix
  <2> QED
    BY <2>1, <2>2, SeqEqual
<1>7. Prefix(p, Len(p)) = p
  <2>1. Prefix(p, Len(p)) \in Seq(Steps) /\ Len(Prefix(p, Len(p))) = Len(p)
    BY <1>1, <1>5 DEF Prefix
  <2>2. \A j \in 1 .. Len(p) : Prefix(p, Len(p))[j] = p[j]
    BY <1>1, <1>5 DEF Prefix
  <2> QED
    BY <1>1, <2>1, <2>2, SeqEqual
<1>8. Prefix(c, Len(p)) = p
  BY <1>5, <1>6, <1>7
<1>9. c[Len(p) + 1][1] = slot
  BY <1>4, <1>5
<1> QED
  BY <1>1, <1>3, <1>5, <1>6, <1>8, <1>9, Zenon

(* A child goes into the bodies its parent does, and perhaps into its own. *)
LEMMA WithinChild ==
  ASSUME NEW tree, SyntaxTree(tree), NEW p, NEW slot, NEW i, NEW c, IsChild(tree, p, slot, i, c), NEW kinds
  PROVE  /\ \A k \in 0 .. Len(p) - 1 : Within(tree, c, k, kinds) <=> Within(tree, p, k, kinds)
         /\ Within(tree, c, Len(p), kinds) <=> tree[p].is \in kinds /\ slot = "body"
         /\ ~Within(tree, c, Len(p) + 1, kinds) /\ ~Within(tree, p, Len(p), kinds)
<1>1. /\ Len(p) \in Nat /\ Len(c) = Len(p) + 1
      /\ \A k \in 1 .. Len(p) : c[k] = p[k]
      /\ c[Len(p) + 1][1] = slot
      /\ \A k \in 0 .. Len(p) : Prefix(c, k) = Prefix(p, k)
      /\ Prefix(c, Len(p)) = p
  BY PathOfChild
<1>2. ASSUME NEW k \in 0 .. Len(p) - 1
      PROVE  Within(tree, c, k, kinds) <=> Within(tree, p, k, kinds)
  <2>1. k < Len(c) /\ k < Len(p) /\ Prefix(c, k) = Prefix(p, k) /\ c[k + 1] = p[k + 1]
    BY <1>1
  <2> QED
    BY <2>1 DEF Within
<1> QED
  BY <1>1, <1>2 DEF Within

(* What surrounds a child                                                  *)
LEMMA AroundChild ==
  ASSUME NEW tree, SyntaxTree(tree), NEW p, NEW slot, NEW i, NEW c, IsChild(tree, p, slot, i, c)
  PROVE  /\ Cardinality(Around(tree, p)) \in Nat
         /\ slot = "body" /\ tree[p].is = "loop" => Cardinality(Around(tree, c)) = Cardinality(Around(tree, p)) + 1
         /\ slot = "body" /\ tree[p].is \in {"def", "lambda"} => Cardinality(Around(tree, c)) = 0
         /\ slot # "body" \/ tree[p].is \notin {"loop", "def", "lambda"} => Around(tree, c) = Around(tree, p)
<1> DEFINE n == Len(p)
           calls == {"def", "lambda"}
<1>1. n \in Nat /\ Len(c) = n + 1
  BY PathOfChild
<1>2. \A kinds : /\ \A k \in 0 .. n - 1 : Within(tree, c, k, kinds) <=> Within(tree, p, k, kinds)
                 /\ Within(tree, c, n, kinds) <=> tree[p].is \in kinds /\ slot = "body"
                 /\ ~Within(tree, c, n + 1, kinds) /\ ~Within(tree, p, n, kinds)
  BY WithinChild
<1>3. /\ \A k : k \in 0 .. n <=> k \in 0 .. n - 1 \/ k = n
      /\ \A k : k \in 0 .. n + 1 <=> k \in 0 .. n - 1 \/ k = n \/ k = n + 1
      /\ \A k \in 0 .. n - 1 : k < n /\ ~ (n < k)
      /\ ~ (n < n)
  BY <1>1
<1>4. Around(tree, p) = {k \in 0 .. n - 1 : /\ Within(tree, p, k, {"loop"})
                                            /\ \A d \in 0 .. n - 1 : Within(tree, p, d, calls) => d < k}
  BY <1>2, <1>3 DEF Around
<1>5. Around(tree, c) = {k \in 0 .. n : /\ Within(tree, c, k, {"loop"})
                                        /\ \A d \in 0 .. n : Within(tree, c, d, calls) => d < k}
  BY <1>1, <1>2, <1>3 DEF Around
<1> HIDE DEF n
<1>6. IsFiniteSet(Around(tree, p)) /\ Cardinality(Around(tree, p)) \in Nat /\ n \notin Around(tree, p)
  <2>1. IsFiniteSet(0 .. n - 1)
    BY <1>1, FS_Interval
  <2>2. Around(tree, p) \in SUBSET (0 .. n - 1)
    BY <1>4
  <2> QED
    BY <1>3, <2>1, <2>2, FS_Subset, FS_CardinalityType
<1>7. CASE slot = "body" /\ tree[p].is = "loop"
  <2>1. Around(tree, c) = Around(tree, p) \cup {n}
    <3>1. Within(tree, c, n, {"loop"}) /\ ~Within(tree, c, n, calls)
      BY <1>2, <1>7
    <3>2. ASSUME NEW k \in 0 .. n - 1 PROVE k \in Around(tree, c) <=> k \in Around(tree, p)
      BY <1>2, <1>3, <1>4, <1>5, <3>1
    <3>3. n \in Around(tree, c)
      BY <1>2, <1>3, <1>5, <3>1
    <3>4. Around(tree, c) \subseteq (0 .. n - 1) \cup {n} /\ Around(tree, p) \subseteq 0 .. n - 1
      BY <1>3, <1>4, <1>5
    <3> QED
      BY <3>2, <3>3, <3>4
  <2>2. Cardinality(Around(tree, p) \cup {n}) = Cardinality(Around(tree, p)) + 1
    BY <1>6, FS_AddElement
  <2> QED
    BY <1>6, <1>7, <2>1, <2>2
<1>8. CASE slot = "body" /\ tree[p].is \in calls
  <2>1. Within(tree, c, n, calls) /\ n \in 0 .. n
    BY <1>2, <1>3, <1>8
  <2>2. Around(tree, c) = {}
    BY <1>3, <1>5, <2>1
  <2> QED
    BY <1>6, <1>8, <2>2, FS_EmptySet
<1>9. CASE slot # "body" \/ tree[p].is \notin {"loop", "def", "lambda"}
  <2>1. ~Within(tree, c, n, {"loop"}) /\ ~Within(tree, c, n, calls)
    BY <1>2, <1>9
  <2>2. Around(tree, c) = Around(tree, p)
    BY <1>2, <1>3, <1>4, <1>5, <2>1
  <2> QED
    BY <1>6, <1>9, <2>2
<1> QED
  BY <1>7, <1>8, <1>9

LEMMA InFunctionChild ==
  ASSUME NEW tree, SyntaxTree(tree), NEW p, NEW slot, NEW i, NEW c, IsChild(tree, p, slot, i, c)
  PROVE  InFunction(tree, c) <=> InFunction(tree, p) \/ (slot = "body" /\ tree[p].is = "def")
<1> DEFINE n == Len(p)
<1>1. n \in Nat /\ Len(c) = n + 1
  BY PathOfChild
<1>2. /\ \A k \in 0 .. n - 1 : Within(tree, c, k, {"def"}) <=> Within(tree, p, k, {"def"})
      /\ Within(tree, c, n, {"def"}) <=> tree[p].is \in {"def"} /\ slot = "body"
      /\ ~Within(tree, c, n + 1, {"def"}) /\ ~Within(tree, p, n, {"def"})
  BY WithinChild
<1>3. /\ \A k : k \in 0 .. n <=> k \in 0 .. n - 1 \/ k = n
      /\ \A k : k \in 0 .. n + 1 <=> k \in 0 .. n - 1 \/ k = n \/ k = n + 1
  BY <1>1
<1> QED
  BY <1>1, <1>2, <1>3 DEF InFunction

LEMMA EvaluatedChild ==
  ASSUME NEW tree, SyntaxTree(tree), NEW future, NEW p, NEW slot, NEW i, NEW c, IsChild(tree, p, slot, i, c)
  PROVE  Evaluated(tree, future, c) <=>
           /\ Evaluated(tree, future, p)
           /\ slot = "annotation" => ~future /\ (tree[p].is = "annotated" => ~InFunction(tree, p))
<1> DEFINE n == Len(p)
           Read(q, k) == q[k + 1][1] = "annotation" =>
                           /\ ~future
                           /\ tree[Prefix(q, k)].is = "annotated" => ~InFunction(tree, Prefix(q, k))
<1>1. /\ n \in Nat /\ Len(c) = n + 1
      /\ \A k \in 1 .. n : c[k] = p[k]
      /\ c[n + 1][1] = slot
      /\ \A k \in 0 .. n : Prefix(c, k) = Prefix(p, k)
      /\ Prefix(c, n) = p
  BY PathOfChild
<1>2. ASSUME NEW k \in 0 .. n - 1 PROVE Read(c, k) <=> Read(p, k)
  <2>1. Prefix(c, k) = Prefix(p, k) /\ c[k + 1] = p[k + 1]
    BY <1>1
  <2> QED
    BY <2>1
<1>3. Read(c, n) <=> (slot = "annotation" => ~future /\ (tree[p].is = "annotated" => ~InFunction(tree, p)))
  BY <1>1
<1>4. \A k : k \in 0 .. Len(c) - 1 <=> k \in 0 .. n - 1 \/ k = n
  BY <1>1
<1>5. (Evaluated(tree, future, c) <=> \A k \in 0 .. Len(c) - 1 : Read(c, k))
      /\ (Evaluated(tree, future, p) <=> \A k \in 0 .. n - 1 : Read(p, k))
  BY DEF Evaluated
<1> HIDE DEF Read
<1> QED
  BY <1>2, <1>3, <1>4, <1>5

(* What is evaluated is in something that is.                              *)
LEMMA EvaluatedPrefix ==
  ASSUME NEW tree, SyntaxTree(tree), NEW future, NEW q \in DOMAIN tree, NEW k \in 0 .. Len(q), Evaluated(tree, future, q)
  PROVE  Evaluated(tree, future, Prefix(q, k))
<1>1. q \in Seq(Steps) /\ Len(q) \in Nat
  BY DEF SyntaxTree
<1>2. /\ Prefix(q, k) \in Seq(Steps) /\ Len(Prefix(q, k)) = k
      /\ \A j \in 1 .. k : Prefix(q, k)[j] = q[j]
  BY <1>1 DEF Prefix
<1>3. ASSUME NEW j \in 0 .. k - 1 PROVE Prefix(Prefix(q, k), j) = Prefix(q, j)
  <2>1. /\ Prefix(Prefix(q, k), j) \in Seq(Steps) /\ Len(Prefix(Prefix(q, k), j)) = j
        /\ Prefix(q, j) \in Seq(Steps) /\ Len(Prefix(q, j)) = j
    BY <1>1 DEF Prefix
  <2>2. \A l \in 1 .. j : Prefix(Prefix(q, k), j)[l] = Prefix(q, j)[l]
    BY <1>1 DEF Prefix
  <2> QED
    BY <2>1, <2>2, SeqEqual
<1>4. \A j \in 0 .. k - 1 : j \in 0 .. Len(q) - 1 /\ j + 1 \in 1 .. k
  BY <1>1
<1> QED
  BY <1>2, <1>3, <1>4 DEF Evaluated

(* The loops that are to be reported at a node or under it                 *)
Reported(tree, future, q) ==
  /\ tree[q].is = "loop" /\ Evaluated(tree, future, q)
  /\ Cardinality(Around(tree, q)) >= MAX_LOOP_DEPTH

Below(tree, future, p) ==
  {q \in DOMAIN tree : Len(p) <= Len(q) /\ Prefix(q, Len(p)) = p /\ Reported(tree, future, q)}

BelowSlot(tree, future, p, slot) ==
  UNION {Below(tree, future, Append(p, <<slot, i>>)) : i \in 1 .. tree[p][slot]}

(* They are the node itself and those under its children.                  *)
LEMMA BelowIsChildren ==
  ASSUME NEW tree, SyntaxTree(tree), NEW future, NEW p \in DOMAIN tree
  PROVE  Below(tree, future, p) =
           (IF Reported(tree, future, p) THEN {p} ELSE {})
           \cup BelowSlot(tree, future, p, "before") \cup BelowSlot(tree, future, p, "body")
           \cup BelowSlot(tree, future, p, "after") \cup BelowSlot(tree, future, p, "annotation")
<1>1. p \in Seq(Steps) /\ Len(p) \in Nat
  BY DEF SyntaxTree
<1>2. Prefix(p, Len(p)) = p
  <2>1. Prefix(p, Len(p)) \in Seq(Steps) /\ Len(Prefix(p, Len(p))) = Len(p)
    BY <1>1 DEF Prefix
  <2>2. \A j \in 1 .. Len(p) : Prefix(p, Len(p))[j] = p[j]
    BY <1>1 DEF Prefix
  <2> QED
    BY <1>1, <2>1, <2>2, SeqEqual
<1>3. p \in Below(tree, future, p) <=> Reported(tree, future, p)
  BY <1>1, <1>2 DEF Below
<1>4. ASSUME NEW q \in Below(tree, future, p), q # p
      PROVE  \E slot \in Slots : q \in BelowSlot(tree, future, p, slot)
  <2> DEFINE n == Len(p)
             s == q[n + 1]
             c == Prefix(q, n + 1)
  <2>1. q \in DOMAIN tree /\ q \in Seq(Steps) /\ Len(q) \in Nat /\ n <= Len(q) /\ Prefix(q, n) = p /\ Reported(tree, future, q)
    BY <1>4 DEF Below, SyntaxTree
  <2>2. n < Len(q)
    <3>1. Prefix(q, Len(q)) = q
      <4>1. Prefix(q, Len(q)) \in Seq(Steps) /\ Len(Prefix(q, Len(q))) = Len(q)
        BY <2>1 DEF Prefix
      <4>2. \A j \in 1 .. Len(q) : Prefix(q, Len(q))[j] = q[j]
        BY <2>1 DEF Prefix
      <4> QED
        BY <2>1, <4>1, <4>2, SeqEqual
    <3>2. n # Len(q)
      BY <1>4, <2>1, <3>1
    <3> QED
      BY <1>1, <2>1, <3>2
  <2>3. s \in Steps /\ s = <<s[1], s[2]>> /\ s[1] \in Slots /\ s[2] \in Nat \ {0}
    <3>1. s \in Steps
      BY <1>1, <2>1, <2>2
    <3> QED
      BY <3>1 DEF Steps
  <2>4. c \in DOMAIN tree
    BY <1>1, <2>1, <2>2 DEF SyntaxTree
  <2>5. c = Append(p, s)
    <3>1. c \in Seq(Steps) /\ Len(c) = n + 1 /\ \A j \in 1 .. n + 1 : c[j] = q[j]
      BY <1>1, <2>1, <2>2 DEF Prefix
    <3>2. \A j \in 1 .. n : p[j] = q[j]
      <4>1. \A j \in 1 .. n : Prefix(q, n)[j] = q[j]
        BY <1>1, <2>1 DEF Prefix
      <4> QED
        BY <2>1, <4>1
    <3> HIDE DEF s, c
    <3>3. Append(p, s) \in Seq(Steps) /\ Len(Append(p, s)) = n + 1
          /\ (\A j \in 1 .. n : Append(p, s)[j] = p[j]) /\ Append(p, s)[n + 1] = s
      BY <1>1, <2>3
    <3>4. \A j \in 1 .. n + 1 : c[j] = Append(p, s)[j]
      <4>1. \A j \in 1 .. n + 1 : j \in 1 .. n \/ j = n + 1
        BY <1>1
      <4> QED
        BY <3>1, <3>2, <3>3, <4>1 DEF s
    <3> QED
      BY <3>1, <3>3, <3>4, SeqEqual
  <2>6. s[2] \in 1 .. tree[p][s[1]]
    <3>1. Append(p, <<s[1], s[2]>>) \in DOMAIN tree /\ tree[p][s[1]] \in Nat
      BY <2>3, <2>4, <2>5 DEF SyntaxTree
    <3>2. s[2] <= tree[p][s[1]]
      BY <2>3, <3>1 DEF SyntaxTree
    <3> QED
      BY <2>3, <3>1, <3>2
  <2>7. q \in Below(tree, future, c)
    <3>1. Len(c) = n + 1 /\ n + 1 <= Len(q)
      BY <1>1, <2>1, <2>2 DEF Prefix
    <3> QED
      BY <2>1, <3>1 DEF Below
  <2> HIDE DEF s, c
  <2>8. q \in BelowSlot(tree, future, p, s[1])
    BY <2>3, <2>5, <2>6, <2>7 DEF BelowSlot
  <2> QED
    BY <2>3, <2>8
<1>5. ASSUME NEW slot \in Slots, NEW q \in BelowSlot(tree, future, p, slot)
      PROVE  q \in Below(tree, future, p)
  <2>1. PICK i \in 1 .. tree[p][slot] : q \in Below(tree, future, Append(p, <<slot, i>>))
    BY DEF BelowSlot
  <2> DEFINE c == Append(p, <<slot, i>>)
  <2>2. IsChild(tree, p, slot, i, c)
    BY DEF IsChild
  <2> HIDE DEF c
  <2>3. c \in Seq(Steps) /\ Len(c) = Len(p) + 1 /\ Prefix(c, Len(p)) = p
    BY <2>2, PathOfChild
  <2>4. q \in DOMAIN tree /\ q \in Seq(Steps) /\ Len(q) \in Nat /\ Len(c) <= Len(q) /\ Prefix(q, Len(c)) = c
        /\ Reported(tree, future, q)
    BY <2>1 DEF Below, SyntaxTree, c
  <2>5. Prefix(q, Len(p)) = Prefix(c, Len(p))
    <3>1. /\ Prefix(q, Len(p)) \in Seq(Steps) /\ Len(Prefix(q, Len(p))) = Len(p)
          /\ \A j \in 1 .. Len(p) : Prefix(q, Len(p))[j] = q[j]
      BY <1>1, <2>3, <2>4 DEF Prefix
    <3>2. /\ Prefix(c, Len(p)) \in Seq(Steps) /\ Len(Prefix(c, Len(p))) = Len(p)
          /\ \A j \in 1 .. Len(p) : Prefix(c, Len(p))[j] = c[j]
      BY <1>1, <2>3 DEF Prefix
    <3>3. \A j \in 1 .. Len(p) : c[j] = q[j]
      <4>1. \A j \in 1 .. Len(c) : Prefix(q, Len(c))[j] = q[j]
        BY <2>3, <2>4 DEF Prefix
      <4>2. \A j \in 1 .. Len(p) : j \in 1 .. Len(c)
        BY <1>1, <2>3
      <4> QED
        BY <2>4, <4>1, <4>2
    <3> QED
      BY <3>1, <3>2, <3>3, SeqEqual
  <2>6. Len(p) <= Len(q)
    BY <1>1, <2>3, <2>4
  <2> QED
    BY <2>3, <2>4, <2>5, <2>6 DEF Below
<1>6. \A q : q \in Below(tree, future, p) =>
             q = p \/ q \in BelowSlot(tree, future, p, "before") \/ q \in BelowSlot(tree, future, p, "body")
                   \/ q \in BelowSlot(tree, future, p, "after") \/ q \in BelowSlot(tree, future, p, "annotation")
  BY <1>4 DEF Slots
<1>7. /\ BelowSlot(tree, future, p, "before") \subseteq Below(tree, future, p)
      /\ BelowSlot(tree, future, p, "body") \subseteq Below(tree, future, p)
      /\ BelowSlot(tree, future, p, "after") \subseteq Below(tree, future, p)
      /\ BelowSlot(tree, future, p, "annotation") \subseteq Below(tree, future, p)
  BY <1>5 DEF Slots
<1> QED
  BY <1>3, <1>6, <1>7

(* Under children that are not evaluated, or that are not there, there is  *)
(* nothing to report.                                                      *)
LEMMA BelowNothing ==
  ASSUME NEW tree, SyntaxTree(tree), NEW future, NEW p \in DOMAIN tree, NEW slot \in Slots,
         \/ tree[p][slot] = 0
         \/ slot = "annotation" /\ (future \/ (tree[p].is = "annotated" /\ InFunction(tree, p)))
  PROVE  BelowSlot(tree, future, p, slot) = {}
<1> SUFFICES ASSUME NEW i \in 1 .. tree[p][slot], NEW q \in Below(tree, future, Append(p, <<slot, i>>))
             PROVE  FALSE
  BY DEF BelowSlot
<1> DEFINE c == Append(p, <<slot, i>>)
<1>1. IsChild(tree, p, slot, i, c)
  BY DEF IsChild
<1> HIDE DEF c
<1>2. tree[p][slot] # 0
  OBVIOUS
<1>3. ~Evaluated(tree, future, c)
  <2>1. Evaluated(tree, future, c) <=>
          /\ Evaluated(tree, future, p)
          /\ slot = "annotation" => ~future /\ (tree[p].is = "annotated" => ~InFunction(tree, p))
    BY <1>1, EvaluatedChild
  <2> QED
    BY <1>2, <2>1, Zenon
<1>4. q \in DOMAIN tree /\ Len(c) \in Nat /\ Len(q) \in Nat /\ Len(c) <= Len(q) /\ Prefix(q, Len(c)) = c /\ Evaluated(tree, future, q)
  <2>1. c \in Seq(Steps) /\ Len(c) \in Nat
    BY <1>1, PathOfChild
  <2>2. q \in DOMAIN tree /\ Len(c) <= Len(q) /\ Prefix(q, Len(c)) = c /\ Evaluated(tree, future, q)
    BY DEF Below, Reported, c
  <2> QED
    BY <2>1, <2>2 DEF SyntaxTree
<1>5. Len(c) \in 0 .. Len(q)
  BY <1>4
<1> QED
  BY <1>3, <1>4, <1>5, EvaluatedPrefix

(* check-python-scalability: the recursion *)

Calls(tree) == [(DOMAIN tree) \X Visitors(tree) -> Visitors(tree)]

(* The visits of the children of p return visitors.                        *)
Returns(tree, p, visit) ==
  \A slot \in Slots : \A i \in 1 .. tree[p][slot] : \A w \in Visitors(tree) :
    visit[<<Append(p, <<slot, i>>), w>>] \in Visitors(tree)

(* g has the visitor after each child of a slot, and visit_slot the last.  *)
SlotRun(slot, tree, p, visit, v, g) ==
  /\ g \in [0 .. tree[p][slot] -> Visitors(tree)]
  /\ g[0] = v
  /\ \A i \in 1 .. tree[p][slot] : g[i] = visit[<<Append(p, <<slot, i>>), g[i - 1]>>]
  /\ visit_slot(slot, tree, p, visit, v) = g[tree[p][slot]]

(* The recursion over a slot has a solution, and visit_slot is its last.   *)
LEMMA SlotIsVisited ==
  ASSUME NEW tree, SyntaxTree(tree), NEW p \in DOMAIN tree, NEW slot \in Slots,
         NEW visit, Returns(tree, p, visit), NEW v \in Visitors(tree)
  PROVE  \E g : SlotRun(slot, tree, p, visit, v, g)
<1> DEFINE N == tree[p][slot]
           V == Visitors(tree)
           c(i) == Append(p, <<slot, i>>)
           Run(d) == d = [i \in 0 .. N |-> IF i = 0 THEN v ELSE visit[<<c(i), d[i - 1]>>]]
           step == [x \in V \X (1 .. N) |-> visit[<<c(x[2]), x[1]>>]]
<1>1. N \in Nat
  BY DEF SyntaxTree
<1>2. visit_slot(slot, tree, p, visit, v) = (CHOOSE d : Run(d))[N]
  BY Zenon DEF visit_slot
<1>3. \A i \in 1 .. N : \A w \in V : visit[<<c(i), w>>] \in V
  BY DEF Returns
<1> HIDE DEF N, c
<1>4. step \in [V \X (1 .. N) -> V]
  <2> HIDE DEF V
  <2> QED
    BY <1>3
<1>5. PICK g \in [0 .. N -> V] : g[0] = v /\ \A i \in 1 .. N : g[i] = step[<<g[i - 1], i>>]
  <2> HIDE DEF V, step
  <2>1. v \in V
    BY DEF V
  <2>2. Iterated(N, V, v, step)
    BY <1>1, <1>4, <2>1, Iterates
  <2> QED
    BY <2>2 DEF Iterated
<1> HIDE DEF V
<1>6. \A i \in 1 .. N : g[i] = visit[<<c(i), g[i - 1]>>]
  <2> SUFFICES ASSUME NEW i \in 1 .. N PROVE g[i] = visit[<<c(i), g[i - 1]>>]
    OBVIOUS
  <2>1. g[i - 1] \in V
    BY <1>1, <1>5
  <2> QED
    BY <1>5, <2>1
<1>7. Run(g)
  <2>1. \A i \in 0 .. N : i = 0 \/ i \in 1 .. N
    BY <1>1
  <2> QED
    BY <1>5, <1>6, <2>1
<1>8. \A d : Run(d) => /\ d = [i \in DOMAIN d |-> d[i]] /\ DOMAIN d = 0 .. N /\ d[0] = v
                       /\ \A i \in 1 .. N : d[i] = visit[<<c(i), d[i - 1]>>]
  <2> SUFFICES ASSUME NEW d, Run(d)
               PROVE  /\ d = [i \in DOMAIN d |-> d[i]] /\ DOMAIN d = 0 .. N /\ d[0] = v
                      /\ \A i \in 1 .. N : d[i] = visit[<<c(i), d[i - 1]>>]
    OBVIOUS
  <2> DEFINE body(i) == IF i = 0 THEN v ELSE visit[<<c(i), d[i - 1]>>]
  <2>1. d = [i \in 0 .. N |-> body(i)]
    OBVIOUS
  <2>2. body(0) = v
    OBVIOUS
  <2>3. \A i \in 1 .. N : i \in 0 .. N /\ body(i) = visit[<<c(i), d[i - 1]>>]
    BY <1>1
  <2> HIDE DEF body, Run
  <2>4. d = [i \in DOMAIN d |-> d[i]] /\ DOMAIN d = 0 .. N /\ \A i \in 0 .. N : d[i] = body(i)
    BY <2>1
  <2> QED
    BY <1>1, <2>2, <2>3, <2>4
<1> DEFINE D == CHOOSE d : Run(d)
<1>9. Run(D)
  <2> HIDE DEF Run
  <2> QED
    BY <1>7
<1> HIDE DEF D, Run
<1>10. /\ D = [i \in DOMAIN D |-> D[i]] /\ DOMAIN D = 0 .. N /\ D[0] = v
       /\ \A i \in 1 .. N : D[i] = visit[<<c(i), D[i - 1]>>]
  BY <1>8, <1>9
<1>11. \A i \in 0 .. N : D[i] \in V
  <2> DEFINE T == {i \in 0 .. N : D[i] \in V}
  <2>1. 0 \in T
    BY <1>1, <1>10 DEF V
  <2>2. ASSUME NEW i \in 1 .. N, i - 1 \in T PROVE i \in T
    <3>1. D[i - 1] \in V /\ i \in 0 .. N
      BY <1>1, <2>2
    <3>2. visit[<<c(i), D[i - 1]>>] \in V
      BY <1>3, <3>1
    <3> QED
      BY <1>10, <3>1, <3>2
  <2>3. T = 0 .. N
    <3> HIDE DEF T
    <3> QED
      BY <1>1, <2>1, <2>2, Induction DEF T
  <2> QED
    BY <2>3
<1>12. visit_slot(slot, tree, p, visit, v) = D[N]
  BY <1>2 DEF D
<1> QED
  BY <1>10, <1>11, <1>12 DEF SlotRun, N, V, c

(* Two accounts of the visits agree on the children of p.                  *)
Agree(tree, p, f, h) ==
  \A slot \in Slots : \A i \in 1 .. tree[p][slot] : \A w \in Visitors(tree) :
    f[<<Append(p, <<slot, i>>), w>>] = h[<<Append(p, <<slot, i>>), w>>]

LEMMA SlotSame ==
  ASSUME NEW tree, SyntaxTree(tree), NEW p \in DOMAIN tree, NEW slot \in Slots,
         NEW f, Returns(tree, p, f), NEW h, Returns(tree, p, h), Agree(tree, p, f, h), NEW v \in Visitors(tree)
  PROVE  /\ visit_slot(slot, tree, p, f, v) \in Visitors(tree)
         /\ visit_slot(slot, tree, p, f, v) = visit_slot(slot, tree, p, h, v)
<1> DEFINE N == tree[p][slot]
           V == Visitors(tree)
           c(i) == Append(p, <<slot, i>>)
<1>1. N \in Nat
  BY DEF SyntaxTree
<1>2. PICK a : SlotRun(slot, tree, p, f, v, a)
  BY SlotIsVisited
<1>3. PICK b : SlotRun(slot, tree, p, h, v, b)
  BY SlotIsVisited
<1>4. /\ a \in [0 .. N -> V] /\ a[0] = v /\ \A i \in 1 .. N : a[i] = f[<<c(i), a[i - 1]>>]
      /\ visit_slot(slot, tree, p, f, v) = a[N]
  BY <1>2 DEF SlotRun
<1>5. /\ b \in [0 .. N -> V] /\ b[0] = v /\ \A i \in 1 .. N : b[i] = h[<<c(i), b[i - 1]>>]
      /\ visit_slot(slot, tree, p, h, v) = b[N]
  BY <1>3 DEF SlotRun
<1>6. \A i \in 1 .. N : \A w \in V : f[<<c(i), w>>] = h[<<c(i), w>>]
  BY DEF Agree
<1> HIDE DEF N, V, c
<1>7. \A i \in 0 .. N : a[i] = b[i]
  <2> DEFINE T == {i \in 0 .. N : a[i] = b[i]}
  <2>1. 0 \in T
    BY <1>1, <1>4, <1>5
  <2>2. ASSUME NEW i \in 1 .. N, i - 1 \in T PROVE i \in T
    <3>1. a[i - 1] = b[i - 1] /\ a[i - 1] \in V /\ i \in 0 .. N
      BY <1>1, <1>4, <2>2
    <3> QED
      BY <1>4, <1>5, <1>6, <3>1
  <2>3. T = 0 .. N
    <3> HIDE DEF T
    <3> QED
      BY <1>1, <2>1, <2>2, Induction DEF T
  <2> QED
    BY <2>3
<1> QED
  BY <1>1, <1>4, <1>5, <1>7 DEF V

(* The updates of a visitor between visits                                 *)
AtDepth(w, d) == [w EXCEPT !.loop_depth = d]
Left1(w) == [w EXCEPT !.loop_depth = @ - 1]
Entered(w) == [w EXCEPT !.functions = @ + 1]
Returned(w) == [w EXCEPT !.functions = @ - 1]

LEMMA VisitorUpdates ==
  ASSUME NEW tree, NEW w \in Visitors(tree), NEW p \in DOMAIN tree, NEW d \in Int
  PROVE  /\ w.loop_depth \in Int /\ w.functions \in Int /\ w.diagnostics \in SUBSET DOMAIN tree
         /\ AtDepth(w, d) \in Visitors(tree) /\ AtDepth(w, d).loop_depth = d
         /\ AtDepth(w, d).functions = w.functions /\ AtDepth(w, d).diagnostics = w.diagnostics
         /\ Left1(w) \in Visitors(tree) /\ Left1(w).loop_depth = w.loop_depth - 1
         /\ Left1(w).functions = w.functions /\ Left1(w).diagnostics = w.diagnostics
         /\ Entered(w) \in Visitors(tree) /\ Entered(w).loop_depth = w.loop_depth
         /\ Entered(w).functions = w.functions + 1 /\ Entered(w).diagnostics = w.diagnostics
         /\ Returned(w) \in Visitors(tree) /\ Returned(w).loop_depth = w.loop_depth
         /\ Returned(w).functions = w.functions - 1 /\ Returned(w).diagnostics = w.diagnostics
         /\ enter_loop(p, w) \in Visitors(tree) /\ enter_loop(p, w).loop_depth = w.loop_depth + 1
         /\ enter_loop(p, w).functions = w.functions
         /\ enter_loop(p, w).diagnostics =
               w.diagnostics \cup IF w.loop_depth + 1 > MAX_LOOP_DEPTH THEN {p} ELSE {}
<1> USE DEF Visitors
<1>1. w.loop_depth \in Int /\ w.functions \in Int /\ w.diagnostics \in SUBSET DOMAIN tree
  OBVIOUS
<1>2. /\ AtDepth(w, d) \in Visitors(tree) /\ AtDepth(w, d).loop_depth = d
      /\ AtDepth(w, d).functions = w.functions /\ AtDepth(w, d).diagnostics = w.diagnostics
  BY DEF AtDepth
<1>3. /\ Left1(w) \in Visitors(tree) /\ Left1(w).loop_depth = w.loop_depth - 1
      /\ Left1(w).functions = w.functions /\ Left1(w).diagnostics = w.diagnostics
  BY DEF Left1
<1>4. /\ Entered(w) \in Visitors(tree) /\ Entered(w).loop_depth = w.loop_depth
      /\ Entered(w).functions = w.functions + 1 /\ Entered(w).diagnostics = w.diagnostics
  BY DEF Entered
<1>5. /\ Returned(w) \in Visitors(tree) /\ Returned(w).loop_depth = w.loop_depth
      /\ Returned(w).functions = w.functions - 1 /\ Returned(w).diagnostics = w.diagnostics
  BY DEF Returned
<1>6. /\ enter_loop(p, w) \in Visitors(tree) /\ enter_loop(p, w).loop_depth = w.loop_depth + 1
      /\ enter_loop(p, w).functions = w.functions
      /\ enter_loop(p, w).diagnostics =
            w.diagnostics \cup IF w.loop_depth + 1 > MAX_LOOP_DEPTH THEN {p} ELSE {}
  <2> DEFINE e == [w EXCEPT !.loop_depth = @ + 1]
  <2>1. /\ e \in Visitors(tree) /\ e.loop_depth = w.loop_depth + 1
        /\ e.functions = w.functions /\ e.diagnostics = w.diagnostics
    OBVIOUS
  <2>2. enter_loop(p, w) = IF e.loop_depth > MAX_LOOP_DEPTH THEN [e EXCEPT !.diagnostics = @ \cup {p}] ELSE e
    BY DEF enter_loop
  <2> HIDE DEF e
  <2> QED
    BY <2>1, <2>2
<1> QED
  BY <1>1, <1>2, <1>3, <1>4, <1>5, <1>6

(* The call of a node is a visitor, and depends on those of its children.  *)
LEMMA NodeSame ==
  ASSUME NEW tree, SyntaxTree(tree), NEW p \in DOMAIN tree, NEW future,
         NEW f, Returns(tree, p, f), NEW h, Returns(tree, p, h), Agree(tree, p, f, h), NEW v \in Visitors(tree)
  PROVE  /\ visit_node(tree, p, future, f, v) \in Visitors(tree)
         /\ visit_node(tree, p, future, f, v) = visit_node(tree, p, future, h, v)
<1> DEFINE V == Visitors(tree)
           F(slot, w) == visit_slot(slot, tree, p, f, w)
           H(slot, w) == visit_slot(slot, tree, p, h, w)
<1>1. ASSUME NEW slot \in Slots, NEW w \in V PROVE F(slot, w) \in V /\ F(slot, w) = H(slot, w)
  BY SlotSame
<1>2. \A w \in V : /\ \A d \in Int : AtDepth(w, d) \in V
                   /\ Left1(w) \in V /\ Entered(w) \in V /\ Returned(w) \in V
                   /\ enter_loop(p, w) \in V /\ w.loop_depth \in Int
  <2>1. ASSUME NEW w \in V, NEW d \in Int
        PROVE  /\ AtDepth(w, d) \in V
               /\ Left1(w) \in V /\ Entered(w) \in V /\ Returned(w) \in V
               /\ enter_loop(p, w) \in V /\ w.loop_depth \in Int
    BY VisitorUpdates
  <2> QED
    BY <2>1
<1>3. {"before", "body", "after", "annotation"} = Slots
  BY DEF Slots
<1>4. ASSUME NEW w \in V PROVE visit_body(tree, p, f, w) \in V /\ visit_body(tree, p, f, w) = visit_body(tree, p, h, w)
  <2>1. /\ visit_body(tree, p, f, w) = AtDepth(F("body", AtDepth(w, 0)), w.loop_depth)
        /\ visit_body(tree, p, h, w) = AtDepth(H("body", AtDepth(w, 0)), w.loop_depth)
    BY DEF visit_body, AtDepth
  <2> HIDE DEF V, F, H
  <2> QED
    BY <1>1, <1>2, <1>3, <2>1
<1>5. visit_loop(tree, p, f, v) \in V /\ visit_loop(tree, p, f, v) = visit_loop(tree, p, h, v)
  <2>1. /\ visit_loop(tree, p, f, v) = F("after", Left1(F("body", enter_loop(p, F("before", v)))))
        /\ visit_loop(tree, p, h, v) = H("after", Left1(H("body", enter_loop(p, H("before", v)))))
    BY DEF visit_loop, Left1
  <2> HIDE DEF F, H
  <2>2. v \in V
    OBVIOUS
  <2> HIDE DEF V
  <2> QED
    BY <1>1, <1>2, <1>3, <2>1, <2>2
<1>6. visit_function(tree, p, future, f, v) \in V /\ visit_function(tree, p, future, f, v) = visit_function(tree, p, future, h, v)
  <2> DEFINE a == IF future THEN F("before", v) ELSE F("annotation", F("before", v))
             b == IF future THEN H("before", v) ELSE H("annotation", H("before", v))
  <2>1. /\ visit_function(tree, p, future, f, v) =
             Returned(visit_body(tree, p, f, Entered(a)))
        /\ visit_function(tree, p, future, h, v) =
             Returned(visit_body(tree, p, h, Entered(b)))
    BY DEF visit_function, Entered, Returned
  <2> HIDE DEF F, H
  <2>2. v \in V
    OBVIOUS
  <2> HIDE DEF V
  <2>3. a \in V /\ a = b
    BY <1>1, <1>3, <2>2
  <2> HIDE DEF a, b
  <2> QED
    BY <1>2, <1>4, <2>1, <2>3
<1>7. visit_AnnAssign(tree, p, future, f, v) \in V /\ visit_AnnAssign(tree, p, future, f, v) = visit_AnnAssign(tree, p, future, h, v)
  <2>1. /\ visit_AnnAssign(tree, p, future, f, v) =
             IF F("before", v).functions > 0 \/ future THEN F("before", v) ELSE F("annotation", F("before", v))
        /\ visit_AnnAssign(tree, p, future, h, v) =
             IF H("before", v).functions > 0 \/ future THEN H("before", v) ELSE H("annotation", H("before", v))
    BY DEF visit_AnnAssign
  <2> HIDE DEF F, H
  <2>2. v \in V
    OBVIOUS
  <2> HIDE DEF V
  <2> QED
    BY <1>1, <1>3, <2>1, <2>2
<1>8. F("before", v) \in V /\ F("before", v) = H("before", v)
  BY <1>1, <1>3
<1>9. tree[p].is \in {"loop", "def", "lambda", "annotated", "other"}
  BY DEF SyntaxTree
<1> HIDE DEF V
<1>10. visit_body(tree, p, f, F("before", v)) \in V /\ visit_body(tree, p, f, F("before", v)) = visit_body(tree, p, h, H("before", v))
  BY <1>4, <1>8
<1>11. visit_node(tree, p, future, f, v) \in V /\ visit_node(tree, p, future, f, v) = visit_node(tree, p, future, h, v)
  BY <1>5, <1>6, <1>7, <1>8, <1>9, <1>10 DEF visit_node
<1> QED
  BY <1>11 DEF V

(* The recursive function of diagnostics_for_file: what it returns is      *)
(* returned by visit_node from what it returns.                            *)
Answers(tree, future, f) ==
  \A p \in DOMAIN tree : \A v \in Visitors(tree) :
    f[<<p, v>>] \in Visitors(tree) /\ f[<<p, v>>] = visit_node(tree, p, future, f, v)

Fresh == [loop_depth |-> 0, functions |-> 0, diagnostics |-> {}]

(* The recursion over the tree has one: after as many rounds as the tree   *)
(* is high the table of answers does not change, so CHOOSE finds one.      *)
LEMMA VisitAnswers ==
  ASSUME NEW tree, SyntaxTree(tree), NEW future
  PROVE  \E f : /\ Answers(tree, future, f)
                /\ diagnostics_for_file(tree, future) = f[<<<<>>, Fresh>>].diagnostics
<1> DEFINE V == Visitors(tree)
           K == (DOMAIN tree) \X V
           S == Calls(tree)
           Call(F) == [x \in K |-> visit_node(tree, x[1], future, F, x[2])]
           Rec(f) == f = Call(f)
<1>1. diagnostics_for_file(tree, future) = (CHOOSE f : Rec(f))[<<<<>>, Fresh>>].diagnostics
  BY Zenon DEF diagnostics_for_file, Fresh
<1>2. PICK N \in Nat : \A p \in DOMAIN tree : Len(p) <= N
  BY DEF SyntaxTree
<1>3. \A p \in DOMAIN tree : Len(p) \in Nat
  BY DEF SyntaxTree
<1>4. \A F : /\ DOMAIN Call(F) = K
             /\ Call(F) = [x \in DOMAIN Call(F) |-> Call(F)[x]]
             /\ \A p \in DOMAIN tree : \A v \in V : Call(F)[<<p, v>>] = visit_node(tree, p, future, F, v)
  <2> HIDE DEF V
  <2> QED
    OBVIOUS
<1>5. ASSUME NEW F, NEW p \in DOMAIN tree, NEW v \in V,
             \A c \in DOMAIN tree : Len(c) = Len(p) + 1 => \A w \in V : F[<<c, w>>] \in V
      PROVE  Returns(tree, p, F) /\ visit_node(tree, p, future, F, v) \in V
  <2>1. Returns(tree, p, F)
    <3> SUFFICES ASSUME NEW slot \in Slots, NEW i \in 1 .. tree[p][slot], NEW w \in V
                 PROVE  F[<<Append(p, <<slot, i>>), w>>] \in V
      BY DEF Returns
    <3> DEFINE c == Append(p, <<slot, i>>)
    <3>1. IsChild(tree, p, slot, i, c)
      BY DEF IsChild
    <3> HIDE DEF c
    <3>2. c \in DOMAIN tree /\ Len(c) = Len(p) + 1
      BY <3>1, PathOfChild
    <3> HIDE DEF V
    <3> QED
      BY <1>5, <3>2 DEF c
  <2>2. Agree(tree, p, F, F)
    BY DEF Agree
  <2> QED
    BY <2>1, <2>2, NodeSame
<1>6. ASSUME NEW F \in S PROVE Call(F) \in S
  <2>1. \A p \in DOMAIN tree, v \in V : F[<<p, v>>] \in V
    BY DEF Calls
  <2>2. \A p \in DOMAIN tree, v \in V : visit_node(tree, p, future, F, v) \in V
    BY <1>5, <2>1
  <2> HIDE DEF V
  <2> QED
    BY <2>2 DEF Calls, V
<1>7. \E f : Rec(f)
  <2> DEFINE a == [x \in K |-> x[2]]
             step == [y \in S \X (1 .. N + 2) |-> Call(y[1])]
  <2>1. a \in S
    BY DEF Calls
  <2>2. step \in [S \X (1 .. N + 2) -> S]
    <3> HIDE DEF S, Call
    <3> QED
      BY <1>6
  <2>3. PICK g \in [0 .. N + 2 -> S] : g[0] = a /\ \A n \in 1 .. N + 2 : g[n] = step[<<g[n - 1], n>>]
    <3> HIDE DEF S, a, step
    <3>1. N + 2 \in Nat
      BY <1>2
    <3>2. Iterated(N + 2, S, a, step)
      BY <2>1, <2>2, <3>1, Iterates
    <3> QED
      BY <3>2 DEF Iterated
  <2> HIDE DEF S, Call
  <2>4. \A n \in 1 .. N + 2 : g[n] = Call(g[n - 1]) /\ g[n - 1] \in S /\ g[n] \in S
    <3> SUFFICES ASSUME NEW n \in 1 .. N + 2 PROVE g[n] = Call(g[n - 1]) /\ g[n - 1] \in S /\ g[n] \in S
      OBVIOUS
    <3>1. n - 1 \in 0 .. N + 2 /\ n \in 0 .. N + 2
      BY <1>2
    <3> QED
      BY <2>3, <3>1
  <2> DEFINE Same(n, p) == \A v \in V : g[n + 1][<<p, v>>] = g[n][<<p, v>>]
             T == {n \in 0 .. N + 1 : \A p \in DOMAIN tree : Len(p) >= N + 1 - n => Same(n, p)}
  <2>5. 0 \in T
    <3>1. \A p \in DOMAIN tree : ~ (Len(p) >= N + 1 - 0)
      BY <1>2, <1>3
    <3> QED
      BY <1>2, <3>1
  <2>6. ASSUME NEW n \in 1 .. N + 1, n - 1 \in T PROVE n \in T
    <3> SUFFICES ASSUME NEW p \in DOMAIN tree, Len(p) >= N + 1 - n, NEW v \in V
                 PROVE  g[n + 1][<<p, v>>] = g[n][<<p, v>>]
      BY <1>2
    <3>1. /\ n \in 1 .. N + 2 /\ n + 1 \in 1 .. N + 2 /\ (n + 1) - 1 = n /\ (n - 1) + 1 = n
      BY <1>2
    <3>2. g[n] = Call(g[n - 1]) /\ g[n - 1] \in S /\ g[n] \in S /\ g[n + 1] = Call(g[n])
      BY <2>4, <3>1
    <3>3. \A c \in DOMAIN tree : Len(c) = Len(p) + 1 => \A w \in V : g[n][<<c, w>>] = g[n - 1][<<c, w>>]
      <4> SUFFICES ASSUME NEW c \in DOMAIN tree, Len(c) = Len(p) + 1, NEW w \in V
                   PROVE  g[n][<<c, w>>] = g[n - 1][<<c, w>>]
        OBVIOUS
      <4>1. Len(c) >= N + 1 - (n - 1)
        BY <1>2, <1>3
      <4>2. Same(n - 1, c)
        BY <2>6, <4>1
      <4> QED
        BY <3>1, <4>2
    <3>4. Agree(tree, p, g[n], g[n - 1])
      <4> SUFFICES ASSUME NEW slot \in Slots, NEW i \in 1 .. tree[p][slot], NEW w \in V
                   PROVE  g[n][<<Append(p, <<slot, i>>), w>>] = g[n - 1][<<Append(p, <<slot, i>>), w>>]
        BY DEF Agree
      <4> DEFINE c == Append(p, <<slot, i>>)
      <4>1. IsChild(tree, p, slot, i, c)
        BY DEF IsChild
      <4> HIDE DEF c
      <4>2. c \in DOMAIN tree /\ Len(c) = Len(p) + 1
        BY <4>1, PathOfChild
      <4> QED
        BY <3>3, <4>2 DEF c
    <3>5. Returns(tree, p, g[n]) /\ Returns(tree, p, g[n - 1])
      <4>1. \A F \in S : \A c \in DOMAIN tree, w \in V : F[<<c, w>>] \in V
        BY DEF S, Calls
      <4> QED
        BY <1>5, <3>2, <4>1
    <3>6. visit_node(tree, p, future, g[n], v) = visit_node(tree, p, future, g[n - 1], v)
      BY <3>4, <3>5, NodeSame
    <3> QED
      BY <1>4, <3>2, <3>6
  <2>7. T = 0 .. N + 1
    <3>1. N + 1 \in Nat
      BY <1>2
    <3> HIDE DEF T
    <3> QED
      BY <2>5, <2>6, <3>1, Induction DEF T
  <2>8. \A p \in DOMAIN tree, v \in V : g[N + 2][<<p, v>>] = g[N + 1][<<p, v>>]
    <3>1. N + 1 \in T /\ N + 1 + 1 = N + 2 /\ \A p \in DOMAIN tree : Len(p) >= N + 1 - (N + 1)
      BY <1>2, <1>3, <2>7
    <3>2. \A p \in DOMAIN tree : Same(N + 1, p)
      BY <3>1
    <3> QED
      BY <3>1, <3>2
  <2>9. g[N + 2] = Call(g[N + 1]) /\ g[N + 1] \in S /\ g[N + 2] \in S
    <3>1. N + 2 \in 1 .. N + 2 /\ (N + 2) - 1 = N + 1
      BY <1>2
    <3> QED
      BY <2>4, <3>1
  <2>10. g[N + 2] = g[N + 1]
    BY <2>8, <2>9 DEF S, Calls
  <2> QED
    BY <2>9, <2>10
<1> DEFINE f == CHOOSE f : Rec(f)
<1>8. Rec(f)
  <2> HIDE DEF Rec
  <2> QED
    BY <1>7
<1> HIDE DEF f
<1>9. \A p \in DOMAIN tree : \A v \in V : f[<<p, v>>] = visit_node(tree, p, future, f, v)
  <2> HIDE DEF Call
  <2> QED
    BY <1>4, <1>8
<1> HIDE DEF Rec, Call, S
<1>10. \A p \in DOMAIN tree, v \in V : f[<<p, v>>] \in V
  <2> DEFINE T == {n \in 0 .. N + 1 : \A p \in DOMAIN tree : Len(p) >= N + 1 - n => \A v \in V : f[<<p, v>>] \in V}
  <2>1. 0 \in T
    <3>1. \A p \in DOMAIN tree : ~ (Len(p) >= N + 1 - 0)
      BY <1>2, <1>3
    <3> QED
      BY <1>2, <3>1
  <2>2. ASSUME NEW n \in 1 .. N + 1, n - 1 \in T PROVE n \in T
    <3> SUFFICES ASSUME NEW p \in DOMAIN tree, Len(p) >= N + 1 - n, NEW v \in V
                 PROVE  f[<<p, v>>] \in V
      BY <1>2
    <3>1. \A c \in DOMAIN tree : Len(c) = Len(p) + 1 => Len(c) >= N + 1 - (n - 1)
      BY <1>2, <1>3
    <3>2. \A c \in DOMAIN tree : Len(c) = Len(p) + 1 => \A w \in V : f[<<c, w>>] \in V
      BY <2>2, <3>1
    <3>3. visit_node(tree, p, future, f, v) \in V
      BY <1>5, <3>2
    <3> QED
      BY <1>9, <3>3
  <2>3. T = 0 .. N + 1
    <3>1. N + 1 \in Nat
      BY <1>2
    <3> HIDE DEF T
    <3> QED
      BY <2>1, <2>2, <3>1, Induction DEF T
  <2>4. N + 1 \in 0 .. N + 1 /\ \A n \in Nat : n >= N + 1 - (N + 1)
    BY <1>2
  <2>5. N + 1 \in T /\ \A p \in DOMAIN tree : Len(p) >= N + 1 - (N + 1)
    <3> HIDE DEF T
    <3> QED
      BY <1>3, <2>3, <2>4
  <2> QED
    BY <2>5
<1> QED
  BY <1>1, <1>9, <1>10 DEF Answers, f, V

(* What a visit of something adds to a visitor: S is reported.             *)
Sees(tree, v, S, w) ==
  /\ w \in Visitors(tree)
  /\ w.loop_depth = v.loop_depth /\ w.functions = v.functions
  /\ w.diagnostics = v.diagnostics \cup S

(* If each child in a slot adds what is below it, so does the slot.        *)
LEMMA SlotSees ==
  ASSUME NEW tree, SyntaxTree(tree), NEW future, NEW p \in DOMAIN tree, NEW slot \in Slots,
         NEW f, Returns(tree, p, f), NEW v \in Visitors(tree),
         \A i \in 1 .. tree[p][slot] : \A w \in Visitors(tree) :
           w.loop_depth = v.loop_depth /\ w.functions = v.functions =>
             Sees(tree, w, Below(tree, future, Append(p, <<slot, i>>)), f[<<Append(p, <<slot, i>>), w>>])
  PROVE  Sees(tree, v, BelowSlot(tree, future, p, slot), visit_slot(slot, tree, p, f, v))
<1> DEFINE N == tree[p][slot]
           B(i) == Below(tree, future, Append(p, <<slot, i>>))
<1>1. N \in Nat
  BY DEF SyntaxTree
<1>2. PICK g : SlotRun(slot, tree, p, f, v, g)
  BY SlotIsVisited
<1>3. /\ g \in [0 .. N -> Visitors(tree)] /\ g[0] = v
      /\ \A i \in 1 .. N : g[i] = f[<<Append(p, <<slot, i>>), g[i - 1]>>]
      /\ visit_slot(slot, tree, p, f, v) = g[N]
  BY <1>2 DEF SlotRun
<1>4. \A i \in 1 .. N : \A w \in Visitors(tree) :
        w.loop_depth = v.loop_depth /\ w.functions = v.functions =>
          Sees(tree, w, B(i), f[<<Append(p, <<slot, i>>), w>>])
  OBVIOUS
<1>5. BelowSlot(tree, future, p, slot) = UNION {B(i) : i \in 1 .. N}
  BY DEF BelowSlot
<1> HIDE DEF N, B
<1> DEFINE U(n) == UNION {B(i) : i \in 1 .. n}
<1>6. U(0) = {} /\ \A n \in 1 .. N : U(n) = U(n - 1) \cup B(n)
  <2>1. \A n \in 1 .. N : \A i : i \in 1 .. n <=> i \in 1 .. n - 1 \/ i = n
    BY <1>1
  <2> QED
    BY <2>1
<1> HIDE DEF U
<1> DEFINE T == {n \in 0 .. N : Sees(tree, v, U(n), g[n])}
<1>7. 0 \in T
  <2>1. Sees(tree, v, U(0), g[0])
    BY <1>3, <1>6 DEF Sees
  <2> QED
    BY <1>1, <2>1
<1>8. ASSUME NEW n \in 1 .. N, n - 1 \in T PROVE n \in T
  <2>1. n - 1 \in 0 .. N /\ n \in 0 .. N
    BY <1>1
  <2>2. Sees(tree, v, U(n - 1), g[n - 1])
    BY <1>8
  <2>3. Sees(tree, g[n - 1], B(n), g[n])
    <3>1. g[n - 1] \in Visitors(tree)
      BY <1>3, <2>1
    <3>2. g[n - 1].loop_depth = v.loop_depth /\ g[n - 1].functions = v.functions
      BY <2>2 DEF Sees
    <3> QED
      BY <1>3, <1>4, <3>1, <3>2
  <2>4. U(n) = U(n - 1) \cup B(n)
    BY <1>6
  <2>5. Sees(tree, v, U(n), g[n])
    BY <2>2, <2>3, <2>4 DEF Sees
  <2> QED
    BY <2>1, <2>5
<1>9. Sees(tree, v, U(N), g[N])
  <2>1. T = 0 .. N
    <3> HIDE DEF T
    <3> QED
      BY <1>1, <1>7, <1>8, Induction DEF T
  <2>2. N \in 0 .. N
    BY <1>1
  <2> QED
    BY <2>1, <2>2
<1> QED
  BY <1>3, <1>5, <1>9 DEF U

(* A visitor that comes to p has counted what surrounds it.                *)
Fits(tree, p, v) ==
  /\ v \in Visitors(tree)
  /\ v.loop_depth = Cardinality(Around(tree, p))
  /\ v.functions \in Nat /\ (v.functions > 0 <=> InFunction(tree, p))

(* The depth at which, and the functions in which, the children in a slot  *)
(* of p are visited                                                        *)
Depth(tree, p, slot) ==
  IF slot = "body" /\ tree[p].is = "loop" THEN Cardinality(Around(tree, p)) + 1
  ELSE IF slot = "body" /\ tree[p].is \in {"def", "lambda"} THEN 0
  ELSE Cardinality(Around(tree, p))

Inside(tree, p, slot) == InFunction(tree, p) \/ (slot = "body" /\ tree[p].is = "def")

(* The children that are evaluated report, for a visitor that fits, what   *)
(* is below them.                                                          *)
ChildrenReport(tree, future, p, f) ==
  \A slot \in Slots : \A i \in 1 .. tree[p][slot] : \A w :
    Fits(tree, Append(p, <<slot, i>>), w) /\ Evaluated(tree, future, Append(p, <<slot, i>>)) =>
      Sees(tree, w, Below(tree, future, Append(p, <<slot, i>>)), f[<<Append(p, <<slot, i>>), w>>])

(* So a slot that is read reports, for a visitor at its depth, what is     *)
(* below it.                                                               *)
LEMMA SlotReports ==
  ASSUME NEW tree, SyntaxTree(tree), NEW future, NEW p \in DOMAIN tree, Evaluated(tree, future, p),
         NEW f, Returns(tree, p, f), ChildrenReport(tree, future, p, f),
         NEW slot \in Slots, slot = "annotation" => ~future /\ (tree[p].is = "annotated" => ~InFunction(tree, p)),
         NEW v \in Visitors(tree), v.loop_depth = Depth(tree, p, slot),
         v.functions \in Nat, v.functions > 0 <=> Inside(tree, p, slot)
  PROVE  Sees(tree, v, BelowSlot(tree, future, p, slot), visit_slot(slot, tree, p, f, v))
<1>1. ASSUME NEW i \in 1 .. tree[p][slot], NEW w \in Visitors(tree),
             w.loop_depth = v.loop_depth, w.functions = v.functions
      PROVE  Sees(tree, w, Below(tree, future, Append(p, <<slot, i>>)), f[<<Append(p, <<slot, i>>), w>>])
  <2> DEFINE c == Append(p, <<slot, i>>)
  <2>1. IsChild(tree, p, slot, i, c)
    BY DEF IsChild
  <2> HIDE DEF c
  <2>2. Evaluated(tree, future, c)
    BY <2>1, EvaluatedChild
  <2>3. Cardinality(Around(tree, c)) = Depth(tree, p, slot)
    <3>1. /\ slot = "body" /\ tree[p].is = "loop" => Cardinality(Around(tree, c)) = Cardinality(Around(tree, p)) + 1
          /\ slot = "body" /\ tree[p].is \in {"def", "lambda"} => Cardinality(Around(tree, c)) = 0
          /\ slot # "body" \/ tree[p].is \notin {"loop", "def", "lambda"} => Around(tree, c) = Around(tree, p)
      BY <2>1, AroundChild
    <3> QED
      BY <3>1 DEF Depth
  <2>4. InFunction(tree, c) <=> Inside(tree, p, slot)
    BY <2>1, InFunctionChild DEF Inside
  <2>5. Fits(tree, c, w)
    <3>1. w.loop_depth = Cardinality(Around(tree, c)) /\ w.functions \in Nat
      BY <1>1, <2>3
    <3>2. w.functions > 0 <=> v.functions > 0
      BY <1>1
    <3>3. w.functions > 0 <=> InFunction(tree, c)
      BY <2>4, <3>2, Zenon
    <3> QED
      BY <3>1, <3>3 DEF Fits
  <2> QED
    BY <2>2, <2>5 DEF ChildrenReport, c
<1> QED
  BY <1>1, SlotSees

(* And a node, of whatever kind, what is below it: after the node the      *)
(* depth is what it was before.                                            *)
LEMMA NodeReports ==
  ASSUME NEW tree, SyntaxTree(tree), NEW future, NEW p \in DOMAIN tree, Evaluated(tree, future, p),
         NEW f, Returns(tree, p, f), ChildrenReport(tree, future, p, f), NEW v, Fits(tree, p, v)
  PROVE  Sees(tree, v, Below(tree, future, p), visit_node(tree, p, future, f, v))
<1> DEFINE V == Visitors(tree)
           kind == tree[p].is
           F(slot, w) == visit_slot(slot, tree, p, f, w)
           B(slot) == BelowSlot(tree, future, p, slot)
           R == IF Reported(tree, future, p) THEN {p} ELSE {}
           Like(w) == w \in V /\ w.loop_depth = v.loop_depth /\ w.functions = v.functions
           Read == ~future /\ (kind = "annotated" => ~InFunction(tree, p))
<1>1. /\ v \in V /\ v.loop_depth = Cardinality(Around(tree, p)) /\ v.loop_depth \in Int
      /\ v.functions \in Nat /\ (v.functions > 0 <=> InFunction(tree, p))
  BY DEF Fits, Visitors
<1>2. {"before", "body", "after", "annotation"} = Slots
  BY DEF Slots
<1>3. ASSUME NEW w, Like(w), NEW slot \in Slots, slot # "body", slot = "annotation" => Read
      PROVE  Sees(tree, w, B(slot), F(slot, w))
  <2>1. w \in Visitors(tree) /\ w.loop_depth = Depth(tree, p, slot) /\ w.functions \in Nat
    BY <1>1, <1>3 DEF Depth
  <2>2. w.functions > 0 <=> Inside(tree, p, slot)
    <3>1. w.functions > 0 <=> v.functions > 0
      BY <1>3
    <3> QED
      BY <1>1, <1>3, <3>1, Zenon DEF Inside
  <2>3. slot = "annotation" => ~future /\ (tree[p].is = "annotated" => ~InFunction(tree, p))
    BY <1>3
  <2> QED
    BY <2>1, <2>2, <2>3, SlotReports
<1>4. ASSUME NEW w \in V, w.loop_depth = Depth(tree, p, "body"), w.functions \in Nat,
             w.functions > 0 <=> Inside(tree, p, "body")
      PROVE  Sees(tree, w, B("body"), F("body", w))
  BY <1>2, <1>4, SlotReports
<1>5. ASSUME NEW w \in V
      PROVE  /\ w.loop_depth \in Int /\ w.functions \in Int
             /\ \A d \in Int : /\ AtDepth(w, d) \in V /\ AtDepth(w, d).loop_depth = d
                               /\ AtDepth(w, d).functions = w.functions
                               /\ AtDepth(w, d).diagnostics = w.diagnostics
             /\ Left1(w) \in V /\ Left1(w).loop_depth = w.loop_depth - 1
             /\ Left1(w).functions = w.functions /\ Left1(w).diagnostics = w.diagnostics
             /\ Entered(w) \in V /\ Entered(w).loop_depth = w.loop_depth
             /\ Entered(w).functions = w.functions + 1 /\ Entered(w).diagnostics = w.diagnostics
             /\ Returned(w) \in V /\ Returned(w).loop_depth = w.loop_depth
             /\ Returned(w).functions = w.functions - 1 /\ Returned(w).diagnostics = w.diagnostics
             /\ enter_loop(p, w) \in V /\ enter_loop(p, w).loop_depth = w.loop_depth + 1
             /\ enter_loop(p, w).functions = w.functions
             /\ enter_loop(p, w).diagnostics =
                   w.diagnostics \cup IF w.loop_depth + 1 > MAX_LOOP_DEPTH THEN {p} ELSE {}
  <2>1. ASSUME NEW d \in Int
        PROVE  /\ w.loop_depth \in Int /\ w.functions \in Int
               /\ AtDepth(w, d) \in V /\ AtDepth(w, d).loop_depth = d
               /\ AtDepth(w, d).functions = w.functions /\ AtDepth(w, d).diagnostics = w.diagnostics
               /\ Left1(w) \in V /\ Left1(w).loop_depth = w.loop_depth - 1
               /\ Left1(w).functions = w.functions /\ Left1(w).diagnostics = w.diagnostics
               /\ Entered(w) \in V /\ Entered(w).loop_depth = w.loop_depth
               /\ Entered(w).functions = w.functions + 1 /\ Entered(w).diagnostics = w.diagnostics
               /\ Returned(w) \in V /\ Returned(w).loop_depth = w.loop_depth
               /\ Returned(w).functions = w.functions - 1 /\ Returned(w).diagnostics = w.diagnostics
               /\ enter_loop(p, w) \in V /\ enter_loop(p, w).loop_depth = w.loop_depth + 1
               /\ enter_loop(p, w).functions = w.functions
               /\ enter_loop(p, w).diagnostics =
                     w.diagnostics \cup IF w.loop_depth + 1 > MAX_LOOP_DEPTH THEN {p} ELSE {}
    BY VisitorUpdates
  <2>2. 0 \in Int
    OBVIOUS
  <2> QED
    BY <2>1, <2>2, Zenon
<1>6. ASSUME NEW w \in V, kind \in {"def", "lambda"}, w.functions \in Nat,
             w.functions > 0 <=> Inside(tree, p, "body")
      PROVE  Sees(tree, w, B("body"), visit_body(tree, p, f, w))
  <2> DEFINE a == AtDepth(w, 0)
             b == F("body", a)
  <2>1. visit_body(tree, p, f, w) = AtDepth(b, w.loop_depth)
    BY DEF visit_body, AtDepth
  <2>2. a \in V /\ a.loop_depth = 0 /\ a.functions = w.functions /\ a.diagnostics = w.diagnostics
    <3> HIDE DEF V
    <3>1. 0 \in Int
      OBVIOUS
    <3> QED
      BY <1>5, <3>1
  <2> HIDE DEF a
  <2>3. Sees(tree, a, B("body"), b)
    <3>1. a.loop_depth = Depth(tree, p, "body")
      BY <1>6, <2>2 DEF Depth
    <3>2. a.functions \in Nat /\ (a.functions > 0 <=> w.functions > 0)
      BY <1>6, <2>2
    <3>3. a.functions > 0 <=> Inside(tree, p, "body")
      BY <1>6, <3>2, Zenon
    <3> QED
      BY <1>4, <2>2, <3>1, <3>2, <3>3
  <2> HIDE DEF F, b
  <2>4. b \in V /\ b.functions = w.functions /\ b.diagnostics = w.diagnostics \cup B("body")
    BY <2>2, <2>3 DEF Sees
  <2> HIDE DEF V
  <2>5. /\ w.loop_depth \in Int /\ AtDepth(b, w.loop_depth) \in V /\ AtDepth(b, w.loop_depth).loop_depth = w.loop_depth
        /\ AtDepth(b, w.loop_depth).functions = b.functions
        /\ AtDepth(b, w.loop_depth).diagnostics = b.diagnostics
    BY <1>5, <2>4
  <2> QED
    BY <2>1, <2>4, <2>5 DEF Sees, V
<1>7. Below(tree, future, p) = R \cup B("before") \cup B("body") \cup B("after") \cup B("annotation")
  BY BelowIsChildren
<1>8. kind # "loop" => R = {}
  BY DEF Reported
<1>9. \A slot \in Slots : tree[p][slot] = 0 \/ (slot = "annotation" /\ ~Read) => B(slot) = {}
  <2> SUFFICES ASSUME NEW slot \in Slots, tree[p][slot] = 0 \/ (slot = "annotation" /\ ~Read) PROVE B(slot) = {}
    OBVIOUS
  <2>1. \/ tree[p][slot] = 0
        \/ slot = "annotation" /\ (future \/ (tree[p].is = "annotated" /\ InFunction(tree, p)))
    BY Zenon
  <2> QED
    BY <2>1, BelowNothing
<1>10. /\ kind \in {"loop", "def", "lambda", "annotated", "other"}
       /\ kind = "loop" => tree[p]["annotation"] = 0
       /\ kind = "def" => tree[p]["after"] = 0
       /\ kind = "lambda" => tree[p]["after"] = 0 /\ tree[p]["annotation"] = 0
       /\ kind = "annotated" => tree[p]["body"] = 0 /\ tree[p]["after"] = 0
       /\ kind = "other" => tree[p]["body"] = 0 /\ tree[p]["after"] = 0 /\ tree[p]["annotation"] = 0
  BY DEF SyntaxTree
<1> DEFINE a == F("before", v)
<1>11. Sees(tree, v, B("before"), a)
  BY <1>1, <1>2, <1>3
<1>12. Like(a) /\ a.diagnostics = v.diagnostics \cup B("before")
  BY <1>11 DEF Sees
<1>13. CASE kind = "loop"
  <2> DEFINE b == enter_loop(p, a)
             c == F("body", b)
             d == Left1(c)
             e == F("after", d)
  <2>1. visit_node(tree, p, future, f, v) = e
    BY <1>13 DEF visit_node, visit_loop, Left1
  <2> HIDE DEF a
  <2>2. b \in V /\ b.loop_depth = v.loop_depth + 1 /\ b.functions = v.functions /\ b.diagnostics = a.diagnostics \cup R
    <3>1. /\ b \in V /\ b.loop_depth = a.loop_depth + 1 /\ b.functions = a.functions
          /\ b.diagnostics = a.diagnostics \cup IF a.loop_depth + 1 > MAX_LOOP_DEPTH THEN {p} ELSE {}
      BY <1>5, <1>12
    <3>2. a.loop_depth + 1 > MAX_LOOP_DEPTH <=> v.loop_depth >= MAX_LOOP_DEPTH
      BY <1>1, <1>12, DepthAssumption
    <3>3. Reported(tree, future, p) <=> v.loop_depth >= MAX_LOOP_DEPTH
      BY <1>1, <1>13 DEF Reported
    <3>4. (IF a.loop_depth + 1 > MAX_LOOP_DEPTH THEN {p} ELSE {}) = R
      BY <3>2, <3>3, Zenon
    <3> HIDE DEF R, b
    <3> QED
      BY <1>12, <3>1, <3>4
  <2> HIDE DEF b, R
  <2>3. Sees(tree, b, B("body"), c)
    <3>1. b.loop_depth = Depth(tree, p, "body") /\ b.functions \in Nat
      BY <1>1, <1>13, <2>2 DEF Depth
    <3>2. b.functions > 0 <=> v.functions > 0
      BY <2>2
    <3>3. b.functions > 0 <=> Inside(tree, p, "body")
      <4>1. ~(kind = "def")
        BY <1>13
      <4> QED
        BY <1>1, <3>2, <4>1, Zenon DEF Inside
    <3> QED
      BY <1>4, <2>2, <3>1, <3>3
  <2> HIDE DEF c
  <2>4. c \in V /\ c.loop_depth = b.loop_depth /\ c.functions = b.functions /\ c.diagnostics = b.diagnostics \cup B("body")
    BY <2>3 DEF Sees
  <2>5. Like(d) /\ d.diagnostics = c.diagnostics
    <3>1. d \in V /\ d.loop_depth = c.loop_depth - 1 /\ d.functions = c.functions /\ d.diagnostics = c.diagnostics
      BY <1>5, <2>4
    <3> HIDE DEF d
    <3> QED
      BY <1>1, <2>2, <2>4, <3>1
  <2> HIDE DEF d
  <2>6. Sees(tree, d, B("after"), e)
    BY <1>2, <1>3, <2>5
  <2> HIDE DEF e, F
  <2>7. e \in V /\ e.loop_depth = v.loop_depth /\ e.functions = v.functions /\ e.diagnostics = d.diagnostics \cup B("after")
    BY <2>5, <2>6 DEF Sees
  <2>8. B("annotation") = {}
    BY <1>2, <1>9, <1>10, <1>13
  <2> HIDE DEF B
  <2>9. e.diagnostics = v.diagnostics \cup Below(tree, future, p)
    BY <1>7, <1>12, <2>2, <2>4, <2>5, <2>7, <2>8
  <2> QED
    BY <2>1, <2>7, <2>9 DEF Sees
<1>14. CASE kind = "def"
  <2> DEFINE b == IF future THEN a ELSE F("annotation", a)
             c == Entered(b)
             d == visit_body(tree, p, f, c)
             e == Returned(d)
  <2>1. visit_node(tree, p, future, f, v) = e
    BY <1>14 DEF visit_node, visit_function, Entered, Returned
  <2> HIDE DEF a
  <2>2. Like(b) /\ b.diagnostics = a.diagnostics \cup B("annotation")
    <3>1. CASE future
      <4>1. ~Read
        BY <3>1
      <4>2. B("annotation") = {}
        BY <1>2, <1>9, <4>1
      <4> HIDE DEF B
      <4> QED
        BY <1>12, <3>1, <4>2
    <3>2. CASE ~future
      <4>1. Read
        BY <1>14, <3>2
      <4>2. Sees(tree, a, B("annotation"), F("annotation", a))
        BY <1>2, <1>3, <1>12, <4>1
      <4>3. b = F("annotation", a)
        BY <3>2
      <4> HIDE DEF b, F, B
      <4> QED
        BY <1>12, <4>2, <4>3 DEF Sees
    <3> QED
      BY <3>1, <3>2
  <2> HIDE DEF b
  <2>3. /\ c \in V /\ c.loop_depth = v.loop_depth /\ c.functions = v.functions + 1 /\ c.diagnostics = b.diagnostics
        /\ c.functions \in Nat /\ c.functions > 0
    <3>1. c \in V /\ c.loop_depth = b.loop_depth /\ c.functions = b.functions + 1 /\ c.diagnostics = b.diagnostics
      BY <1>5, <2>2
    <3> HIDE DEF c
    <3> QED
      BY <1>1, <2>2, <3>1
  <2> HIDE DEF c
  <2>4. Sees(tree, c, B("body"), d)
    <3>1. Inside(tree, p, "body")
      BY <1>14 DEF Inside
    <3> QED
      BY <1>6, <1>14, <2>3, <3>1
  <2> HIDE DEF d
  <2>5. d \in V /\ d.loop_depth = v.loop_depth /\ d.functions = v.functions + 1 /\ d.diagnostics = c.diagnostics \cup B("body")
    BY <2>3, <2>4 DEF Sees
  <2>6. e \in V /\ e.loop_depth = v.loop_depth /\ e.functions = v.functions /\ e.diagnostics = d.diagnostics
    <3>1. e \in V /\ e.loop_depth = d.loop_depth /\ e.functions = d.functions - 1 /\ e.diagnostics = d.diagnostics
      BY <1>5, <2>5
    <3> HIDE DEF e
    <3> QED
      BY <1>1, <2>5, <3>1
  <2>7. B("after") = {} /\ R = {}
    BY <1>2, <1>8, <1>9, <1>10, <1>14
  <2> HIDE DEF B, R, e
  <2>8. e.diagnostics = v.diagnostics \cup Below(tree, future, p)
    BY <1>7, <1>12, <2>2, <2>3, <2>5, <2>6, <2>7
  <2> QED
    BY <2>1, <2>6, <2>8 DEF Sees
<1>15. CASE kind = "lambda"
  <2> DEFINE e == visit_body(tree, p, f, a)
  <2>1. visit_node(tree, p, future, f, v) = e
    BY <1>15 DEF visit_node
  <2> HIDE DEF a
  <2>2. Sees(tree, a, B("body"), e)
    <3>1. a.functions \in Nat /\ (a.functions > 0 <=> v.functions > 0)
      BY <1>1, <1>12
    <3>2. ~(kind = "def")
      BY <1>15
    <3>3. a.functions > 0 <=> Inside(tree, p, "body")
      BY <1>1, <3>1, <3>2, Zenon DEF Inside
    <3> QED
      BY <1>6, <1>12, <1>15, <3>1, <3>3
  <2>3. B("after") = {} /\ B("annotation") = {} /\ R = {}
    BY <1>2, <1>8, <1>9, <1>10, <1>15
  <2> HIDE DEF B, R, e
  <2>4. e \in V /\ e.loop_depth = v.loop_depth /\ e.functions = v.functions /\ e.diagnostics = a.diagnostics \cup B("body")
    BY <1>12, <2>2 DEF Sees
  <2>5. e.diagnostics = v.diagnostics \cup Below(tree, future, p)
    BY <1>7, <1>12, <2>3, <2>4
  <2> QED
    BY <2>1, <2>4, <2>5 DEF Sees
<1>16. CASE kind = "annotated"
  <2> DEFINE e == IF a.functions > 0 \/ future THEN a ELSE F("annotation", a)
  <2>1. visit_node(tree, p, future, f, v) = e
    BY <1>16 DEF visit_node, visit_AnnAssign
  <2> HIDE DEF a
  <2>2. (a.functions > 0 \/ future) <=> ~Read
    <3>1. a.functions > 0 <=> v.functions > 0
      BY <1>12
    <3> QED
      BY <1>1, <1>16, <3>1, Zenon
  <2>3. e \in V /\ e.loop_depth = v.loop_depth /\ e.functions = v.functions /\ e.diagnostics = a.diagnostics \cup B("annotation")
    <3>1. CASE ~Read
      <4>1. B("annotation") = {} /\ e = a
        BY <1>2, <1>9, <2>2, <3>1
      <4> HIDE DEF B, e
      <4> QED
        BY <1>12, <4>1
    <3>2. CASE Read
      <4>1. Sees(tree, a, B("annotation"), F("annotation", a)) /\ e = F("annotation", a)
        BY <1>2, <1>3, <1>12, <2>2, <3>2
      <4> HIDE DEF e, F, B
      <4> QED
        BY <1>12, <4>1 DEF Sees
    <3> QED
      BY <3>1, <3>2
  <2>4. B("body") = {} /\ B("after") = {} /\ R = {}
    BY <1>2, <1>8, <1>9, <1>10, <1>16
  <2> HIDE DEF B, R, e
  <2>5. e.diagnostics = v.diagnostics \cup Below(tree, future, p)
    BY <1>7, <1>12, <2>3, <2>4
  <2> QED
    BY <2>1, <2>3, <2>5 DEF Sees
<1>17. CASE kind = "other"
  <2>1. visit_node(tree, p, future, f, v) = a
    BY <1>17 DEF visit_node
  <2>2. B("body") = {} /\ B("after") = {} /\ B("annotation") = {} /\ R = {}
    BY <1>2, <1>8, <1>9, <1>10, <1>17
  <2> HIDE DEF B, R, a
  <2>3. a.diagnostics = v.diagnostics \cup Below(tree, future, p)
    BY <1>7, <1>12, <2>2
  <2> QED
    BY <1>12, <2>1, <2>3 DEF Sees
<1> QED
  BY <1>10, <1>13, <1>14, <1>15, <1>16, <1>17

(* A node that is evaluated reports, for a visitor that fits, what is      *)
(* below it: by induction from the leaves of the tree.                     *)
LEMMA TreeReports ==
  ASSUME NEW tree, SyntaxTree(tree), NEW future, NEW f, Answers(tree, future, f)
  PROVE  \A p \in DOMAIN tree : \A v :
           Evaluated(tree, future, p) /\ Fits(tree, p, v) => Sees(tree, v, Below(tree, future, p), f[<<p, v>>])
<1> DEFINE Told(p) == \A v : Evaluated(tree, future, p) /\ Fits(tree, p, v) =>
                                Sees(tree, v, Below(tree, future, p), f[<<p, v>>])
<1>1. PICK N \in Nat : \A p \in DOMAIN tree : Len(p) <= N
  BY DEF SyntaxTree
<1>2. \A p \in DOMAIN tree : Len(p) \in Nat
  BY DEF SyntaxTree
<1>3. ASSUME NEW p \in DOMAIN tree, \A c \in DOMAIN tree : Len(c) = Len(p) + 1 => Told(c)
      PROVE  Told(p)
  <2> HIDE DEF Told
  <2>1. ASSUME NEW slot \in Slots, NEW i \in 1 .. tree[p][slot]
        PROVE  Append(p, <<slot, i>>) \in DOMAIN tree /\ Told(Append(p, <<slot, i>>))
    <3> DEFINE c == Append(p, <<slot, i>>)
    <3>1. IsChild(tree, p, slot, i, c)
      BY DEF IsChild
    <3> HIDE DEF c
    <3>2. c \in DOMAIN tree /\ Len(c) = Len(p) + 1
      BY <3>1, PathOfChild
    <3> QED
      BY <1>3, <3>2 DEF c
  <2>2. Returns(tree, p, f)
    BY <2>1 DEF Answers, Returns
  <2>3. ChildrenReport(tree, future, p, f)
    BY <2>1 DEF ChildrenReport, Told
  <2>4. ASSUME NEW v, Evaluated(tree, future, p), Fits(tree, p, v)
        PROVE  Sees(tree, v, Below(tree, future, p), f[<<p, v>>])
    <3>1. Sees(tree, v, Below(tree, future, p), visit_node(tree, p, future, f, v))
      BY <2>2, <2>3, <2>4, NodeReports
    <3>2. v \in Visitors(tree)
      BY <2>4 DEF Fits
    <3> QED
      BY <3>1, <3>2 DEF Answers
  <2> QED
    BY <2>4 DEF Told
<1> HIDE DEF Told
<1> DEFINE T == {n \in 0 .. N + 1 : \A p \in DOMAIN tree : Len(p) >= N + 1 - n => Told(p)}
<1>4. 0 \in T
  <2>1. \A p \in DOMAIN tree : ~ (Len(p) >= N + 1 - 0)
    BY <1>1, <1>2
  <2> QED
    BY <1>1, <2>1
<1>5. ASSUME NEW n \in 1 .. N + 1, n - 1 \in T PROVE n \in T
  <2> SUFFICES ASSUME NEW p \in DOMAIN tree, Len(p) >= N + 1 - n PROVE Told(p)
    BY <1>1
  <2>1. \A c \in DOMAIN tree : Len(c) = Len(p) + 1 => Len(c) >= N + 1 - (n - 1)
    BY <1>1, <1>2
  <2> QED
    BY <1>3, <1>5, <2>1
<1>6. T = 0 .. N + 1
  <2>1. N + 1 \in Nat
    BY <1>1
  <2> HIDE DEF T
  <2> QED
    BY <1>4, <1>5, <2>1, Induction DEF T
<1>7. N + 1 \in 0 .. N + 1 /\ \A n \in Nat : n >= N + 1 - (N + 1)
  BY <1>1
<1>8. \A p \in DOMAIN tree : Told(p)
  <2>1. N + 1 \in T
    <3> HIDE DEF T
    <3> QED
      BY <1>6, <1>7
  <2> QED
    BY <1>2, <1>7, <2>1
<1> QED
  BY <1>8 DEF Told

(* What is reported of a whole tree                                        *)
LEMMA TreeIsCounted ==
  ASSUME NEW tree, SyntaxTree(tree), NEW future
  PROVE  diagnostics_for_file(tree, future) = {q \in DOMAIN tree : Reported(tree, future, q)}
<1>1. PICK f : /\ Answers(tree, future, f)
               /\ diagnostics_for_file(tree, future) = f[<<<<>>, Fresh>>].diagnostics
  BY VisitAnswers
<1>2. <<>> \in DOMAIN tree /\ Len(<<>>) = 0
  BY DEF SyntaxTree
<1>3. \A k, kinds : k \in 0 .. Len(<<>>) => ~Within(tree, <<>>, k, kinds)
  BY DEF Within
<1>4. Evaluated(tree, future, <<>>)
  BY DEF Evaluated
<1>5. Fits(tree, <<>>, Fresh)
  <2>1. Around(tree, <<>>) = {} /\ ~InFunction(tree, <<>>)
    BY <1>3 DEF Around, InFunction
  <2>2. Cardinality(Around(tree, <<>>)) = 0
    BY <2>1, FS_EmptySet
  <2>3. /\ Fresh \in Visitors(tree) /\ Fresh.loop_depth = 0 /\ Fresh.functions = 0
        /\ Fresh.functions \in Nat /\ ~ (Fresh.functions > 0)
    BY DEF Fresh, Visitors
  <2> QED
    BY <2>1, <2>2, <2>3 DEF Fits
<1>6. Sees(tree, Fresh, Below(tree, future, <<>>), f[<<<<>>, Fresh>>])
  BY <1>1, <1>2, <1>4, <1>5, TreeReports
<1>7. Fresh.diagnostics = {}
  BY DEF Fresh
<1>8. Below(tree, future, <<>>) = {q \in DOMAIN tree : Reported(tree, future, q)}
  <2>1. ASSUME NEW q \in DOMAIN tree PROVE 0 <= Len(q) /\ Prefix(q, 0) = <<>>
    <3>1. q \in Seq(Steps) /\ Len(q) \in Nat
      BY DEF SyntaxTree
    <3>2. Prefix(q, 0) \in Seq(Steps) /\ Len(Prefix(q, 0)) = 0
      BY <3>1 DEF Prefix
    <3> QED
      BY <3>1, <3>2
  <2> QED
    BY <1>2, <2>1 DEF Below
<1> QED
  BY <1>1, <1>6, <1>7, <1>8 DEF Sees

(* NestingIsCounted, for syntax trees of any size: the loops reported are  *)
(* those repeated within MAX_LOOP_DEPTH loops or more of the same call.    *)
THEOREM NestingTheorem == (\A x \in NestingInputs : SyntaxTree(x.tree)) => (Spec => []NestingIsCounted)
<1> SUFFICES ASSUME \A x \in NestingInputs : SyntaxTree(x.tree)
             PROVE  Spec => []NestingIsCounted
  OBVIOUS
<1>1. ASSUME OneCall PROVE NestingIsCounted
  <2> SUFFICES ASSUME Ran("check-python-scalability")
               PROVE  result = {p \in DOMAIN input.tree : Reported(input.tree, input.future, p)}
    BY DEF NestingIsCounted, Reported
  <2>1. SyntaxTree(input.tree) /\ result = diagnostics_for_file(input.tree, input.future)
    BY <1>1 DEF OneCall, Ran
  <2> QED
    BY <2>1, TreeIsCounted
<1> QED
  BY <1>1, CallsKeepInputs, PTL
=============================================================================
