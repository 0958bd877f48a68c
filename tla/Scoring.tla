------------------------------- MODULE Scoring -------------------------------
(***************************************************************************)
(* How review-detection/analyze.py credits the findings of a reviewer to   *)
(* the defects that were seeded.  A path is the sequence of its parts      *)
(* after lstrip("./").                                                     *)
(***************************************************************************)
EXTENDS Integers, Sequences, FiniteSets, SequencesExt

CONSTANTS WINDOW,
          NoLine    \* no integer line or step: nearer to nothing than any line

same_file(reported, expected) ==
  reported # <<>> /\ (IsSuffix(expected, reported) \/ IsSuffix(reported, expected))

(* Mutation: the other severity is asked for instead of any.               *)
reportedMinor(findings, any_severity) ==
  {i \in 1 .. Len(findings) : findings[i].severity = IF any_severity THEN "minor" ELSE "blocking"}

(* The findings that count, by their place in the record                   *)
reported(findings, any_severity) ==
  {i \in 1 .. Len(findings) : any_severity \/ findings[i].severity = "blocking"}

by_line(f, span) == f.line # NoLine /\ span.start - WINDOW <= f.line /\ f.line <= span.end + WINDOW
by_step(f, span) == f.step # NoLine /\ f.step \in span.steps
credits(f, span) == same_file(f.file, span.file) /\ (by_line(f, span) \/ by_step(f, span))

(* Twice the distance from the centre of the span; without a line, all     *)
(* spans are equally far.                                                  *)
distance(f, span) ==
  LET d == 2 * f.line - (span.start + span.end)
  IN IF f.line = NoLine THEN 0 ELSE IF d < 0 THEN -d ELSE d

(* The nearest candidate; then the earlier span, then the smaller id.      *)
nearest(f, defects, candidates) ==
  LET key(d) == <<distance(f, defects[d]), defects[d].start, d>>
      before(a, b) == \/ a[1] < b[1]
                      \/ a[1] = b[1] /\ a[2] < b[2]
                      \/ a[1] = b[1] /\ a[2] = b[2] /\ a[3] <= b[3]
  IN CHOOSE d \in candidates : \A e \in candidates : before(key(d), key(e))

(* Mutation: a finding whose nearest defect is taken credits no other.     *)
takeNearest(defects, detected, i, f) ==
  LET near == {d \in DOMAIN defects : credits(f, defects[d])}
      d == nearest(f, defects, near)
  IN IF near = {} \/ d \in DOMAIN detected THEN detected
     ELSE [e \in DOMAIN detected \cup {d} |-> IF e = d THEN i ELSE detected[e]]

(* One turn of the loop: finding f, the i-th, takes the nearest defect that *)
(* is left.                                                                 *)
take(defects, detected, i, f) ==
  LET left == {d \in DOMAIN defects \ DOMAIN detected : credits(f, defects[d])}
      d == nearest(f, defects, left)
  IN IF left = {} THEN detected
     ELSE [e \in DOMAIN detected \cup {d} |-> IF e = d THEN i ELSE detected[e]]

(* detected maps a defect to its finding; the n-th are those of the first n *)
(* findings.                                                                *)
detections(defects, findings, any_severity) ==
  LET detected[n \in 0 .. Len(findings)] ==
        IF n = 0 THEN <<>>
        ELSE IF n \in reported(findings, any_severity)
             THEN take(defects, detected[n - 1], n, findings[n])
             ELSE detected[n - 1]
  IN detected

score(defects, findings, any_severity) == detections(defects, findings, any_severity)[Len(findings)]

unmatched(defects, findings) ==
  reported(findings, FALSE) \ Range(score(defects, findings, FALSE))
===============================================================================
