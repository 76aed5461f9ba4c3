----------------------------- MODULE Classifier -----------------------------
(***************************************************************************)
(* The complexity classifier (app/core/classifier.py): the tier it gives a *)
(* prompt, from what its patterns find there. The patterns are left out.   *)
(*                                                                         *)
(* Scores are counted in 2400ths, in which every weight and every quotient *)
(* of the code is a whole number. Rounding to four digits removes what the *)
(* floats add, and moves no score across a threshold: both thresholds are  *)
(* whole 2400ths, and half a digit is less than one of them.               *)
(***************************************************************************)
EXTENDS Integers

Findings ==
  [empty : BOOLEAN,      \* nothing but blanks
   trivial : BOOLEAN,    \* a greeting, or shorter than 12 characters
   words : Nat,
   code : BOOLEAN,
   math : BOOLEAN,
   terms : Nat,          \* reasoning terms
   steps : BOOLEAN,      \* multi-step phrases
   marks : Nat]          \* question marks

Capped(n, most) == IF n > most THEN most ELSE n

Worth(found, weight) == IF found THEN weight ELSE 0

\* The weighted sum. It needs no clamp to 0.0 .. 1.0 (ScoreIsBounded).
Score(f) ==
  3 * Capped(f.words, 200) + Worth(f.code, 600) + Worth(f.math, 360)
  + 160 * Capped(f.terms, 3) + Worth(f.steps, 240) + 40 * Capped(f.marks, 3)

\* 0.25 and 0.55
Graded(score) ==
  CASE score < 600  -> "simple"
    [] score >= 600 /\ score < 1320 -> "medium"
    [] score >= 1320 -> "complex"

classify(f) == IF f.empty \/ f.trivial THEN "simple" ELSE Graded(Score(f))

-----------------------------------------------------------------------------
\* More is found in g than in f.
Richer(g, f) ==
  /\ g.words >= f.words /\ g.terms >= f.terms /\ g.marks >= f.marks
  /\ f.code => g.code
  /\ f.math => g.math
  /\ f.steps => g.steps

Rank(tier) == CASE tier = "simple" -> 0 [] tier = "medium" -> 1 [] tier = "complex" -> 2

=============================================================================
