-------------------------- MODULE ClassifierProofs --------------------------
(***************************************************************************)
(* Proofs about the classifier, for every prompt.                          *)
(***************************************************************************)
EXTENDS Classifier, TLAPS

LEMMA Typed ==
  ASSUME NEW f \in Findings
  PROVE  /\ f.words \in Nat /\ f.terms \in Nat /\ f.marks \in Nat
         /\ f.code \in BOOLEAN /\ f.math \in BOOLEAN /\ f.steps \in BOOLEAN
  BY DEF Findings

LEMMA CappedBounds ==
  ASSUME NEW m \in Nat, NEW n \in Nat, NEW most \in Nat
  PROVE  /\ Capped(n, most) \in 0 .. most
         /\ m >= n => Capped(m, most) >= Capped(n, most)
         /\ Capped(n, most) <= n
  BY DEF Capped

LEMMA WorthIs ==
  ASSUME NEW b \in BOOLEAN, NEW w \in Nat
  PROVE  Worth(b, w) \in 0 .. w /\ (~ b => Worth(b, w) = 0)
  <1>1. CASE b
    BY <1>1 DEF Worth
  <1>2. CASE ~ b
    BY <1>2 DEF Worth
  <1> QED
    BY <1>1, <1>2

LEMMA WorthRises ==
  ASSUME NEW b \in BOOLEAN, NEW c \in BOOLEAN, NEW w \in Nat, b => c
  PROVE  Worth(c, w) >= Worth(b, w)
  <1>1. CASE b
    BY <1>1 DEF Worth
  <1>2. CASE ~ b
    BY <1>2, WorthIs DEF Worth
  <1> QED
    BY <1>1, <1>2

\* What each signal contributes.
LEMMA Parts ==
  ASSUME NEW f \in Findings
  PROVE  /\ Capped(f.words, 200) \in 0 .. 200 /\ Capped(f.words, 200) <= f.words
         /\ Capped(f.terms, 3) \in 0 .. 3 /\ Capped(f.marks, 3) \in 0 .. 3
         /\ Worth(f.code, 600) \in 0 .. 600 /\ (~ f.code => Worth(f.code, 600) = 0)
         /\ Worth(f.math, 360) \in 0 .. 360 /\ Worth(f.steps, 240) \in 0 .. 240
  <1> DEFINE words == f.words  terms == f.terms  marks == f.marks
             code == f.code    math == f.math    steps == f.steps
  <1>1. words \in Nat /\ terms \in Nat /\ marks \in Nat
    BY Typed
  <1>2. code \in BOOLEAN /\ math \in BOOLEAN /\ steps \in BOOLEAN
    BY Typed
  <1> HIDE DEF words, terms, marks, code, math, steps
  <1>3. Capped(words, 200) \in 0 .. 200 /\ Capped(words, 200) <= words
    BY <1>1, CappedBounds, 200 \in Nat
  <1>4. Capped(terms, 3) \in 0 .. 3 /\ Capped(marks, 3) \in 0 .. 3
    BY <1>1, CappedBounds, 3 \in Nat
  <1>5. Worth(code, 600) \in 0 .. 600
    <2>1. CASE code
      BY <2>1 DEF Worth
    <2>2. CASE ~ code
      BY <2>2 DEF Worth
    <2> QED
      BY <2>1, <2>2
  <1>8. ~ code => Worth(code, 600) = 0
    BY DEF Worth
  <1>6. Worth(math, 360) \in 0 .. 360
    BY <1>2, WorthIs, 360 \in Nat
  <1>7. Worth(steps, 240) \in 0 .. 240
    BY <1>2, WorthIs, 240 \in Nat
  <1> QED
    BY <1>3, <1>4, <1>5, <1>6, <1>7, <1>8 DEF words, terms, marks, code, math, steps

\* No prompt, however long, scores below 0 or above 1 (test_classifier.py:31-33): the
\* clamp is for what the floats may add (classifier.py:87).
THEOREM ScoreIsBounded ==
  ASSUME NEW f \in Findings
  PROVE  Score(f) \in Nat /\ Score(f) <= 2400
  <1> DEFINE length == Capped(f.words, 200)  code == Worth(f.code, 600)
             math == Worth(f.math, 360)  terms == Capped(f.terms, 3)
             steps == Worth(f.steps, 240)  marks == Capped(f.marks, 3)
  <1>1. length \in 0 .. 200 /\ code \in 0 .. 600 /\ math \in 0 .. 360 /\ terms \in 0 .. 3
        /\ steps \in 0 .. 240 /\ marks \in 0 .. 3
    BY Parts
  <1>2. Score(f) = 3 * length + code + math + 160 * terms + steps + 40 * marks
    BY DEF Score
  <1> HIDE DEF length, code, math, terms, steps, marks
  <1> QED
    BY <1>1, <1>2

LEMMA GradedIs ==
  ASSUME NEW n \in Nat
  PROVE  /\ n < 600 => Graded(n) = "simple"
         /\ n >= 600 /\ n < 1320 => Graded(n) = "medium"
         /\ n >= 1320 => Graded(n) = "complex"
  BY DEF Graded

LEMMA Ranks == Rank("simple") = 0 /\ Rank("medium") = 1 /\ Rank("complex") = 2
  BY DEF Rank

LEMMA GradedRises ==
  ASSUME NEW m \in Nat, NEW n \in Nat, m >= n
  PROVE  Rank(Graded(m)) >= Rank(Graded(n)) /\ Rank(Graded(m)) >= Rank("simple")
  <1>1. CASE n < 600
    <2>1. Graded(n) = "simple" /\ Graded(m) \in {"simple", "medium", "complex"}
      BY <1>1, GradedIs
    <2> QED
      BY <2>1, Ranks
  <1>2. CASE n >= 600 /\ n < 1320
    <2>1. Graded(n) = "medium" /\ Graded(m) \in {"medium", "complex"}
      BY <1>2, GradedIs
    <2> QED
      BY <2>1, Ranks
  <1>3. CASE n >= 1320
    <2>1. Graded(n) = "complex" /\ Graded(m) = "complex"
      BY <1>3, GradedIs
    <2> QED
      BY <2>1, Ranks
  <1> QED
    BY <1>1, <1>2, <1>3

\* No signal makes a prompt look simpler: whatever more is found in a text that is
\* scored at all, its tier does not fall.
THEOREM ClassifyIsMonotone ==
  ASSUME NEW f \in Findings, NEW g \in Findings, Richer(g, f), ~ g.empty, ~ g.trivial
  PROVE  Rank(classify(g)) >= Rank(classify(f))
  <1>1. Score(f) \in Nat /\ Score(g) \in Nat
    BY ScoreIsBounded
  <1>2. Score(g) >= Score(f)
    <2> DEFINE fLength == Capped(f.words, 200)  gLength == Capped(g.words, 200)
               fTerms == Capped(f.terms, 3)     gTerms == Capped(g.terms, 3)
               fMarks == Capped(f.marks, 3)     gMarks == Capped(g.marks, 3)
               fCode == Worth(f.code, 600)      gCode == Worth(g.code, 600)
               fMath == Worth(f.math, 360)      gMath == Worth(g.math, 360)
               fSteps == Worth(f.steps, 240)    gSteps == Worth(g.steps, 240)
    <2>1. gLength >= fLength /\ gTerms >= fTerms /\ gMarks >= fMarks
      BY Typed, CappedBounds DEF Richer
    <2>2. gCode >= fCode
      BY Typed, WorthRises, 600 \in Nat DEF Richer
    <2>3. gMath >= fMath
      BY Typed, WorthRises, 360 \in Nat DEF Richer
    <2>4. gSteps >= fSteps
      BY Typed, WorthRises, 240 \in Nat DEF Richer
    <2>5. /\ fLength \in Nat /\ fTerms \in Nat /\ fMarks \in Nat
          /\ fCode \in Nat /\ fMath \in Nat /\ fSteps \in Nat
      BY Parts
    <2>6. /\ gLength \in Nat /\ gTerms \in Nat /\ gMarks \in Nat
          /\ gCode \in Nat /\ gMath \in Nat /\ gSteps \in Nat
      BY Parts
    <2>7. /\ Score(f) = 3 * fLength + fCode + fMath + 160 * fTerms + fSteps + 40 * fMarks
          /\ Score(g) = 3 * gLength + gCode + gMath + 160 * gTerms + gSteps + 40 * gMarks
      BY DEF Score
    <2> HIDE DEF fLength, fTerms, fMarks, fCode, fMath, fSteps,
                 gLength, gTerms, gMarks, gCode, gMath, gSteps
    <2> QED
      BY <2>1, <2>2, <2>3, <2>4, <2>5, <2>6, <2>7
  <1>3. Rank(Graded(Score(g))) >= Rank(Graded(Score(f))) /\ Rank(Graded(Score(g))) >= Rank("simple")
    BY <1>1, <1>2, GradedRises
  <1> QED
    BY <1>3 DEF classify

\* A prompt of fewer than 40 words goes to the complex tier only for code: all its other
\* signals together do not reach 0.55 (classifier.py:89-94).
THEOREM ShortProseIsNotComplex ==
  ASSUME NEW f \in Findings, f.words < 40, ~ f.code
  PROVE  classify(f) # "complex"
  <1> DEFINE length == Capped(f.words, 200)  code == Worth(f.code, 600)
             math == Worth(f.math, 360)  terms == Capped(f.terms, 3)
             steps == Worth(f.steps, 240)  marks == Capped(f.marks, 3)
  <1>1. length \in 0 .. 39 /\ code = 0 /\ math \in 0 .. 360 /\ terms \in 0 .. 3
        /\ steps \in 0 .. 240 /\ marks \in 0 .. 3
    BY Parts, Typed
  <1>2. Score(f) = 3 * length + code + math + 160 * terms + steps + 40 * marks
    BY DEF Score
  <1>3. Score(f) < 1320 /\ Score(f) \in Nat
    <2> HIDE DEF length, code, math, terms, steps, marks
    <2> QED
      BY <1>1, <1>2
  <1> QED
    BY <1>3 DEF classify, Graded

=============================================================================
