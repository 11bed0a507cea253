------------------------------ MODULE FitScore ------------------------------
(***************************************************************************)
(* compute_fit_score and the features it compares.                         *)
(*                                                                         *)
(* The five measures are integers in units of 1 / Unit, exact where the    *)
(* code has floating point; a text is the number of its words per tag, the *)
(* words with no tracked tag under Other; a chunk of a profiled text has   *)
(* its words so and the number of its punctuation marks.                   *)
(***************************************************************************)
EXTENDS Rounding, Sums

CONSTANTS
  Unit,     \* what a measure of 1.0 is worth
  Tracked,  \* the nine tags of _TRACKED_POS
  Other     \* "OTHER"

ASSUME ScoreAssumption ==
  Unit \in Nat \ {0} /\ IsFiniteSet(Tracked) /\ Other \notin Tracked

Tags == Tracked \cup {Other}
Smaller(a, b) == IF a < b THEN a ELSE b
Larger(a, b) == IF a < b THEN b ELSE a
Distance(a, b) == Larger(a, b) - Smaller(a, b)

-----------------------------------------------------------------------------
(* The stylistic measure.  A distribution is a list of numerators over one
   denominator, 0 when it is empty. *)

\* pos_distribution of compute_stylistic for one chunk, over every word.
ChunkDistribution(c) == [of |-> c.words, total |-> Sum(c.words, Tags)]

\* A chunk counts by its tokens, punctuation included.
Weight(c) == Larger(Sum(c.words, Tags) + c.punct, 1)

\* mutant: divided by the number of chunks.
WeightedMeanByCount(ds, weights) ==
  LET parts(d) == Larger(d.total, 1)
      whole == FoldFunction(LAMBDA a, b : a * b, 1, [i \in DOMAIN ds |-> parts(ds[i])])
      share(i, k) == weights[i] * ds[i].of[k] * (whole \div parts(ds[i]))
  IN [of |-> [k \in Tags |-> Sum([i \in DOMAIN ds |-> share(i, k)], DOMAIN ds)],
      total |-> whole * Cardinality(DOMAIN ds)]

\* _weighted_mean of distributions; an empty one counts as 0 for every tag.
WeightedMean(ds, weights) ==
  LET parts(d) == Larger(d.total, 1)
      whole == FoldFunction(LAMBDA a, b : a * b, 1, [i \in DOMAIN ds |-> parts(ds[i])])
      share(i, k) == weights[i] * ds[i].of[k] * (whole \div parts(ds[i]))
  IN [of |-> [k \in Tags |-> Sum([i \in DOMAIN ds |-> share(i, k)], DOMAIN ds)],
      total |-> whole * Sum(weights, DOMAIN ds)]

\* pos_distribution of a profile.
ProfileDistribution(chunks) ==
  WeightedMean([i \in DOMAIN chunks |-> ChunkDistribution(chunks[i])],
               [i \in DOMAIN chunks |-> Weight(chunks[i])])

\* _pos_distribution of fit_scorer, over the tracked words: nothing is left for Other.
PosDistribution(text) ==
  [of |-> [text EXCEPT ![Other] = 0], total |-> Sum(text, Tracked)]

\* _stylistic_score: the Jaccard similarity of two distributions, as a fraction.
Jaccard(a, b) ==
  LET at(d, e, k) == IF d.total = 0 THEN 0 ELSE d.of[k] * (IF e.total = 0 THEN 1 ELSE e.total)
      common == Sum([k \in Tags |-> Smaller(at(a, b, k), at(b, a, k))], Tags)
      either == Sum([k \in Tags |-> Larger(at(a, b, k), at(b, a, k))], Tags)
  IN IF either = 0 THEN <<0, 1>> ELSE <<common, either>>

StylisticScore(text, profile) == Jaccard(PosDistribution(text), profile)

-----------------------------------------------------------------------------
(* The composite. *)

\* mutant: a measure below 0 counts as it is.
ClampTop(m) == Smaller(Unit, m)

Clamp01(m) == Larger(0, Smaller(Unit, m))

\* _semantic_score: a zero vector (no centroid yet) has no similarity.
SemanticScore(zero, cosine) == IF zero THEN 0 ELSE cosine

\* _syntactic_score: 1 - |asl - asl_profile| / asl_profile; sentences are counted in
\* tokens.
SyntacticScore(asl, profile) ==
  IF profile = 0 \/ asl = 0 THEN 0 ELSE Unit - (Distance(asl, profile) * Unit) \div profile

\* _lexical_score: 1 - |ttr - mattr|.
LexicalScore(ttr, mattr) == IF mattr = 0 \/ ttr = 0 THEN 0 ELSE Unit - Distance(ttr, mattr)

\* _vocabulary_score: five of the best fifteen terms are enough.
VocabularyScore(hits) == Smaller(Unit, (hits * Unit) \div 5)

\* m: the measures of a text against a profile.
ComputeFitScore(m) ==
  LET raw == 35 * Clamp01(SemanticScore(m.zero, m.cosine))
             + 20 * Clamp01(SyntacticScore(m.asl, m.aslProfile))
             + 15 * Clamp01(LexicalScore(m.ttr, m.mattr))
             + 15 * Clamp01(m.pos)
             + 15 * Clamp01(VocabularyScore(m.hits))
  IN Larger(0, Smaller(100, RoundHalfEven(raw, Unit)))
=============================================================================
