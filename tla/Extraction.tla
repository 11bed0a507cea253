----------------------------- MODULE Extraction -----------------------------
(***************************************************************************)
(* The parts of the style extractor that choose: which text survives the   *)
(* cleaning, which chunks are sampled, which words are distinctive.        *)
(*                                                                         *)
(* A raw text is a sequence over Letters: a sentinel line, a word, a line  *)
(* break, an illustration block, a curly quote.  A corpus is the number of *)
(* occurrences of each term.  Ratios are compared as exact fractions.      *)
(***************************************************************************)
EXTENDS Integers, SequencesExt, Rounding, Sums

CONSTANTS
  StopWords   \* ENGLISH_STOP_WORDS

Letters == {"start", "end", "word", "newline", "plate", "curly"}

-----------------------------------------------------------------------------
(* clean_text *)

StripHeader(t) == SubSeq(t, SelectInSeq(t, LAMBDA c : c = "start") + 1, Len(t))

StripFooter(t) ==
  LET e == SelectInSeq(t, LAMBDA c : c = "end") IN
  IF e = 0 THEN t ELSE SubSeq(t, 1, e - 1)

\* A text without the given letters: re.sub with nothing, letter by letter.
Without(t, letters) ==
  FoldLeft(LAMBDA s, c : IF c \in letters THEN s ELSE Append(s, c), <<>>, t)

StripPlates(t) == Without(t, {"plate"})

\* \n{3,} becomes two line breaks.
CollapseBlank(t) ==
  FoldLeft(LAMBDA s, c : IF c = "newline" /\ IsSuffix(<<c, c>>, s) THEN s ELSE Append(s, c),
           <<>>, t)

Strip(t) ==
  LET ink(c) == c # "newline"
      first == SelectInSeq(t, ink)
  IN IF first = 0 THEN <<>> ELSE SubSeq(t, first, SelectLastInSeq(t, ink))

\* mutant: blank lines are collapsed before the illustrations go.
CleanTextPlatesLast(t) ==
  Strip(StripPlates(CollapseBlank(ReplaceAll(StripFooter(StripHeader(t)), "curly", "quote"))))

CleanText(t) ==
  Strip(CollapseBlank(StripPlates(ReplaceAll(StripFooter(StripHeader(t)), "curly", "quote"))))

-----------------------------------------------------------------------------
(* Sampling: indexes count from 0, as in the code. *)

\* One pass of the bisection: the odd multiples of n / denom not seen yet.
Bisect(order, n, denom) ==
  FoldLeft(LAMBDA seen, k : LET idx == ((2 * k - 1) * n) \div denom
                            IN IF Contains(seen, idx) THEN seen ELSE Append(seen, idx),
           order, [k \in 1 .. denom \div 2 |-> k])

\* mutant (issue #100): the chunks in the order of the books.
SpreadOrderPrefix(n) == [i \in 1 .. n |-> i - 1]

\* The passes for denom = 2, 4, 8, ... while an index is missing: n of them are enough.
\* They leave none to the extend of the last line.
SpreadOrder(n) ==
  IF n = 0 THEN <<>>
  ELSE FoldLeft(LAMBDA s, e :
                  IF Len(s.order) < n /\ s.denom <= 2 * n
                  THEN [order |-> Bisect(s.order, n, s.denom), denom |-> 2 * s.denom]
                  ELSE s,
                [order |-> <<0>>, denom |-> 2], [e \in 1 .. n |-> e]).order

\* How many chunks, in this order, _lemmas_from_docs reads before the cap of
\* characters is reached; size[i] is what the lemmas of chunk i take.
ChunksRead(order, size, cap) ==
  FoldLeft(LAMBDA got, i :
             IF got.chars >= cap THEN got
             ELSE [chars |-> got.chars + size[i], chunks |-> got.chunks + 1],
           [chars |-> 0, chunks |-> 0], order).chunks

\* The chunks whose lemmas make the vocabulary of an author with n chunks.
SampledChunks(n, size, cap) ==
  LET order == SpreadOrder(n) IN SubSeq(order, 1, ChunksRead(order, size, cap))

\* mutant: the step divides the number of items, and the last one is never reached.
SubsampleShort(n, max) ==
  IF n <= max THEN [i \in 1 .. n |-> i - 1]
  ELSE IF max <= 1 THEN <<0>>
  ELSE [i \in 1 .. max |-> RoundHalfEven((i - 1) * n, max)]

\* _subsample of n items: the indexes it keeps.
Subsample(n, max) ==
  IF n <= max THEN [i \in 1 .. n |-> i - 1]
  ELSE IF max <= 1 THEN <<0>>
  ELSE [i \in 1 .. max |-> RoundHalfEven((i - 1) * (n - 1), max - 1)]

-----------------------------------------------------------------------------
(* compute_distinctive_vocab *)

AtLeastOne(n) == IF n = 0 THEN 1 ELSE n
Tokens(counts) == AtLeastOne(Sum(counts, DOMAIN counts))

\* The odds of term t with the Jeffreys prior of one half: p / (1 - p), as a fraction.
Odds(counts, t) == <<2 * counts[t] + 1, 2 * (Tokens(counts) - counts[t]) + 1>>

\* The odds ratio whose logarithm is the score of t, as a fraction.
OddsRatio(author, others, t) ==
  LET p == Odds(author, t)
      q == Odds(others, t)
  IN <<p[1] * q[2], p[2] * q[1]>>

More(r, s) == r[1] * s[2] > s[1] * r[2]

\* mutant: a term used equally by both counts.
CharacteristicOrEqual(author, others) ==
  {t \in DOMAIN author : /\ author[t] > 0
                         /\ t \notin StopWords
                         /\ ~More(<<1, 1>>, OddsRatio(author, others, t))}

\* The terms with a positive score.
Characteristic(author, others) ==
  {t \in DOMAIN author : /\ author[t] > 0
                         /\ t \notin StopWords
                         /\ More(OddsRatio(author, others, t), <<1, 1>>)}

\* The n best of them, or all: the list without its order.
DistinctiveVocab(author, others, n) ==
  LET ratio(t) == OddsRatio(author, others, t)
      terms == Characteristic(author, others)
      most == IF n < Cardinality(terms) THEN n ELSE Cardinality(terms)
  IN CHOOSE best \in SUBSET terms :
       /\ Cardinality(best) = most
       /\ \A t \in best : \A u \in terms \ best : ~More(ratio(u), ratio(t))
=============================================================================
