------------------------------ MODULE MCCorpus ------------------------------
(* Finite instances of Corpus for TLC: model values in the .cfg files, the   *)
(* functions and symmetries that a .cfg cannot write here.                   *)
EXTENDS Corpus, TLC

CONSTANTS d1, d2, d3

\* The second document is long enough for its embedding to stop half-way.
MCChunkCount == [d \in Docs |-> IF d = d1 THEN 1 ELSE 2]
OneChunkEach == [d \in Docs |-> 1]

Symmetry == Permutations(Uuids) \cup Permutations(Tasks)
=============================================================================
