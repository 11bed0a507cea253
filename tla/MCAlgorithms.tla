---------------------------- MODULE MCAlgorithms ----------------------------
(* The bounded inputs of Algorithms for TLC. *)
EXTENDS Algorithms

CONSTANTS f1, f2, extra

MCTexts == {t \in [total : 0 .. 9, size : 1 .. 4, overlap : 0 .. 3] : t.overlap < t.size}

CleanJobs == [kind : {"clean"}, letters : BoundedSeq(Letters, 6)]

SampleJobs == [kind : {"sample"}, n : 0 .. 24, uneven : {1, 3}, cap : 1 .. 24]

Counts == [{"night", "raven", "house", "moor", "gold", "the"} -> 0 .. 1]
          \cup [{"night", "raven", "the"} -> 0 .. 3]
VocabularyJobs ==
  {j \in [kind : {"vocabulary"}, author : Counts, others : Counts, n : {1, 30}] :
     DOMAIN j.author = DOMAIN j.others}

Passage(len, sentences, words) == [len |-> len, sentences |-> sentences, words |-> words]
Passages == {Passage(1, {}, {}), Passage(4, {}, {2}), Passage(6, {3}, {2, 5}), Passage(9, {}, {})}
PromptJobs ==
  [kind : {"prompt"}, fixed : {6, 9, 13, 19, 20, 21}, passages : BoundedSeq(Passages, 4),
   drift : [1 .. 3 -> 0 .. 1]]

Measures ==
  [zero : BOOLEAN, cosine : {-20, 0, 7, 20}, asl : {0, 3, 20}, aslProfile : {0, 4, 10},
   ttr : {0, 10, 20}, mattr : {0, 9}, pos : {0, 11, 20}, hits : {0, 3, 9}]
ScoreJobs == [kind : {"score"}, m : Measures, other : {-20, 20, 400}]

Words == [{"NOUN", "VERB", "OTHER"} -> 0 .. 2]
Chunks == [words : Words, punct : 0 .. 1]
StyleJobs == [kind : {"style"}, words : Words, chunks : BoundedSeq(Chunks, 2) \ {<<>>}]

Raw(x) == [raw |-> x]
Source == [doc : {"d1"}, chunk : {-1, 0}, text : {Raw("passage")}]
Calls ==
  [fit : {-1, 0, 100, 101}, tokens : {-1, 0}, profile : {Absent, Raw("profile")},
   profileHash : {Absent, Raw("profile"), [sha256 |-> "stored"]},
   id : IdForms \cup {Absent}, at : TimeForms \cup {Absent},
   prompt : {Raw("prompt")}, output : {Raw("answer")}, sources : BoundedSeq(Source, 2),
   note : {Absent}, url : UrlForms \cup {Absent}]
PassportJobs == [kind : {"passport"}, call : Calls, envUrl : UrlForms \cup {Absent}]

Files == {NoFile, [form |-> "latin1", tokens |-> 0], [form |-> "empty", tokens |-> 0]}
         \cup [form : {"clean", "sentinel"}, tokens : {1, 4}]
CorpusJobs == [kind : {"corpus"}, folder : [{f1, f2, extra} -> Files]]

MCJobs == CleanJobs \cup SampleJobs \cup VocabularyJobs \cup PromptJobs \cup ScoreJobs
          \cup StyleJobs \cup PassportJobs \cup CorpusJobs
=============================================================================
