----------------------------- MODULE Validation -----------------------------
(***************************************************************************)
(* What the seeding script checks of corpus/ before it writes, and how it  *)
(* reads the files afterwards, for one author.                             *)
(*                                                                         *)
(* A folder maps the name of each file to what is in it: nothing (no such  *)
(* file), bytes that are no UTF-8, a text that cleans to nothing, or a     *)
(* text of so many tokens, with a surviving Gutenberg sentinel or not.     *)
(***************************************************************************)
EXTENDS Sums

CONSTANTS
  Manifest,   \* AUTHOR_MANIFEST[slug]["files"]
  MinTokens   \* MIN_TOKENS_PER_AUTHOR

\* Every author of AUTHOR_MANIFEST has files.
ASSUME TokensAssumption == MinTokens \in Nat \ {0} /\ Manifest # {}

NoFile == [form |-> "none", tokens |-> 0]
File == [form : {"none", "latin1", "empty"}, tokens : {0}]
        \cup [form : {"clean", "sentinel"}, tokens : Nat \ {0}]
Readable(file) == file.form \in {"empty", "clean", "sentinel"}
Whole(file) == file.form \in {"clean", "sentinel"}

TokensIn(folder, files) ==
  Sum([f \in files |-> IF Whole(folder[f]) THEN folder[f].tokens ELSE 0], files)

\* The warnings about single files, common to both checks.
BadFiles(folder, files) ==
  {[about |-> f, form |-> folder[f].form] :
     f \in {g \in files : folder[g].form \in {"latin1", "empty", "sentinel"}}}

\* mutant: a file that does not decode is passed over.
ValidateCorpusLenient(folder) ==
  LET total == TokensIn(folder, Manifest) IN
  {[about |-> f, form |-> "none"] : f \in {g \in Manifest : folder[g] = NoFile}}
  \cup {w \in BadFiles(folder, Manifest) : w.form # "latin1"}
  \cup IF total > 0 /\ total < MinTokens THEN {[about |-> "corpus", form |-> "short"]} ELSE {}

\* validate_corpus.
ValidateCorpus(folder) ==
  LET total == TokensIn(folder, Manifest) IN
  {[about |-> f, form |-> "none"] : f \in {g \in Manifest : folder[g] = NoFile}}
  \cup BadFiles(folder, Manifest)
  \cup IF total > 0 /\ total < MinTokens THEN {[about |-> "corpus", form |-> "short"]} ELSE {}

\* _run_dry of the tests' interface: whatever *.txt files there are.
RunDry(folder) ==
  LET files == {f \in DOMAIN folder : folder[f] # NoFile} IN
  IF files = {} THEN {[about |-> "corpus", form |-> "none"]}
  ELSE BadFiles(folder, files)
       \cup IF TokensIn(folder, files) < MinTokens
            THEN {[about |-> "corpus", form |-> "short"]} ELSE {}

\* load_documents raises for a file that is missing or does not decode.
Loads(folder) == \A f \in Manifest : Readable(folder[f])

=============================================================================
