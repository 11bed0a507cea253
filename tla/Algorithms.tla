----------------------------- MODULE Algorithms -----------------------------
(***************************************************************************)
(* The pure functions of the pipeline on every input of a bounded set, and *)
(* the three chunking loops beside each other.                             *)
(*                                                                         *)
(* A behaviour takes one job: either the loops cut one text, or the job is *)
(* the argument of a function and the properties say what it returns.      *)
(***************************************************************************)
EXTENDS Chunking, Extraction, Conditioner, FitScore, Builder, Validation

CONSTANT Jobs   \* records with a field kind; "chunking" is the job of the loops

\* What the functions are given.  Two corpora are counted over the same terms, a tag
\* count has a number for each tag, a folder a file, or none, for each name in the
\* manifest, and a passage is not empty.
ASSUME JobAssumption ==
  \A j \in Jobs :
    /\ j.kind = "clean" => j.letters \in Seq(Letters)
    /\ j.kind = "sample" => {j.n, j.cap} \subseteq Nat /\ j.uneven \in Nat \ {0}
    /\ j.kind = "vocabulary" =>
         /\ IsFiniteSet(DOMAIN j.author) /\ j.n \in Nat
         /\ {j.author, j.others} \subseteq [DOMAIN j.author -> Nat]
    /\ j.kind = "prompt" =>
         /\ j.fixed \in Nat /\ j.drift \in [1 .. MaxChunks -> Int]
         /\ j.passages \in Seq(Range(j.passages))
         /\ \A p \in Range(j.passages) :
              p.len \in Nat \ {0} /\ p.sentences \cup p.words \subseteq 1 .. p.len - 1
    /\ j.kind = "score" =>
         /\ j.m \in [zero : BOOLEAN, cosine : Int, asl : Nat, aslProfile : Nat, ttr : Nat,
                     mattr : Nat, pos : Int, hits : Nat]
         /\ j.other \in Int
    /\ j.kind = "style" =>
         /\ j.words \in [Tags -> Nat]
         /\ j.chunks \in Seq(Range(j.chunks)) \ {<<>>}
         /\ Range(j.chunks) \subseteq [words : [Tags -> Nat], punct : Nat]
    /\ j.kind = "passport" =>
         /\ {j.call.fit, j.call.tokens} \subseteq Int
         /\ j.call.id \in IdForms \cup {Absent} /\ j.call.at \in TimeForms \cup {Absent}
         /\ {j.call.url, j.envUrl} \subseteq UrlForms \cup {Absent}
         /\ j.call.sources \in Seq(Range(j.call.sources))
         /\ \A s \in Range(j.call.sources) : s.chunk \in Int
    /\ j.kind = "corpus" =>
         /\ IsFiniteSet(DOMAIN j.folder) /\ Manifest \subseteq DOMAIN j.folder
         /\ Range(j.folder) \subseteq File

\* A job other than the loops leaves these with nothing to cut.
ASSUME EmptyTextAssumption == \E t \in Texts : t.total = 0

VARIABLE job
vars == <<chunkVars, job>>

Init ==
  \/ job = [kind |-> "chunking"] /\ ChunkInit
  \/ /\ job \in Jobs
     /\ text = CHOOSE t \in Texts : t.total = 0
     /\ pos = [l \in Loops |-> 0]
     /\ win = [l \in Loops |-> <<>>]
     /\ over = [l \in Loops |-> TRUE]

Next == job.kind = "chunking" /\ ChunkNext /\ UNCHANGED job

Spec == Init /\ [][Next]_vars

-----------------------------------------------------------------------------
(* Cleaning and sampling. *)

\* Of a text, or of a cleaned one, the words and straight quotes.
Ink(t) == Without(t, Letters \ {"word"})

\* clean_text loses no word between the first start line and the next end line and
\* keeps none from outside; no footer, illustration or curly quote survives, nor
\* three line breaks in a row, wherever the removed blocks stood.
CleanKeepsProse ==
  job.kind = "clean" =>
    LET raw == job.letters
        starts == {i \in DOMAIN raw : raw[i] = "start"}
        from == IF starts = {} THEN 0 ELSE Min(starts)
        ends == {i \in DOMAIN raw : i > from /\ raw[i] = "end"}
        to == IF ends = {} THEN Len(raw) + 1 ELSE Min(ends)
        clean == CleanText(raw)
    IN /\ Ink(clean) = Ink(ReplaceAll(SubSeq(raw, from + 1, to - 1), "curly", "quote"))
       /\ \A i \in DOMAIN clean : clean[i] \notin {"end", "plate", "curly"}
       /\ \A i \in 3 .. Len(clean) : \E j \in i - 2 .. i : clean[j] # "newline"
       /\ clean # <<>> => clean[1] # "newline" /\ clean[Len(clean)] # "newline"

\* When the cap of characters cuts an author's lemmas, the chunks read are still
\* spread over the whole corpus: k of n chunks leave no gap of 2n/k chunks or more,
\* so that no book of that length is missing from the vocabulary (issue #100).
SampleSpread ==
  job.kind = "sample" =>
    LET n == job.n
        read == ToSet(SampledChunks(n, [i \in 0 .. n - 1 |-> 1 + (i % job.uneven)], job.cap))
        k == Cardinality(read)
    IN /\ ToSet(SpreadOrder(n)) = 0 .. n - 1 /\ Len(SpreadOrder(n)) = n
       /\ \A from \in 0 .. n - 1 : \A to \in from .. n - 1 :
            from .. to \cap read = {} => (to - from + 1) * k < 2 * n

\* The centroid is taken over exactly max different chunks, in order, the first and
\* the last among them, and the steps between them differ by one at most.
SubsampleEven ==
  job.kind = "sample" /\ job.n > 0 /\ job.cap > 1 =>
    LET s == Subsample(job.n, job.cap)
        gaps == {s[i + 1] - s[i] : i \in 1 .. Len(s) - 1}
    IN /\ Len(s) = Smaller(job.n, job.cap)
       /\ s[1] = 0 /\ s[Len(s)] = job.n - 1
       /\ gaps # {} => Min(gaps) > 0 /\ Max(gaps) - Min(gaps) <= 1

\* A word is distinctive of one side only: no term is listed both for an author
\* against the others and for the others against the author.  Every listed term is
\* one the author uses; between corpora of one length it is one the author uses
\* more.  With no other corpus at most four terms are left, however rich the text.
VocabularyDistinctive ==
  job.kind = "vocabulary" =>
    LET a == job.author
        o == job.others
        mine == DistinctiveVocab(a, o, job.n)
        theirs == DistinctiveVocab(o, a, job.n)
    IN /\ mine \cap (theirs \cup StopWords) = {}
       /\ \A t \in mine : a[t] > 0
       /\ Tokens(a) = Tokens(o) => \A t \in mine : a[t] > o[t]
       /\ (\A t \in DOMAIN o : o[t] = 0) => Cardinality(mine) <= 4

-----------------------------------------------------------------------------
(* Prompt and score. *)

\* The system prompt keeps its limit unless its fixed part alone breaks it, and the
\* packer's sum is right: when no token is lost or won where the pieces meet, the
\* last loop drops nothing.
PromptBudget ==
  job.kind = "prompt" =>
    LET kept == BuildSystemPrompt(job.fixed, job.passages, job.drift)
        none == [n \in DOMAIN job.drift |-> 0]
    IN /\ kept # <<>> =>
            PromptTokens(job.fixed, kept, Len(kept), job.drift) <= MaxPromptTokens
       /\ BuildSystemPrompt(job.fixed, job.passages, none)
            = PackedPassages(job.fixed, job.passages)

\* Passages are shown in the order of their similarity, all whole but the last,
\* which ends where a sentence or a word does, and it is cut only if it does not
\* fit: one more passage, or one more token of it, is left out for room alone.
PassagesWhole ==
  job.kind = "prompt" =>
    LET kept == PackedPassages(job.fixed, job.passages)
        last == Len(kept)
        cost(n) == PromptTokens(job.fixed, [i \in 1 .. n |-> job.passages[i].len], n,
                                [i \in 1 .. n |-> 0])
    IN /\ last <= Smaller(MaxChunks, Len(job.passages))
       /\ \A i \in 1 .. last - 1 : kept[i] = job.passages[i].len
       /\ last > 0 /\ kept[last] # job.passages[last].len =>
            /\ kept[last] \in job.passages[last].sentences \cup job.passages[last].words
            /\ cost(last) > MaxPromptTokens
       /\ last < Smaller(MaxChunks, Len(job.passages)) => cost(last + 1) > MaxPromptTokens

\* One measure gone wrong, a sentence a hundred times too long or an embedding that
\* points away, moves the score by its weight at most: it cannot drown the others.
\* What comes out is a score that build_passport accepts.
NoMeasureDominates ==
  job.kind = "score" =>
    LET score(m) == ComputeFitScore(m)
        apart(m) == Distance(score(m), score(job.m))
    IN /\ score(job.m) \in 0 .. 100
       /\ apart([job.m EXCEPT !.cosine = job.other]) <= 36
       /\ apart([job.m EXCEPT !.asl = Larger(0, job.other)]) <= 21
       /\ apart([job.m EXCEPT !.ttr = Larger(0, job.other)]) <= 16
       /\ apart([job.m EXCEPT !.hits = Larger(0, job.other)]) <= 16

\* A profile is a mixture of its chunks: no tag has a larger share than in the chunk
\* that uses it most nor a smaller one than in the one that uses it least, where a chunk
\* of punctuation alone counts as 0.  A text has some of the style if it shares a tracked
\* tag with the profile, and all of it only if the shares are the same; so none has all of
\* it where the corpus has untracked words, for the score leaves those of the text out.
StyleMeasured ==
  job.kind = "style" =>
    LET chunk(i) == ChunkDistribution(job.chunks[i])
        profile == ProfileDistribution(job.chunks)
        mine == PosDistribution(job.words)
        s == StylisticScore(job.words, profile)
        atMost(a, b, k) == a.of[k] * Larger(b.total, 1) <= b.of[k] * Larger(a.total, 1)
    IN /\ \A k \in Tags : \E i, j \in DOMAIN job.chunks :
            atMost(chunk(i), profile, k) /\ atMost(profile, chunk(j), k)
       /\ s[1] > 0 <=> \E k \in Tracked : job.words[k] > 0 /\ profile.of[k] > 0
       /\ s[1] = s[2] => /\ profile.of[Other] = 0
                         /\ \A k \in Tracked : atMost(mine, profile, k) /\ atMost(profile, mine, k)

-----------------------------------------------------------------------------
(* Passport and corpus files. *)

\* A generation never fails at build_passport, and what it builds verifies: for what
\* orchestrate passes, with a url that is one, there is a payload and the verifier's
\* schema accepts it.  For all other callers it accepts what was built, but for four forms
\* that the builder does not look at: a version 4 passport_id not spelled with hyphens, a
\* time that RFC 3339 does not allow, a negative chunk index and a url without a scheme.
\* No text of a source is in a payload, and no source is missing.
BuiltConforms ==
  job.kind = "passport" =>
    LET a == job.call
        p == BuildPassport(a, job.envUrl)
    IN /\ AsOrchestrated(a, job.envUrl) => ~Refused(a)
       /\ p # Rejected =>
            /\ \/ a.id = "respelled" \/ a.at = "shortened"
               \/ \E i \in DOMAIN a.sources : a.sources[i].chunk < 0
               \/ p.url \in {"other", "empty"}
               \/ Conforms(p)
            /\ \A i \in DOMAIN p.sources : "raw" \notin DOMAIN p.sources[i].snippet
            /\ Len(p.sources) = Len(a.sources)

\* A dry run without a warning means a corpus that seeds: every file of the manifest
\* loads and gives at least one chunk, and there is text enough.  The two dry runs
\* agree on a folder that holds the manifest's files and no other.
DryRunSound ==
  job.kind = "corpus" =>
    /\ ValidateCorpus(job.folder) = {} =>
         /\ Loads(job.folder)
         /\ \A f \in Manifest : job.folder[f].tokens > 0
         /\ TokensIn(job.folder, Manifest) >= MinTokens
    /\ {f \in DOMAIN job.folder : job.folder[f] # NoFile} = Manifest =>
         (ValidateCorpus(job.folder) = {} <=> RunDry(job.folder) = {})
=============================================================================
