----------------------------- MODULE SeedProofs -----------------------------
(***************************************************************************)
(* Proofs about Seed, for any manifest, command lines and runs.            *)
(***************************************************************************)
EXTENDS Seed, TLAPS

-----------------------------------------------------------------------------
(* Authors and their files. *)

LEMMA FilesType ==
  /\ \A a \in Authors : FilesBy(a) \subseteq Files
  /\ \A f \in Files : \E a \in Authors : f \in FilesBy(a)
BY DEF Files

\* A file belongs to one author.
LEMMA OneAuthor ==
  ASSUME NEW a \in Authors, NEW b \in Authors, NEW f \in FilesBy(a), f \in FilesBy(b)
  PROVE  a = b
BY DocAssumption

\* The author a run is at is one of the manifest.
LEMMA SlugType ==
  ASSUME TypeOK, NEW r \in Runs, slug[r] \in DOMAIN how[r].authors
  PROVE  Slug(r) \in Authors
<1>1. how[r] \in Invocations
  BY DEF TypeOK
<1>2. how[r].authors \in Seq(Authors)
  BY <1>1, RunAssumption
<1> QED BY <1>2 DEF Slug

LEMMA ChunkTypes ==
  \A d \in AllDocs : ChunkCount[d] \in Nat /\ ChunksOf(d) \subseteq AllChunks
BY DocAssumption DEF AllChunks

-----------------------------------------------------------------------------
(* The steps of a run leave the others alone. *)

Others(r) ==
  \A s \in Runs \ {r} :
    /\ stage'[s] = stage[s] /\ slug'[s] = slug[s] /\ row'[s] = row[s]
    /\ open'[s] = open[s] /\ fresh'[s] = fresh[s]

Step(r) == Start(r) \/ Proceed(r) \/ Interrupt(r)

LEMMA StepOthers ==
  ASSUME TypeOK, NEW r \in Runs, Step(r)
  PROVE  Others(r) /\ UNCHANGED how
<1> USE DEF TypeOK, Others, Goto, NextAuthor, locals
<1>1. CASE Start(r)
  BY <1>1 DEF Start
<1>2. ASSUME Abort(r) PROVE Others(r) /\ UNCHANGED how
  BY <1>2 DEF Abort
<1>3. CASE Interrupt(r)
  BY <1>2, <1>3 DEF Interrupt
<1>4. CASE UpsertAuthor(r)
  BY <1>4 DEF UpsertAuthor
<1>5. CASE CommitAuthors(r)
  BY <1>5 DEF CommitAuthors
<1>6. CASE CompareLemmas(r)
  BY <1>6 DEF CompareLemmas
<1>7. CASE LoadFails(r)
  BY <1>2, <1>7 DEF LoadFails
<1>8. CASE InsertDocument(r)
  BY <1>8 DEF InsertDocument
<1>9. CASE CommitDocuments(r)
  BY <1>9 DEF CommitDocuments, AfterDocuments
<1>10. CASE InsertChunks(r)
  BY <1>10 DEF InsertChunks
<1>11. CASE InsertOrphanChunks(r)
  BY <1>2, <1>11 DEF InsertOrphanChunks
<1>12. CASE InsertProfile(r)
  BY <1>12 DEF InsertProfile
<1>13. CASE SelectBatch(r)
  BY <1>13 DEF SelectBatch
<1>14. CASE UpdateBatch(r)
  BY <1>14 DEF UpdateBatch
<1>15. CASE DeadlockAbort(r)
  BY <1>2, <1>15 DEF DeadlockAbort
<1> QED
  BY <1>1, <1>3, <1>4, <1>5, <1>6, <1>7, <1>8, <1>9, <1>10, <1>11, <1>12, <1>13,
     <1>14, <1>15 DEF Step, Proceed
-----------------------------------------------------------------------------
(* Type correctness. *)

LEMMA InitType == Init => TypeOK
BY DEF Init, TypeOK, Stages

LEMMA AbortType == ASSUME TypeOK, NEW r \in Runs, Abort(r) PROVE TypeOK'
BY DEF TypeOK, Abort, Goto, Stages, Ended, db

\* What all steps of a run but those that write to the tables leave to show.
LEMMA LocalType ==
  ASSUME TypeOK, NEW r \in Runs, UNCHANGED <<db, how>>,
         NEW s \in Stages, stage' = [stage EXCEPT ![r] = s],
         slug' = slug \/ NextAuthor(r),
         row' \in [Runs -> Nat \ {0}],
         open' \in [Runs -> SUBSET (Authors \cup Files)],
         fresh' \in [Runs -> SUBSET Files],
         batch' \in [Runs -> SUBSET AllChunks]
  PROVE  TypeOK'
<1>1. slug' \in [Runs -> Nat \ {0}]
  BY DEF TypeOK, NextAuthor
<1>2. stage' \in [Runs -> Stages]
  BY DEF TypeOK
<1> QED BY <1>1, <1>2 DEF TypeOK, db

LEMMA StageTypes ==
  /\ {"new", "authors", "lemmas", "documents", "chunks", "profile", "select", "update",
      "ok", "failed"} = Stages
  /\ \A r : AfterAuthor(r) \in Stages
BY DEF Stages, Ended, AfterAuthor

\* The steps of a run that write documents, chunks, embeddings or profiles.
LEMMA WriteType ==
  ASSUME TypeOK, NEW r \in Runs, OpenOf(r),
         \/ CommitAuthors(r) \/ CommitDocuments(r) \/ InsertChunks(r)
         \/ InsertProfile(r) \/ UpdateBatch(r)
  PROVE  TypeOK'
<1> USE DEF TypeOK, Goto, NextAuthor
<1>1. Slug(r) \in Authors
  BY SlugType DEF OpenOf
<1>2. CASE CommitAuthors(r)
  <2>1. known' \subseteq Authors
    BY <1>2 DEF CommitAuthors, OpenOf
  <2>2. row' \in [Runs -> Nat \ {0}] /\ open' \in [Runs -> SUBSET (Authors \cup Files)]
    BY <1>2 DEF CommitAuthors
  <2>3. stage' \in [Runs -> Stages]
    BY <1>2, StageTypes DEF CommitAuthors
  <2> QED BY <1>2, <2>1, <2>2, <2>3 DEF CommitAuthors
<1>3. CASE CommitDocuments(r)
  <2>1. documents' \in [AllDocs -> Nat]
    BY <1>3 DEF CommitDocuments
  <2>2. row' \in [Runs -> Nat \ {0}] /\ open' \in [Runs -> SUBSET (Authors \cup Files)]
    BY <1>3 DEF CommitDocuments
  <2>3. (Goto(r, "chunks") \/ Goto(r, "documents")) /\ (slug' = slug \/ NextAuthor(r))
    BY <1>3 DEF CommitDocuments, AfterDocuments
  <2>4. stage' \in [Runs -> Stages] /\ slug' \in [Runs -> Nat \ {0}]
    BY <2>3, StageTypes
  <2> QED BY <1>3, <2>1, <2>2, <2>4 DEF CommitDocuments
<1>4. CASE InsertChunks(r)
  <2>1. UNION {ChunksOf(f) : f \in fresh[r]} \subseteq AllChunks
    BY ChunkTypes DEF AllDocs
  <2>2. chunks' \subseteq AllChunks /\ embedded' \subseteq chunks'
    BY <1>4, <2>1 DEF InsertChunks
  <2>3. (Goto(r, "profile") \/ Goto(r, AfterAuthor(r))) /\ (slug' = slug \/ NextAuthor(r))
    BY <1>4 DEF InsertChunks
  <2>4. stage' \in [Runs -> Stages] /\ slug' \in [Runs -> Nat \ {0}]
    BY <2>3, StageTypes
  <2>5. fresh' \in [Runs -> SUBSET Files]
    BY <1>4 DEF InsertChunks
  <2> QED BY <1>4, <2>2, <2>4, <2>5 DEF InsertChunks
<1>5. CASE InsertProfile(r)
  <2>1. FilesBy(Slug(r)) \in SUBSET AllDocs
    BY <1>1, FilesType DEF AllDocs
  <2>2. current' \in [Authors -> SUBSET AllDocs]
    BY <1>5, <2>1 DEF InsertProfile
  <2>3. stage' \in [Runs -> Stages] /\ slug' \in [Runs -> Nat \ {0}]
    BY <1>5, StageTypes DEF InsertProfile
  <2> QED BY <1>5, <2>2, <2>3 DEF InsertProfile
<1>6. CASE UpdateBatch(r)
  BY <1>6, StageTypes DEF UpdateBatch
<1> QED BY <1>2, <1>3, <1>4, <1>5, <1>6

LEMMA StepType ==
  ASSUME TypeOK, NEW r \in Runs, OpenOf(r), Step(r)
  PROVE  TypeOK'
<1> USE DEF TypeOK
<1>1. CASE Start(r)
  BY <1>1, StageTypes, LocalType DEF Start, Goto, locals
<1>2. CASE Interrupt(r) \/ LoadFails(r) \/ DeadlockAbort(r)
  BY <1>2, AbortType DEF Interrupt, LoadFails, DeadlockAbort
<1>3. CASE UpsertAuthor(r)
  <2>1. Writes(r)[row[r]] \in Authors
    BY <1>3, RunAssumption DEF UpsertAuthor, Writes
  <2>2. open' \in [Runs -> SUBSET (Authors \cup Files)] /\ row' \in [Runs -> Nat \ {0}]
    BY <1>3, <2>1 DEF UpsertAuthor
  <2> QED BY <1>3, <2>2 DEF UpsertAuthor, db
<1>4. CASE CompareLemmas(r)
  BY <1>4, StageTypes, LocalType DEF CompareLemmas, Goto, locals
<1>5. CASE InsertDocument(r)
  <2>1. Slug(r) \in Authors
    BY SlugType DEF OpenOf
  <2>2. Writes(r)[row[r]] \in Files
    BY <1>5, <2>1, DocAssumption DEF InsertDocument, Writes
  <2> DEFINE f == Writes(r)[row[r]]
  <2>3. /\ \/ open' = open /\ fresh' = fresh
           \/ /\ open' = [open EXCEPT ![r] = @ \cup {f}]
              /\ fresh' = [fresh EXCEPT ![r] = @ \cup {f}]
        /\ row' = [row EXCEPT ![r] = @ + 1]
    BY <1>5 DEF InsertDocument
  <2> HIDE DEF f
  <2>4. /\ open' \in [Runs -> SUBSET (Authors \cup Files)]
        /\ fresh' \in [Runs -> SUBSET Files]
        /\ row' \in [Runs -> Nat \ {0}]
    BY <2>2, <2>3 DEF f
  <2> QED BY <1>5, <2>4 DEF InsertDocument, db
<1>6. CASE InsertOrphanChunks(r)
  <2>1. ASSUME ~Abort(r) PROVE TypeOK'
    BY <1>6, <2>1, StageTypes, LocalType DEF InsertOrphanChunks, Goto
  <2> QED BY <2>1, AbortType
<1>7. CASE SelectBatch(r)
  <2>1. PICK b \in SUBSET chunks :
          /\ batch' = [batch EXCEPT ![r] = b]
          /\ Goto(r, IF b = {} THEN "ok" ELSE "update")
    BY <1>7 DEF SelectBatch
  <2> QED BY <1>7, <2>1, StageTypes, LocalType DEF SelectBatch, Goto
<1> QED
  BY <1>1, <1>2, <1>3, <1>4, <1>5, <1>6, <1>7, WriteType DEF Step, Proceed

\* What the server commits.
LEMMA ServerType == TypeOK /\ Server => TypeOK'
<1> SUFFICES ASSUME TypeOK, Server PROVE TypeOK'
  OBVIOUS
<1> USE DEF TypeOK, locals
<1>1. ASSUME NEW d \in Uploads, ServerUploads(d) PROVE TypeOK'
  BY <1>1, ChunkTypes DEF ServerUploads, AllDocs
<1>2. ASSUME NEW c \in AllChunks, ServerEmbeds(c) PROVE TypeOK'
  BY <1>2 DEF ServerEmbeds
<1>3. ASSUME NEW a \in Authors, ServerProfiles(a) PROVE TypeOK'
  <2>1. DocsBy(a) \subseteq AllDocs
    BY FilesType DEF DocsBy, AllDocs
  <2>2. {d \in DocsBy(a) : Stored(d)} \in SUBSET AllDocs
    BY <2>1
  <2> QED BY <1>3, <2>2 DEF ServerProfiles
<1>4. ASSUME NEW a \in Custom, ServerDeletes(a) PROVE TypeOK'
  BY <1>4 DEF ServerDeletes
<1> QED BY <1>1, <1>2, <1>3, <1>4 DEF Server

-----------------------------------------------------------------------------
(* What a run holds and owes. *)

\* What was stored stays, and no open transaction's file appears meanwhile.
StoredKept(r) ==
  /\ \A f \in Files : Stored(f) => Stored(f)'
  /\ \A s \in Runs \ {r} : stage[s] = "documents" => \A f \in open[s] : ~Stored(f)'

\* It is enough to look at the run that steps.
LEMMA RunsFrame ==
  ASSUME TypeOK, RunsInv, NEW r \in Runs, Others(r), UNCHANGED how, StoredKept(r),
         OpenOf(r)', FreshOf(r)',
         \A s \in Runs \ {r} : stage'[r] = "documents" /\ stage[s] = "documents" =>
           open'[r] \cap open[s] = {}
  PROVE  RunsInv'
<1>1. ASSUME NEW s \in Runs \ {r} PROVE OpenOf(s)' /\ FreshOf(s)'
  <2>1. OpenOf(s) /\ FreshOf(s)
    BY DEF RunsInv
  <2>2. /\ Slug(s)' = Slug(s) /\ Writing(s)' = Writing(s)
        /\ UNCHANGED <<stage[s], slug[s], row[s], open[s], fresh[s], how[s]>>
    BY DEF Others, Slug, Writing
  <2>3. FreshOf(s)'
    BY <2>1, <2>2 DEF FreshOf
  <2>4. ASSUME stage[s] = "documents", NEW i \in DOMAIN FilesOf[Slug(s)], i < row[s],
               NEW f, f = FilesOf[Slug(s)][i]
        PROVE  f \in open[s] \/ Stored(f)'
    <3>1. Slug(s) \in Authors
      BY <2>1, SlugType DEF OpenOf
    <3>2. f \in Files
      BY <2>4, <3>1, FilesType DEF FilesBy
    <3>3. f \in open[s] \/ Stored(f)
      BY <2>1, <2>4 DEF OpenOf
    <3> QED BY <3>2, <3>3 DEF StoredKept
  <2>5. OpenOf(s)'
    BY <2>1, <2>2, <2>4 DEF OpenOf, StoredKept, Stored
  <2> QED BY <2>3, <2>5
<1>2. Exclusive'
  BY DEF Exclusive, RunsInv, Others
<1> QED BY <1>1, <1>2 DEF RunsInv

\* A step that ends or empties a transaction conflicts with nobody.
LEMMA RunsEmpty ==
  ASSUME TypeOK, RunsInv, NEW r \in Runs, Others(r), UNCHANGED <<how, documents>>,
         open'[r] = {}, OpenOf(r)', FreshOf(r)'
  PROVE  RunsInv'
<1>1. StoredKept(r)
  BY DEF StoredKept, RunsInv, OpenOf, Stored
<1> QED BY <1>1, RunsFrame

\* A transaction that has not written anything yet.
LEMMA OpenEmpty ==
  ASSUME TypeOK, NEW r \in Runs, UNCHANGED how, slug'[r] \in DOMAIN how[r].authors,
         open'[r] = {}, row'[r] = 1
  PROVE  OpenOf(r)'
<1>1. how[r].authors \in Seq(Authors)
  BY RunAssumption DEF TypeOK
<1>2. Slug(r)' \in Authors
  BY <1>1 DEF Slug
<1>3. \A i \in DOMAIN FilesOf[Slug(r)'] : ~(i < 1)
  BY <1>2, DocAssumption
<1> QED BY <1>3 DEF OpenOf, Writing

\* Nothing is left of a run that died, but the files it owes.
LEMMA AbortRuns ==
  ASSUME TypeOK, RunsInv, NEW r \in Runs, Others(r), Abort(r)
  PROVE  RunsInv'
<1>1. /\ stage'[r] = "failed" /\ open'[r] = {}
      /\ UNCHANGED <<how, documents, slug, fresh>>
  BY DEF Abort, Goto, TypeOK, db
<1>2. OpenOf(r) /\ how[r] \in Invocations
  BY DEF RunsInv, TypeOK
<1>3. OpenOf(r)'
  BY <1>1, <1>2 DEF OpenOf, Writing
<1>4. FreshOf(r)'
  BY <1>1 DEF FreshOf
<1> QED BY <1>1, <1>3, <1>4, RunsEmpty

\* The author stage, and the comparison corpus.
LEMMA AuthorRuns ==
  ASSUME TypeOK, RunsInv, NEW r \in Runs, Others(r),
         Start(r) \/ UpsertAuthor(r) \/ CommitAuthors(r) \/ CompareLemmas(r)
  PROVE  RunsInv'
<1>1. OpenOf(r) /\ FreshOf(r)
  BY DEF RunsInv
<1>2. how[r].authors \in Seq(Authors) /\ how[r].entry \in {"run", "seed"}
  BY RunAssumption DEF TypeOK
<1>3. CASE Start(r)
  <2>1. /\ stage[r] = "new" /\ stage'[r] = "authors"
        /\ UNCHANGED <<how, documents, slug, row, open, fresh>>
    BY <1>3 DEF Start, Goto, TypeOK, db, locals
  <2>2. open'[r] = {}
    BY <1>1, <2>1 DEF OpenOf, Writing
  <2>3. OpenOf(r)' /\ FreshOf(r)'
    BY <1>1, <2>1, <2>2 DEF OpenOf, FreshOf, Writing
  <2> QED BY <2>1, <2>2, <2>3, RunsEmpty
<1>4. CASE UpsertAuthor(r)
  <2>1. /\ stage[r] = "authors"
        /\ UNCHANGED <<how, documents, slug, stage, fresh>>
        /\ open'[r] = open[r] \cup {Writes(r)[row[r]]}
    BY <1>4 DEF UpsertAuthor, TypeOK, db
  <2>2. Writes(r)[row[r]] \in Authors
    BY <1>2, <1>4 DEF UpsertAuthor, Writes, TypeOK
  <2>3. OpenOf(r)' /\ FreshOf(r)'
    BY <1>1, <2>1, <2>2 DEF OpenOf, FreshOf, Writing
  <2>4. StoredKept(r)
    BY <2>1 DEF StoredKept, RunsInv, OpenOf, Stored
  <2> QED BY <2>1, <2>3, <2>4, RunsFrame
<1>5. CASE CommitAuthors(r)
  <2>1. /\ stage[r] = "authors" /\ stage'[r] \in {"lemmas", "documents"}
        /\ UNCHANGED <<how, documents, slug, fresh>>
        /\ open'[r] = {} /\ row'[r] = 1
    BY <1>5 DEF CommitAuthors, Goto, TypeOK
  <2>2. FreshOf(r)'
    BY <1>1, <2>1 DEF FreshOf
  <2>3. OpenOf(r)'
    BY <1>1, <2>1, OpenEmpty DEF OpenOf
  <2> QED BY <2>1, <2>2, <2>3, RunsEmpty
<1>6. CASE CompareLemmas(r)
  <2>1. /\ stage[r] = "lemmas" /\ stage'[r] = "documents"
        /\ UNCHANGED <<how, documents, slug, row, open, fresh>>
    BY <1>6 DEF CompareLemmas, Goto, TypeOK, db, locals
  <2>2. open'[r] = {} /\ row'[r] = 1
    BY <1>1, <2>1 DEF OpenOf, Writing
  <2>3. FreshOf(r)'
    BY <1>1, <2>1, <2>2 DEF FreshOf
  <2>4. OpenOf(r)'
    BY <1>1, <2>1, <2>2, OpenEmpty DEF OpenOf
  <2> QED BY <2>1, <2>2, <2>3, <2>4, RunsEmpty
<1> QED BY <1>3, <1>4, <1>5, <1>6

\* The document stage writes a file that no other transaction holds.
LEMMA InsertRuns ==
  ASSUME TypeOK, RunsInv, NEW r \in Runs, Others(r), InsertDocument(r)
  PROVE  RunsInv'
<1> DEFINE f == FilesOf[Slug(r)][row[r]]
<1>1. OpenOf(r) /\ FreshOf(r)
  BY DEF RunsInv
<1>2. stage[r] = "documents" /\ UNCHANGED <<how, documents, slug, stage>>
  BY DEF InsertDocument, db
<1>3. /\ row[r] \in DOMAIN FilesOf[Slug(r)]
      /\ f \in FilesBy(Slug(r))
      /\ row'[r] = row[r] + 1
  <2>1. Slug(r) \in Authors
    BY <1>1, SlugType DEF OpenOf
  <2> QED BY <1>2, <2>1, DocAssumption DEF InsertDocument, Writes, FilesBy, TypeOK
<1>4. \/ Stored(f) /\ open'[r] = open[r] /\ fresh'[r] = fresh[r]
      \/ ~Stored(f) /\ open'[r] = open[r] \cup {f} /\ fresh'[r] = fresh[r] \cup {f}
  BY <1>2 DEF InsertDocument, Writes, TypeOK
<1>5. \A s \in Runs \ {r} : f \notin open[s]
  BY <1>2, <1>3 DEF InsertDocument, Blockers, Writing, Writes
<1> HIDE DEF f
<1>6. Slug(r)' = Slug(r) /\ Slug(r) \in Authors
  BY <1>1, <1>2, SlugType DEF OpenOf, Slug
<1>7. OpenOf(r)'
  <2>1. ASSUME NEW i \in DOMAIN FilesOf[Slug(r)], i < row'[r]
        PROVE  FilesOf[Slug(r)][i] \in open'[r] \/ documents[FilesOf[Slug(r)][i]] > 0
    <3>1. i < row[r] \/ i = row[r]
      BY <1>3, <1>6, <2>1, DocAssumption DEF TypeOK
    <3>2. CASE i < row[r]
      BY <1>1, <1>2, <1>4, <3>2 DEF OpenOf, Stored
    <3>3. CASE i = row[r]
      BY <1>4, <3>3 DEF f, Stored
    <3> QED BY <3>1, <3>2, <3>3
  <2>2. open'[r] \subseteq FilesBy(Slug(r)) \cap fresh'[r]
    BY <1>1, <1>2, <1>3, <1>4 DEF OpenOf
  <2>3. \A g \in open'[r] : ~(documents[g] > 0)
    BY <1>1, <1>2, <1>4 DEF OpenOf, Stored
  <2> QED BY <1>1, <1>2, <1>6, <2>1, <2>2, <2>3 DEF OpenOf, Writing, Stored
<1>8. FreshOf(r)'
  <2>1. \E i \in DOMAIN how[r].authors : f \in FilesBy(how[r].authors[i])
    BY <1>1, <1>3 DEF OpenOf, Slug
  <2> QED BY <1>1, <1>2, <1>4, <2>1 DEF FreshOf
<1>9. StoredKept(r)
  BY <1>2 DEF StoredKept, RunsInv, OpenOf, Stored
<1>10. \A s \in Runs \ {r} : stage[s] = "documents" => open'[r] \cap open[s] = {}
  BY <1>2, <1>4, <1>5 DEF RunsInv, Exclusive
<1> QED BY <1>2, <1>7, <1>8, <1>9, <1>10, RunsFrame

\* When a run is through with the files of an author, its transaction has all of them or
\* none, and everything is in it or stored.
LEMMA AllOrNone ==
  ASSUME TypeOK, RunsInv, AuthorsWhole, NEW r \in Runs,
         stage[r] = "documents", row[r] > Len(Writes(r))
  PROVE  /\ open[r] \in {{}, FilesBy(Slug(r))}
         /\ \A f \in FilesBy(Slug(r)) : f \in open[r] \/ Stored(f)
<1>1. OpenOf(r)
  BY DEF RunsInv
<1>2. Slug(r) \in Authors
  BY <1>1, SlugType DEF OpenOf
<1>3. \A i \in DOMAIN FilesOf[Slug(r)] : i < row[r]
  BY <1>2, DocAssumption DEF Writes, TypeOK
<1>4. \A f \in FilesBy(Slug(r)) : f \in open[r] \/ Stored(f)
  BY <1>1, <1>3 DEF OpenOf, FilesBy
<1>5. (\A f \in FilesBy(Slug(r)) : Stored(f)) \/ (\A f \in FilesBy(Slug(r)) : ~Stored(f))
  BY <1>2 DEF AuthorsWhole
<1>6. open[r] \subseteq FilesBy(Slug(r)) /\ \A f \in open[r] : ~Stored(f)
  BY <1>1 DEF OpenOf
<1> QED BY <1>4, <1>5, <1>6

\* The next author on the command line, or the first one again.
LEMMA NextSlug ==
  ASSUME TypeOK, NEW r \in Runs, OpenOf(r), NextAuthor(r)
  PROVE  /\ slug'[r] \in DOMAIN how[r].authors
         /\ ~LastSlug(r) => slug'[r] = slug[r] + 1
         /\ LastSlug(r) => slug'[r] = 1 /\ slug[r] = Len(how[r].authors)
<1>1. how[r].authors \in Seq(Authors) /\ how[r].authors # <<>>
  BY RunAssumption DEF TypeOK
<1>2. slug[r] \in 1 .. Len(how[r].authors)
  BY <1>1 DEF OpenOf
<1>3. slug'[r] = IF LastSlug(r) THEN 1 ELSE slug[r] + 1
  BY DEF NextAuthor, TypeOK
<1> QED BY <1>1, <1>2, <1>3 DEF LastSlug

\* The commit of the document stage.
LEMMA CommitRuns ==
  ASSUME TypeOK, RunsInv, AuthorsWhole, NEW r \in Runs, Others(r), CommitDocuments(r)
  PROVE  RunsInv'
<1>1. OpenOf(r) /\ FreshOf(r)
  BY DEF RunsInv
<1>2. /\ stage[r] = "documents" /\ row[r] > Len(Writes(r))
      /\ open'[r] = {} /\ row'[r] = 1 /\ UNCHANGED <<how, fresh>>
      /\ documents' = [d \in AllDocs |->
                         IF d \in open[r] THEN documents[d] + 1 ELSE documents[d]]
  BY DEF CommitDocuments, TypeOK
<1>3. how[r].entry \in {"run", "seed"} /\ how[r].authors \in Seq(Authors)
  BY RunAssumption DEF TypeOK
<1>4. \/ how[r].entry = "run" /\ stage'[r] = "chunks" /\ slug'[r] = slug[r]
      \/ /\ how[r].entry = "seed" /\ NextAuthor(r)
         /\ \/ stage'[r] = "documents"
            \/ stage'[r] = "chunks" /\ LastSlug(r)
  BY <1>3 DEF CommitDocuments, AfterDocuments, Goto, TypeOK
<1>5. slug'[r] \in DOMAIN how[r].authors
  BY <1>1, <1>4, NextSlug DEF OpenOf
<1>6. OpenOf(r)'
  BY <1>2, <1>5, OpenEmpty
<1>7. FreshOf(r)'
  <2>1. CASE how[r].entry = "run"
    <3>1. stage'[r] = "chunks" /\ slug'[r] = slug[r]
      BY <1>4, <2>1
    <3>2. fresh[r] \in {{}, FilesBy(Slug(r))}
      BY <1>1, <1>2, <2>1, AllOrNone DEF FreshOf
    <3>3. Slug(r)' = Slug(r)
      BY <1>2, <3>1 DEF Slug
    <3> QED BY <1>2, <2>1, <3>1, <3>2, <3>3 DEF FreshOf
  <2>2. CASE how[r].entry = "seed"
    <3>1. \A f \in fresh[r] :
            \E i \in DOMAIN how[r].authors : f \in FilesBy(how[r].authors[i])
      BY <1>1, <1>2, <2>2 DEF FreshOf
    <3>2. CASE stage'[r] = "documents"
      BY <1>2, <2>2, <3>1, <3>2 DEF FreshOf
    <3>3. CASE stage'[r] = "chunks"
      <4>1. slug'[r] = 1
        BY <1>1, <1>4, <2>2, <3>3, NextSlug
      <4>2. \A i \in DOMAIN how[r].authors : i >= 1
        BY <1>3
      <4> QED BY <1>2, <2>2, <3>1, <3>3, <4>1, <4>2 DEF FreshOf
    <3> QED BY <1>4, <2>2, <3>2, <3>3
  <2> QED BY <1>3, <2>1, <2>2
<1>8. StoredKept(r)
  <2>1. \A f \in Files : f \in AllDocs /\ documents[f] \in Nat
    BY DEF AllDocs, TypeOK
  <2>2. ASSUME NEW f \in Files, Stored(f) PROVE Stored(f)'
    BY <1>2, <2>1, <2>2 DEF Stored
  <2>3. ASSUME NEW s \in Runs \ {r}, stage[s] = "documents", NEW f \in open[s]
        PROVE  ~Stored(f)'
    <3>1. ~Stored(f) /\ f \notin open[r]
      BY <1>2, <2>3 DEF RunsInv, OpenOf, Exclusive
    <3>2. f \in Files
      <4>1. OpenOf(s)
        BY DEF RunsInv
      <4>2. Slug(s) \in Authors
        BY <4>1, SlugType DEF OpenOf
      <4> QED BY <2>3, <4>1, <4>2, FilesType DEF OpenOf
    <3> QED BY <1>2, <2>1, <3>1, <3>2 DEF Stored
  <2> QED BY <2>2, <2>3 DEF StoredKept
<1> QED BY <1>2, <1>6, <1>7, <1>8, RunsFrame

\* The stages after the documents have no open transaction, and start the next from row 1.
LEMMA RunsQuiet ==
  ASSUME TypeOK, RunsInv, NEW r \in Runs, Others(r),
         UNCHANGED <<how, documents, open, row>>,
         stage[r] \in {"chunks", "profile", "select", "update"},
         slug' = slug \/ NextAuthor(r),
         FreshOf(r)'
  PROVE  RunsInv'
<1>1. OpenOf(r)
  BY DEF RunsInv
<1>2. open'[r] = {} /\ row'[r] = 1
  BY <1>1 DEF OpenOf, Writing
<1>3. slug'[r] \in DOMAIN how[r].authors
  BY <1>1, NextSlug DEF OpenOf
<1> QED BY <1>2, <1>3, OpenEmpty, RunsEmpty

\* The wrapper goes on only where the files of an author have no chunks.
LEMMA OrphanRuns ==
  ASSUME TypeOK, RunsInv, NEW r \in Runs, Others(r), InsertOrphanChunks(r), ~Abort(r)
  PROVE  RunsInv'
<1>1. OpenOf(r) /\ FreshOf(r)
  BY DEF RunsInv
<1>2. how[r].authors \in Seq(Authors)
  BY RunAssumption DEF TypeOK
<1>3. /\ stage[r] = "chunks" /\ how[r].entry = "seed"
      /\ \A i \in DOMAIN FilesOf[Slug(r)] : ~(ChunkCount[FilesOf[Slug(r)][i]] > 0)
      /\ stage'[r] = (IF ~LastSlug(r) THEN "chunks" ELSE AfterAuthor(r))
      /\ NextAuthor(r)
      /\ UNCHANGED <<how, documents, open, row, fresh>>
  BY DEF InsertOrphanChunks, Goto, TypeOK, db
<1>4. ASSUME NEW f \in FilesBy(how[r].authors[slug[r]]) PROVE ~(ChunkCount[f] > 0)
  BY <1>3 DEF FilesBy, Slug
<1>5. ASSUME NEW f \in fresh[r], ChunkCount[f] > 0
      PROVE  \E i \in DOMAIN how[r].authors :
               i > slug[r] /\ f \in FilesBy(how[r].authors[i])
  <2>1. PICK i \in DOMAIN how[r].authors : i >= slug[r] /\ f \in FilesBy(how[r].authors[i])
    BY <1>1, <1>3, <1>5 DEF FreshOf
  <2>2. i # slug[r]
    BY <1>4, <1>5, <2>1
  <2> QED BY <1>2, <2>1, <2>2 DEF TypeOK
<1>6. CASE ~LastSlug(r)
  <2>1. stage'[r] = "chunks" /\ slug'[r] = slug[r] + 1
    BY <1>1, <1>3, <1>6, NextSlug
  <2>2. \A i \in DOMAIN how[r].authors : i > slug[r] => i >= slug'[r]
    BY <1>2, <2>1 DEF TypeOK
  <2>3. FreshOf(r)'
    BY <1>3, <1>5, <2>1, <2>2 DEF FreshOf
  <2> QED BY <1>3, <2>3, RunsQuiet
<1>7. CASE LastSlug(r)
  <2>1. stage'[r] \in {"select", "ok"}
    BY <1>3, <1>7 DEF AfterAuthor
  <2>2. \A i \in DOMAIN how[r].authors : ~(i > slug[r])
    BY <1>1, <1>2, <1>3, <1>7, NextSlug
  <2>3. ASSUME NEW f \in fresh[r] PROVE ChunkCount[f] = 0
    <3>1. f \in AllDocs
      BY DEF TypeOK, AllDocs
    <3> QED BY <1>5, <2>2, <3>1, ChunkTypes
  <2>4. FreshOf(r)'
    BY <1>3, <2>1, <2>3 DEF FreshOf
  <2> QED BY <1>3, <2>4, RunsQuiet
<1> QED BY <1>6, <1>7

LEMMA WorkRuns ==
  ASSUME TypeOK, RunsInv, NEW r \in Runs, Others(r),
         InsertChunks(r) \/ InsertProfile(r) \/ SelectBatch(r) \/ UpdateBatch(r)
  PROVE  RunsInv'
<1>1. OpenOf(r) /\ FreshOf(r)
  BY DEF RunsInv
<1>2. how[r].entry \in {"run", "seed"}
  BY RunAssumption DEF TypeOK
<1>3. AfterAuthor(r) \in {"documents", "select", "ok"}
  BY DEF AfterAuthor
<1>4. CASE InsertChunks(r)
  <2>1. /\ stage[r] = "chunks" /\ how[r].entry = "run" /\ fresh'[r] = {}
        /\ stage'[r] \in {"profile", "documents", "select", "ok"}
        /\ slug' = slug \/ NextAuthor(r)
        /\ UNCHANGED <<how, documents, open, row>>
    BY <1>3, <1>4 DEF InsertChunks, Goto, TypeOK
  <2>2. open'[r] = {}
    BY <1>1, <2>1 DEF OpenOf, Writing
  <2>3. FreshOf(r)'
    BY <2>1, <2>2 DEF FreshOf
  <2> QED BY <2>1, <2>3, RunsQuiet
<1>5. CASE InsertProfile(r)
  <2>1. /\ stage[r] = "profile" /\ stage'[r] \in {"documents", "select", "ok"}
        /\ NextAuthor(r)
        /\ UNCHANGED <<how, documents, open, row, fresh>>
    BY <1>3, <1>5 DEF InsertProfile, Goto, TypeOK
  <2>2. how[r].entry = "run" /\ fresh'[r] = {} /\ open'[r] = {}
    BY <1>1, <1>2, <2>1 DEF OpenOf, FreshOf, Writing
  <2>3. FreshOf(r)'
    BY <2>1, <2>2 DEF FreshOf
  <2> QED BY <2>1, <2>3, RunsQuiet
<1>6. CASE SelectBatch(r) \/ UpdateBatch(r)
  <2>1. /\ stage[r] \in {"select", "update"} /\ stage'[r] \in {"select", "update", "ok"}
        /\ UNCHANGED <<how, documents, slug, open, row, fresh>>
    BY <1>6 DEF SelectBatch, UpdateBatch, Goto, TypeOK, db
  <2>2. FreshOf(r)'
    BY <1>1, <2>1 DEF FreshOf
  <2> QED BY <2>1, <2>2, RunsQuiet
<1> QED BY <1>4, <1>5, <1>6

LEMMA StepRuns ==
  ASSUME TypeOK, RunsInv, AuthorsWhole, NEW r \in Runs, Step(r)
  PROVE  RunsInv'
<1>1. Others(r)
  BY StepOthers
<1>2. CASE Abort(r)
  BY <1>1, <1>2, AbortRuns
<1>3. CASE ~Abort(r)
  BY <1>1, <1>3, AuthorRuns, InsertRuns, CommitRuns, OrphanRuns, WorkRuns
  DEF Step, Proceed, LoadFails, DeadlockAbort, Interrupt
<1> QED BY <1>2, <1>3

-----------------------------------------------------------------------------
(* The files in the tables. *)

\* The rows of the manifest's files are as they were.
FilesKept ==
  \A f \in Files : /\ documents'[f] = documents[f]
                   /\ \A c \in ChunksOf(f) : c \in chunks' <=> c \in chunks

\* The profile of each author covers all of its files or none.
ProfilesWhole ==
  \A a \in Authors : FilesBy(a) \subseteq current[a] \/ FilesBy(a) \cap current[a] = {}

LEMMA WholeKept ==
  ASSUME AuthorsWhole, FilesKept, ProfilesWhole'
  PROVE  AuthorsWhole'
<1> SUFFICES ASSUME NEW a \in Authors
    PROVE LET files == FilesBy(a)
              texts == {f \in files : ChunkCount[f] > 0} IN
          /\ (\A f \in files : Stored(f)') \/ (\A f \in files : ~Stored(f)')
          /\ (\A f \in texts : Chunked(f)') \/ (\A f \in texts : ChunksOf(f) \cap chunks' = {})
          /\ files \subseteq current'[a] \/ files \cap current'[a] = {}
  BY DEF AuthorsWhole
<1>1. \A f \in FilesBy(a) : f \in Files
  BY FilesType
<1>2. \A f \in FilesBy(a) : /\ Stored(f)' <=> Stored(f)
                            /\ Chunked(f)' <=> Chunked(f)
                            /\ ChunksOf(f) \cap chunks' = ChunksOf(f) \cap chunks
  BY <1>1 DEF FilesKept, Stored, Chunked
<1> QED BY <1>2 DEF AuthorsWhole, ProfilesWhole

LEMMA OnceKept == OncePerFile /\ FilesKept => OncePerFile'
BY DEF OncePerFile, FilesKept

\* The server touches no row of a file, and its profiles see all files of an author or
\* none.
LEMMA ServerTables ==
  ASSUME TypeOK, AuthorsWhole, Server
  PROVE  FilesKept /\ ProfilesWhole' /\ UNCHANGED <<stage, locals>>
<1>1. \A f \in Files : f \in AllDocs /\ f \notin Uploads
  BY AuthorAssumption DEF AllDocs
<1>2. ProfilesWhole
  BY DEF AuthorsWhole, ProfilesWhole
<1>3. ASSUME NEW d \in Uploads, ServerUploads(d)
      PROVE  FilesKept /\ ProfilesWhole' /\ UNCHANGED <<stage, locals>>
  <2>1. FilesKept
    BY <1>1, <1>3 DEF ServerUploads, FilesKept, ChunksOf, TypeOK
  <2> QED BY <1>2, <1>3, <2>1 DEF ServerUploads, ProfilesWhole
<1>4. ASSUME NEW c \in AllChunks, ServerEmbeds(c)
      PROVE  FilesKept /\ ProfilesWhole' /\ UNCHANGED <<stage, locals>>
  BY <1>2, <1>4 DEF ServerEmbeds, FilesKept, ProfilesWhole
<1>5. ASSUME NEW b \in Authors, ServerProfiles(b)
      PROVE  FilesKept /\ ProfilesWhole' /\ UNCHANGED <<stage, locals>>
  <2>1. (\A f \in FilesBy(b) : Stored(f)) \/ (\A f \in FilesBy(b) : ~Stored(f))
    BY DEF AuthorsWhole
  <2>2. FilesBy(b) \subseteq current'[b] \/ FilesBy(b) \cap current'[b] = {}
    BY <1>5, <2>1 DEF ServerProfiles, DocsBy, TypeOK
  <2>3. \A a \in Authors \ {b} : current'[a] = current[a]
    BY <1>5 DEF ServerProfiles, TypeOK
  <2>4. ProfilesWhole'
    BY <1>2, <2>2, <2>3 DEF ProfilesWhole
  <2> QED BY <1>5, <2>4 DEF ServerProfiles, FilesKept
<1>6. ASSUME NEW a \in Custom, ServerDeletes(a)
      PROVE  FilesKept /\ ProfilesWhole' /\ UNCHANGED <<stage, locals>>
  <2>1. FilesKept
    BY <1>1, <1>6 DEF ServerDeletes, FilesKept, ChunksOf, TypeOK
  <2> QED BY <1>2, <1>6, <2>1 DEF ServerDeletes, ProfilesWhole
<1> QED BY <1>3, <1>4, <1>5, <1>6 DEF Server

\* The steps of a run that write no document and no chunk.
LEMMA StepTables ==
  ASSUME TypeOK, AuthorsWhole, NEW r \in Runs, OpenOf(r), Step(r),
         ~CommitDocuments(r), ~InsertChunks(r)
  PROVE  FilesKept /\ ProfilesWhole' /\ fresh[r] \subseteq fresh'[r]
<1>1. ProfilesWhole
  BY DEF AuthorsWhole, ProfilesWhole
<1>2. CASE InsertProfile(r)
  <2>1. Slug(r) \in Authors
    BY SlugType DEF OpenOf
  <2>2. \A a \in Authors : current'[a] = (IF a = Slug(r) THEN FilesBy(a) ELSE current[a])
    BY <1>2, <2>1 DEF InsertProfile, TypeOK
  <2>3. ProfilesWhole'
    BY <1>1, <2>2 DEF ProfilesWhole
  <2> QED BY <1>2, <2>3 DEF InsertProfile, FilesKept
<1>3. CASE Abort(r)
  BY <1>1, <1>3 DEF Abort, FilesKept, ProfilesWhole, db
<1>4. CASE ~InsertProfile(r) /\ ~Abort(r)
  <2>1. UNCHANGED <<documents, chunks, current>> /\ fresh[r] \subseteq fresh'[r]
    <3>1. CASE Start(r) \/ UpsertAuthor(r) \/ CommitAuthors(r) \/ CompareLemmas(r)
      BY <3>1 DEF Start, UpsertAuthor, CommitAuthors, CompareLemmas, db, locals
    <3>2. CASE InsertDocument(r)
      BY <3>2 DEF InsertDocument, db, TypeOK
    <3>3. CASE InsertOrphanChunks(r) \/ SelectBatch(r) \/ UpdateBatch(r)
      BY <1>4, <3>3 DEF InsertOrphanChunks, SelectBatch, UpdateBatch, db
    <3> QED
      BY <1>4, <3>1, <3>2, <3>3 DEF Step, Proceed, LoadFails, DeadlockAbort, Interrupt
  <2> QED BY <1>1, <2>1 DEF FilesKept, ProfilesWhole
<1> QED BY <1>2, <1>3, <1>4

\* A commit of the document stage stores all files of one author, once each, or nothing.
LEMMA CommitFiles ==
  ASSUME TypeOK, RunsInv, OncePerFile, AuthorsWhole, NEW r \in Runs, CommitDocuments(r)
  PROVE  /\ OncePerFile' /\ AuthorsWhole'
         /\ \A f \in Files : Stored(f)' => Stored(f) \/ f \in fresh'[r]
<1>1. OpenOf(r)
  BY DEF RunsInv
<1>2. Slug(r) \in Authors
  BY <1>1, SlugType DEF OpenOf
<1>3. /\ stage[r] = "documents" /\ row[r] > Len(Writes(r))
      /\ documents' = [d \in AllDocs |->
                         IF d \in open[r] THEN documents[d] + 1 ELSE documents[d]]
      /\ UNCHANGED <<chunks, current, fresh>>
  BY DEF CommitDocuments
<1>4. \A f \in Files : f \in AllDocs /\ documents[f] \in Nat
  BY DEF TypeOK, AllDocs
<1>5. /\ open[r] \in {{}, FilesBy(Slug(r))}
      /\ open[r] \subseteq fresh[r]
      /\ \A f \in open[r] : ~Stored(f)
      /\ \A f \in FilesBy(Slug(r)) : f \in open[r] \/ Stored(f)
  BY <1>1, <1>3, AllOrNone DEF OpenOf
<1>6. \A f \in Files : documents'[f] = (IF f \in open[r] THEN documents[f] + 1 ELSE documents[f])
  BY <1>3, <1>4
<1>7. OncePerFile'
  BY <1>4, <1>5, <1>6 DEF OncePerFile, Stored
<1>8. ASSUME NEW f \in Files PROVE Stored(f)' <=> Stored(f) \/ f \in open[r]
  BY <1>4, <1>6 DEF Stored
<1>9. ASSUME NEW a \in Authors
      PROVE  (\A f \in FilesBy(a) : Stored(f)') \/ (\A f \in FilesBy(a) : ~Stored(f)')
  <2>1. CASE a = Slug(r)
    BY <1>2, <1>5, <1>8, <2>1, FilesType
  <2>2. CASE a # Slug(r)
    <3>1. \A f \in FilesBy(a) : f \in Files /\ f \notin open[r]
      BY <1>2, <1>5, <2>2, OneAuthor, FilesType
    <3> QED BY <1>8, <3>1 DEF AuthorsWhole
  <2> QED BY <2>1, <2>2
<1>10. AuthorsWhole'
  <2>1. \A f : Chunked(f)' <=> Chunked(f)
    BY <1>3 DEF Chunked
  <2> QED BY <1>3, <1>9, <2>1 DEF AuthorsWhole, Stored
<1> QED BY <1>3, <1>5, <1>7, <1>8, <1>10

\* The chunk stage of run() chunks all new files of one author, or has none.
LEMMA ChunkFiles ==
  ASSUME TypeOK, RunsInv, OncePerFile, AuthorsWhole, NEW r \in Runs, InsertChunks(r)
  PROVE  /\ OncePerFile' /\ AuthorsWhole'
         /\ \A f \in Files : Stored(f)' <=> Stored(f)
         /\ \A f \in Files : Chunked(f) \/ f \in fresh[r] => Chunked(f)'
<1>1. OpenOf(r) /\ FreshOf(r)
  BY DEF RunsInv
<1>2. Slug(r) \in Authors
  BY <1>1, SlugType DEF OpenOf
<1>3. /\ fresh[r] \in {{}, FilesBy(Slug(r))}
      /\ chunks' = chunks \cup UNION {ChunksOf(f) : f \in fresh[r]}
      /\ UNCHANGED <<documents, current>>
  BY <1>1 DEF InsertChunks, FreshOf
<1>4. ASSUME NEW f, f \in fresh[r] PROVE Chunked(f)'
  BY <1>3, <1>4 DEF Chunked
<1>5. ASSUME NEW f, f \notin fresh[r]
      PROVE  ChunksOf(f) \cap chunks' = ChunksOf(f) \cap chunks
  BY <1>3, <1>5 DEF ChunksOf
<1>6. ASSUME NEW f \in Files, Chunked(f) PROVE Chunked(f)'
  BY <1>3, <1>6 DEF Chunked
<1>7. OncePerFile' /\ \A f \in Files : Stored(f)' <=> Stored(f)
  BY <1>3 DEF OncePerFile, Stored
<1>8. ASSUME NEW a \in Authors
      PROVE  LET texts == {f \in FilesBy(a) : ChunkCount[f] > 0}
             IN  (\A f \in texts : Chunked(f)') \/ (\A f \in texts : ChunksOf(f) \cap chunks' = {})
  <2> DEFINE texts == {f \in FilesBy(a) : ChunkCount[f] > 0}
  <2>1. (\A f \in texts : Chunked(f)) \/ (\A f \in texts : ChunksOf(f) \cap chunks = {})
    BY DEF AuthorsWhole
  <2>2. \A f \in texts : f \in Files
    BY FilesType
  <2>3. CASE fresh[r] = FilesBy(Slug(r)) /\ a = Slug(r)
    BY <1>4, <2>3
  <2>4. CASE fresh[r] = {} \/ a # Slug(r)
    <3>1. \A f \in texts : f \notin fresh[r]
      BY <1>2, <1>3, <2>4, OneAuthor
    <3> QED BY <1>5, <1>6, <2>1, <2>2, <3>1
  <2> QED BY <1>3, <2>3, <2>4
<1>9. AuthorsWhole'
  BY <1>3, <1>8 DEF AuthorsWhole, Stored
<1> QED BY <1>4, <1>6, <1>7, <1>9

\* Steps that forget no file, unless they have chunked it.
LEMMA ForgottenFrame ==
  ASSUME TypeOK, RunsInv', NoneForgotten, NEW r \in Runs, Others(r), UNCHANGED how,
         \A f \in Files : Stored(f)' => Stored(f) \/ (f \in fresh'[r] /\ stage'[r] # "ok"),
         \A f \in Files : Chunked(f) \/ (f \in fresh[r] /\ f \notin fresh'[r]) => Chunked(f)'
  PROVE  NoneForgotten'
<1> SUFFICES ASSUME NEW f \in Files, Stored(f)', ~Chunked(f)'
             PROVE  \E q \in Runs : f \in fresh'[q] /\ stage'[q] # "ok"
  BY DEF NoneForgotten
<1>1. CASE ~Stored(f)
  BY <1>1
<1>2. CASE Stored(f)
  <2>1. PICK q \in Runs : f \in fresh[q] /\ stage[q] # "ok"
    BY <1>2 DEF NoneForgotten
  <2>2. CASE q # r
    BY <2>1, <2>2 DEF Others
  <2>3. CASE q = r
    <3>1. f \in fresh'[r]
      BY <2>1, <2>3
    <3>2. ASSUME stage'[r] = "ok" PROVE FALSE
      <4>1. how[r].entry \in {"run", "seed"}
        BY RunAssumption DEF TypeOK
      <4>2. ChunkCount[f] = 0
        BY <3>1, <3>2, <4>1 DEF RunsInv, FreshOf
      <4>3. ChunksOf(f) = {}
        BY <4>2 DEF ChunksOf
      <4> QED BY <4>3 DEF Chunked
    <3> QED BY <3>1, <3>2
  <2> QED BY <2>2, <2>3
<1> QED BY <1>1, <1>2

-----------------------------------------------------------------------------
(* The invariant. *)

LEMMA InitSeed == Init => SeedInv
<1> SUFFICES ASSUME Init PROVE SeedInv
  OBVIOUS
<1>1. TypeOK
  BY InitType
<1>2. ASSUME NEW r \in Runs PROVE OpenOf(r) /\ FreshOf(r)
  <2>1. how[r].authors \in Seq(Authors) /\ how[r].authors # <<>>
    BY <1>1, RunAssumption DEF TypeOK
  <2>2. 1 \in DOMAIN how[r].authors
    BY <2>1
  <2> QED BY <2>2 DEF Init, OpenOf, FreshOf, Writing
<1>3. Exclusive
  BY DEF Init, Exclusive
<1>4. \A f \in Files : documents[f] = 0
  BY DEF Init, AllDocs
<1>5. OncePerFile /\ NoneForgotten
  BY <1>4 DEF OncePerFile, NoneForgotten, Stored
<1>6. AuthorsWhole
  BY <1>4, FilesType DEF Init, AuthorsWhole, Stored
<1> QED BY <1>1, <1>2, <1>3, <1>5, <1>6 DEF SeedInv, RunsInv

LEMMA StepSeed == ASSUME SeedInv, NEW r \in Runs, Step(r) PROVE SeedInv'
<1> USE DEF SeedInv
<1>1. OpenOf(r)
  BY DEF RunsInv
<1>2. TypeOK' /\ RunsInv' /\ Others(r) /\ UNCHANGED how
  BY <1>1, StepType, StepRuns, StepOthers
<1>3. CASE CommitDocuments(r)
  <2>1. OncePerFile' /\ AuthorsWhole'
        /\ \A f \in Files : Stored(f)' => Stored(f) \/ f \in fresh'[r]
    BY <1>3, CommitFiles
  <2>2. stage'[r] # "ok" /\ fresh' = fresh /\ chunks' = chunks
    BY <1>3 DEF CommitDocuments, AfterDocuments, Goto, TypeOK
  <2>3. NoneForgotten'
    BY <1>2, <2>1, <2>2, ForgottenFrame DEF Chunked
  <2> QED BY <1>2, <2>1, <2>3
<1>4. CASE InsertChunks(r)
  <2>1. /\ OncePerFile' /\ AuthorsWhole'
        /\ \A f \in Files : Stored(f)' <=> Stored(f)
        /\ \A f \in Files : Chunked(f) \/ f \in fresh[r] => Chunked(f)'
    BY <1>4, ChunkFiles
  <2>2. NoneForgotten'
    BY <1>2, <2>1, ForgottenFrame
  <2> QED BY <1>2, <2>1, <2>2
<1>5. CASE ~CommitDocuments(r) /\ ~InsertChunks(r)
  <2>1. FilesKept /\ ProfilesWhole' /\ fresh[r] \subseteq fresh'[r]
    BY <1>1, <1>5, StepTables
  <2>2. OncePerFile' /\ AuthorsWhole'
    BY <2>1, OnceKept, WholeKept
  <2>3. NoneForgotten'
    <3>1. \A f \in Files : (Stored(f)' => Stored(f)) /\ (Chunked(f) => Chunked(f)')
      BY <2>1 DEF FilesKept, Stored, Chunked
    <3> QED BY <1>2, <2>1, <3>1, ForgottenFrame
  <2> QED BY <1>2, <2>2, <2>3
<1> QED BY <1>3, <1>4, <1>5

LEMMA ServerSeed == SeedInv /\ Server => SeedInv'
<1> SUFFICES ASSUME SeedInv, Server PROVE SeedInv'
  OBVIOUS
<1> USE DEF SeedInv
<1>1. TypeOK'
  BY ServerType
<1>2. FilesKept /\ ProfilesWhole' /\ UNCHANGED <<stage, locals>>
  BY ServerTables
<1>3. OncePerFile' /\ AuthorsWhole'
  BY <1>2, OnceKept, WholeKept
<1>4. NoneForgotten'
  BY <1>2 DEF NoneForgotten, FilesKept, Stored, Chunked, locals
<1>5. RunsInv'
  <2>1. ASSUME NEW r \in Runs PROVE OpenOf(r)' /\ FreshOf(r)'
    <3>1. OpenOf(r) /\ FreshOf(r)
      BY DEF RunsInv
    <3>2. FreshOf(r)'
      BY <1>2, <3>1 DEF FreshOf, locals, Slug
    <3>3. \A f \in FilesBy(Slug(r)) : documents'[f] = documents[f]
      BY <1>2, <3>1, SlugType, FilesType DEF FilesKept, OpenOf
    <3>4. OpenOf(r)'
      BY <1>2, <3>1, <3>3 DEF OpenOf, Writing, Slug, Stored, FilesBy, locals
    <3> QED BY <3>2, <3>4
  <2>2. Exclusive'
    BY <1>2 DEF RunsInv, Exclusive, locals
  <2> QED BY <2>1, <2>2 DEF RunsInv
<1> QED BY <1>1, <1>3, <1>4, <1>5

LEMMA NextSeed == SeedInv /\ [Next]_vars => SeedInv'
<1> SUFFICES ASSUME SeedInv, [Next]_vars PROVE SeedInv'
  OBVIOUS
<1>1. CASE UNCHANGED vars
  BY <1>1 DEF SeedInv, vars, db, locals, TypeOK, RunsInv, Exclusive, OpenOf, FreshOf, Writing,
    Slug, Stored, OncePerFile, AuthorsWhole, NoneForgotten, Chunked
<1>2. CASE Server
  BY <1>2, ServerSeed
<1>3. CASE \E r \in Runs : Step(r)
  BY <1>3, StepSeed
<1> QED BY <1>1, <1>2, <1>3 DEF Next, Step

LEMMA SeedInvariant == Spec => []SeedInv
BY InitSeed, NextSeed, PTL DEF Spec

\* The rows that overlapping and dying runs and the server leave in the tables are of
\* their types: in particular every embedding is that of a chunk that is still there.
THEOREM TypeCorrect == Spec => []TypeOK
<1>1. SeedInv => TypeOK
  BY DEF SeedInv
<1> QED BY <1>1, SeedInvariant, PTL

\* However many runs of the script overlap, in whatever order of authors, and wherever
\* they die, each file of the manifest is stored once at most.
THEOREM StoredOnce == Spec => []OncePerFile
<1>1. SeedInv => OncePerFile
  BY DEF SeedInv
<1> QED BY <1>1, SeedInvariant, PTL

\* The stages commit author by author: no author is ever seen with part of its files, with
\* the chunks of part of them, or with a profile of part of them.
THEOREM CommitsWhole == Spec => []AuthorsWhole
<1>1. SeedInv => AuthorsWhole
  BY DEF SeedInv
<1> QED BY <1>1, SeedInvariant, PTL

\* Where a stored file has no chunks, some run owes them: one that died or one that has
\* not come to them yet.
THEOREM OwedByUnfinished == Spec => []NoneForgotten
<1>1. SeedInv => NoneForgotten
  BY DEF SeedInv
<1> QED BY <1>1, SeedInvariant, PTL
=============================================================================
