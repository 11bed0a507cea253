-------------------------------- MODULE Seed --------------------------------
(***************************************************************************)
(* scripts/seed_corpus.py: fills authors, documents, chunks, embeddings    *)
(* and style_profiles from the files under corpus/, in five stages that    *)
(* commit apart, and autoria_ai/db.py's backfill_embeddings, its stage 4.  *)
(*                                                                         *)
(* Several runs of the script may overlap, each a process with one         *)
(* connection, and any of them may die between two statements.  The server *)
(* of the module Corpus works on the same tables meanwhile; it appears     *)
(* here by what it does to them.                                           *)
(***************************************************************************)
EXTENDS Naturals, Sequences, FiniteSets

CONSTANTS
  Authors,      \* AUTHOR_MANIFEST: the preloaded slugs
  Custom,       \* slugs that uploads create, and DELETE accepts
  FilesOf,      \* the files of each preloaded author, in manifest order
  Uploads,      \* documents that arrive through the API
  UploadBy,     \* the slug each upload names
  ChunkCount,   \* token windows of each document; 0 if it cleans to nothing
  BatchSize,    \* batch_size of backfill_embeddings
  Runs,         \* processes that may run the script, each once
  Invocations   \* command lines; missing: files not on its disk, or not UTF-8

FilesBy(a) == {FilesOf[a][i] : i \in DOMAIN FilesOf[a]}
Files == UNION {FilesBy(a) : a \in Authors}
AllDocs == Files \cup Uploads

ASSUME AuthorAssumption == Authors \cap Custom = {} /\ Files \cap Uploads = {}
ASSUME DocAssumption ==
  /\ FilesOf \in [Authors -> Seq(Files)]
  /\ \A a, b \in Authors : a # b => FilesBy(a) \cap FilesBy(b) = {}
  /\ UploadBy \in [Uploads -> Authors \cup Custom]
  /\ ChunkCount \in [AllDocs -> Nat]
ASSUME BatchAssumption == BatchSize \in Nat \ {0}
ASSUME RunAssumption ==
  \A i \in Invocations : /\ i.entry \in {"run", "seed"}
                         /\ i.authors \in Seq(Authors) /\ i.authors # <<>>
                         /\ i.embed \in BOOLEAN /\ i.profiles \in BOOLEAN
                         /\ i.missing \subseteq Files
                         /\ i.entry = "seed" => ~i.profiles

VARIABLES
  \* the database, committed
  known,      \* preloaded slugs with a row in authors
  documents,  \* document -> its rows in documents
  chunks,     \* the rows of chunks, as <<document, chunk_index>>
  embedded,   \* those whose embedding is not NULL
  current,    \* author -> documents its current style profile was computed from
  deleted,    \* custom slugs whose author was deleted
  \* a run of the script
  how,        \* its command line
  stage,      \* the statement or transaction it executes next
  slug,       \* index into its authors
  row,        \* index of the row the open transaction writes next
  open,       \* keys of the rows its open transaction has written
  fresh,      \* the files whose is_new flag it has set
  batch       \* the chunks backfill_embeddings has read

db == <<known, documents, chunks, embedded, current, deleted>>
locals == <<how, slug, row, open, fresh, batch>>
vars == <<db, stage, locals>>

ChunksOf(d) == {d} \X (0 .. ChunkCount[d] - 1)
AllChunks == UNION {ChunksOf(d) : d \in AllDocs}

Ended == {"ok", "failed"}
Stages == {"new", "authors", "lemmas", "documents", "chunks", "profile",
           "select", "update"} \cup Ended

TypeOK ==
  /\ known \subseteq Authors
  /\ documents \in [AllDocs -> Nat]
  /\ embedded \subseteq chunks /\ chunks \subseteq AllChunks
  /\ current \in [Authors -> SUBSET AllDocs]
  /\ deleted \subseteq Custom
  /\ how \in [Runs -> Invocations]
  /\ stage \in [Runs -> Stages]
  /\ slug \in [Runs -> Nat \ {0}]
  /\ row \in [Runs -> Nat \ {0}]
  /\ open \in [Runs -> SUBSET (Authors \cup Files)]
  /\ fresh \in [Runs -> SUBSET Files]
  /\ batch \in [Runs -> SUBSET AllChunks]

Init ==
  /\ known = {}
  /\ documents = [d \in AllDocs |-> 0]
  /\ chunks = {} /\ embedded = {}
  /\ current = [a \in Authors |-> {}]
  /\ deleted = {}
  /\ how \in [Runs -> Invocations]
  /\ stage = [r \in Runs |-> "new"]
  /\ slug = [r \in Runs |-> 1]
  /\ row = [r \in Runs |-> 1]
  /\ open = [r \in Runs |-> {}]
  /\ fresh = [r \in Runs |-> {}]
  /\ batch = [r \in Runs |-> {}]

-----------------------------------------------------------------------------
(* Helpers. *)

Slug(r) == how[r].authors[slug[r]]
LastSlug(r) == slug[r] = Len(how[r].authors)
DocsBy(a) == FilesBy(a) \cup {u \in Uploads : UploadBy[u] = a}
Stored(d) == documents[d] > 0

\* The rows one transaction writes, in order: all authors, or one author's files.
Writes(r) == IF stage[r] = "authors" THEN how[r].authors ELSE FilesOf[Slug(r)]
Writing(r) == stage[r] \in {"authors", "documents"}

\* Postgres makes an INSERT wait for another transaction's uncommitted row with
\* the same unique key (slug, content_hash).
Blockers(r) == IF Writing(r) /\ row[r] <= Len(Writes(r))
               THEN {s \in Runs \ {r} : Writes(r)[row[r]] \in open[s]}
               ELSE {}

\* r is on a cycle of waiting transactions.
Deadlocked(r) == \E D \in SUBSET Runs : r \in D /\ D = UNION {Blockers(s) : s \in D}

\* load_documents reads all files of an author before the first row is written.
Loads(r, a) == \A i \in DOMAIN FilesOf[a] : FilesOf[a][i] \notin how[r].missing

\* Where run() goes after the last statement about one author.
AfterAuthor(r) ==
  IF ~LastSlug(r) THEN "documents" ELSE IF how[r].embed THEN "select" ELSE "ok"

Goto(r, s) == stage' = [stage EXCEPT ![r] = s]
NextAuthor(r) == slug' = [slug EXCEPT ![r] = IF LastSlug(r) THEN 1 ELSE @ + 1]

\* An exception or the end of the process closes the connection: rollback, exit 1.
Abort(r) == /\ Goto(r, "failed")
            /\ open' = [open EXCEPT ![r] = {}]
            /\ UNCHANGED <<db, how, slug, row, fresh, batch>>

-----------------------------------------------------------------------------
(* The stages. *)

Start(r) ==
  /\ stage[r] = "new"
  /\ Goto(r, "authors")
  /\ UNCHANGED <<db, locals>>

\* seed_authors: one upsert.
UpsertAuthor(r) ==
  /\ stage[r] = "authors"
  /\ row[r] <= Len(Writes(r))
  /\ Blockers(r) = {}
  /\ open' = [open EXCEPT ![r] = @ \cup {Writes(r)[row[r]]}]
  /\ row' = [row EXCEPT ![r] = @ + 1]
  /\ UNCHANGED <<db, stage, how, slug, fresh, batch>>

\* seed_authors: conn.commit().
CommitAuthors(r) ==
  /\ stage[r] = "authors"
  /\ row[r] > Len(Writes(r))
  /\ known' = known \cup open[r]
  /\ open' = [open EXCEPT ![r] = {}]
  /\ row' = [row EXCEPT ![r] = 1]
  /\ Goto(r, IF how[r].profiles THEN "lemmas" ELSE "documents")
  /\ UNCHANGED <<documents, chunks, embedded, current, deleted, how, slug, fresh, batch>>

\* build_comparison_lemmas reads the files of all authors, the ones left out too.
CompareLemmas(r) ==
  /\ stage[r] = "lemmas"
  /\ \A a \in Authors : Loads(r, a)
  /\ Goto(r, "documents")
  /\ UNCHANGED <<db, locals>>

LoadFails(r) ==
  /\ \/ stage[r] = "lemmas" /\ \E a \in Authors : ~Loads(r, a)
     \/ stage[r] = "documents" /\ row[r] = 1 /\ ~Loads(r, Slug(r))
  /\ Abort(r)

\* mutant: the row is looked up first, and inserted with no unique index to wait for.
InsertDocumentUnguarded(r) ==
  LET f == Writes(r)[row[r]] IN
  /\ stage[r] = "documents"
  /\ row[r] <= Len(Writes(r))
  /\ Loads(r, Slug(r))
  /\ IF Stored(f) THEN UNCHANGED <<open, fresh>>
     ELSE /\ open' = [open EXCEPT ![r] = @ \cup {f}]
          /\ fresh' = [fresh EXCEPT ![r] = @ \cup {f}]
  /\ row' = [row EXCEPT ![r] = @ + 1]
  /\ UNCHANGED <<db, stage, how, slug, batch>>

\* mutant: the connection is in autocommit mode.
InsertDocumentAutocommit(r) ==
  LET f == Writes(r)[row[r]] IN
  /\ stage[r] = "documents"
  /\ row[r] <= Len(Writes(r))
  /\ Loads(r, Slug(r))
  /\ documents' = [documents EXCEPT ![f] = 1]
  /\ fresh' = IF Stored(f) THEN fresh ELSE [fresh EXCEPT ![r] = @ \cup {f}]
  /\ row' = [row EXCEPT ![r] = @ + 1]
  /\ UNCHANGED <<known, chunks, embedded, current, deleted, stage, how, slug, open, batch>>

\* seed_documents: ON CONFLICT (content_hash) DO NOTHING tells new from present.
InsertDocument(r) ==
  LET f == Writes(r)[row[r]] IN
  /\ stage[r] = "documents"
  /\ row[r] <= Len(Writes(r))
  /\ Loads(r, Slug(r))
  /\ Blockers(r) = {}
  /\ IF Stored(f) THEN UNCHANGED <<open, fresh>>
     ELSE /\ open' = [open EXCEPT ![r] = @ \cup {f}]
          /\ fresh' = [fresh EXCEPT ![r] = @ \cup {f}]
  /\ row' = [row EXCEPT ![r] = @ + 1]
  /\ UNCHANGED <<db, stage, how, slug, batch>>

\* run() goes on with the author's chunks, seed() with the next author's documents.
AfterDocuments(r) ==
  IF how[r].entry = "run"
  THEN Goto(r, "chunks") /\ UNCHANGED slug
  ELSE Goto(r, IF LastSlug(r) THEN "chunks" ELSE "documents") /\ NextAuthor(r)

\* mutant: the chunk stage loads the documents again, and their is_new flags are lost.
CommitDocumentsForgets(r) ==
  /\ stage[r] = "documents"
  /\ row[r] > Len(Writes(r))
  /\ documents' = [d \in AllDocs |-> IF d \in open[r] THEN documents[d] + 1 ELSE documents[d]]
  /\ open' = [open EXCEPT ![r] = {}]
  /\ row' = [row EXCEPT ![r] = 1]
  /\ AfterDocuments(r)
  /\ fresh' = [fresh EXCEPT ![r] = {}]
  /\ UNCHANGED <<known, chunks, embedded, current, deleted, how, batch>>

\* seed_documents: conn.commit(), once per author.
CommitDocuments(r) ==
  /\ stage[r] = "documents"
  /\ row[r] > Len(Writes(r))
  /\ documents' = [d \in AllDocs |-> IF d \in open[r] THEN documents[d] + 1 ELSE documents[d]]
  /\ open' = [open EXCEPT ![r] = {}]
  /\ row' = [row EXCEPT ![r] = 1]
  /\ AfterDocuments(r)
  /\ UNCHANGED <<known, chunks, embedded, current, deleted, how, fresh, batch>>

\* seed_chunks as run() calls it: all windows of the new documents, one transaction.
InsertChunks(r) ==
  /\ stage[r] = "chunks"
  /\ how[r].entry = "run"
  /\ chunks' = chunks \cup UNION {ChunksOf(f) : f \in fresh[r]}
  /\ fresh' = [fresh EXCEPT ![r] = {}]
  /\ IF how[r].profiles
     THEN Goto(r, "profile") /\ UNCHANGED slug
     ELSE Goto(r, AfterAuthor(r)) /\ NextAuthor(r)
  /\ UNCHANGED <<known, documents, embedded, current, deleted, how, row, open, batch>>

\* seed_chunks as seed() calls it: every file counts as new, under document id 0,
\* which violates the foreign key as soon as there is a chunk to insert.
InsertOrphanChunks(r) ==
  /\ stage[r] = "chunks"
  /\ how[r].entry = "seed"
  /\ IF \E i \in DOMAIN FilesOf[Slug(r)] : ChunkCount[FilesOf[Slug(r)][i]] > 0
     THEN Abort(r)
     ELSE /\ Goto(r, IF ~LastSlug(r) THEN "chunks" ELSE AfterAuthor(r))
          /\ NextAuthor(r)
          /\ UNCHANGED <<db, how, row, open, fresh, batch>>

\* seed_style_profile, over the files of the manifest.
InsertProfile(r) ==
  /\ stage[r] = "profile"
  /\ current' = [current EXCEPT ![Slug(r)] = FilesBy(Slug(r))]
  /\ Goto(r, AfterAuthor(r))
  /\ NextAuthor(r)
  /\ UNCHANGED <<known, documents, chunks, embedded, deleted, how, row, open, fresh, batch>>

-----------------------------------------------------------------------------
(* backfill_embeddings. *)

\* SELECT ... WHERE embedding IS NULL LIMIT batch_size, in a transaction of its own.
SelectBatch(r) ==
  /\ stage[r] = "select"
  /\ \E b \in SUBSET (chunks \ embedded) :
       /\ Cardinality(b) <= BatchSize
       /\ Cardinality(b) = BatchSize \/ b = chunks \ embedded
       /\ batch' = [batch EXCEPT ![r] = b]
       /\ Goto(r, IF b = {} THEN "ok" ELSE "update")
  /\ UNCHANGED <<db, how, slug, row, open, fresh>>

\* mutant: the transaction of the UPDATEs is never committed.
UpdateBatchLost(r) ==
  /\ stage[r] = "update"
  /\ Goto(r, "select")
  /\ batch' = [batch EXCEPT ![r] = {}]
  /\ UNCHANGED <<db, how, slug, row, open, fresh>>

\* mutant: one round instead of a loop.
UpdateBatchOnce(r) ==
  /\ stage[r] = "update"
  /\ embedded' = embedded \cup (batch[r] \cap chunks)
  /\ Goto(r, "ok")
  /\ batch' = [batch EXCEPT ![r] = {}]
  /\ UNCHANGED <<known, documents, chunks, current, deleted, how, slug, row, open, fresh>>

\* mutant: an upsert, which brings back a row deleted meanwhile.
UpdateBatchUpsert(r) ==
  /\ stage[r] = "update"
  /\ embedded' = embedded \cup batch[r]
  /\ Goto(r, "select")
  /\ batch' = [batch EXCEPT ![r] = {}]
  /\ UNCHANGED <<known, documents, chunks, current, deleted, how, slug, row, open, fresh>>

\* embed_and_persist_chunks: an UPDATE of a row that is gone changes nothing.
UpdateBatch(r) ==
  /\ stage[r] = "update"
  /\ embedded' = embedded \cup (batch[r] \cap chunks)
  /\ Goto(r, "select")
  /\ batch' = [batch EXCEPT ![r] = {}]
  /\ UNCHANGED <<known, documents, chunks, current, deleted, how, slug, row, open, fresh>>

-----------------------------------------------------------------------------
(* Failures. *)

\* Postgres ends a cycle of waiting transactions by failing one of them.
DeadlockAbort(r) == Deadlocked(r) /\ Abort(r)

\* Any exception, or the process is killed.
Interrupt(r) == stage[r] \notin {"new"} \cup Ended /\ Abort(r)

-----------------------------------------------------------------------------
(* The server, by its effect on the tables: see the module Corpus. *)

\* An upload finds or creates its author; the background task inserts the chunks.
ServerUploads(d) ==
  /\ ~Stored(d)
  /\ UploadBy[d] \notin deleted
  /\ UploadBy[d] \in known \/ \A r \in Runs : UploadBy[d] \notin open[r]
  /\ known' = known \cup ({UploadBy[d]} \cap Authors)
  /\ documents' = [documents EXCEPT ![d] = 1]
  /\ chunks' = chunks \cup ChunksOf(d)
  /\ UNCHANGED <<embedded, current, deleted, stage, locals>>

ServerEmbeds(c) ==
  /\ c \in chunks \ embedded
  /\ c[1] \in Uploads
  /\ embedded' = embedded \cup {c}
  /\ UNCHANGED <<known, documents, chunks, current, deleted, stage, locals>>

\* _recompute_style_profile, over all documents of the author.
ServerProfiles(a) ==
  /\ \E d \in DocsBy(a) : Stored(d)
  /\ current' = [current EXCEPT ![a] = {d \in DocsBy(a) : Stored(d)}]
  /\ UNCHANGED <<known, documents, chunks, embedded, deleted, stage, locals>>

\* DELETE of an author that is not preloaded: its documents and chunks go with it.
ServerDeletes(a) ==
  LET gone == {d \in Uploads : UploadBy[d] = a} IN
  /\ a \notin deleted
  /\ \E d \in gone : Stored(d)
  /\ deleted' = deleted \cup {a}
  /\ documents' = [d \in AllDocs |-> IF d \in gone THEN 0 ELSE documents[d]]
  /\ chunks' = chunks \ UNION {ChunksOf(d) : d \in gone}
  /\ embedded' = embedded \ UNION {ChunksOf(d) : d \in gone}
  /\ UNCHANGED <<known, current, stage, locals>>

-----------------------------------------------------------------------------
(* Specifications. *)

\* What a started run does unless it is interrupted.
Proceed(r) ==
  \/ UpsertAuthor(r) \/ CommitAuthors(r) \/ CompareLemmas(r) \/ LoadFails(r)
  \/ InsertDocument(r) \/ CommitDocuments(r)
  \/ InsertChunks(r) \/ InsertOrphanChunks(r) \/ InsertProfile(r)
  \/ SelectBatch(r) \/ UpdateBatch(r)
  \/ DeadlockAbort(r)

Server ==
  \/ \E d \in Uploads : ServerUploads(d)
  \/ \E c \in AllChunks : ServerEmbeds(c)
  \/ \E a \in Authors : ServerProfiles(a)
  \/ \E a \in Custom : ServerDeletes(a)

Next == Server \/ \E r \in Runs : Start(r) \/ Proceed(r) \/ Interrupt(r)

Spec == Init /\ [][Next]_vars

\* A started process is scheduled, and so is each database call it waits for.
FairSpec == Spec /\ \A r \in Runs : WF_vars(Proceed(r))

-----------------------------------------------------------------------------
(* Properties. *)

Chunked(f) == ChunksOf(f) \subseteq chunks
AtRest == \A r \in Runs : stage[r] \in {"new"} \cup Ended

\* Overlapping and repeated runs, interrupted anywhere, never store a file twice
\* (seed_documents: the unique index on content_hash).
OncePerFile == \A f \in Files : documents[f] <= 1

\* An author's files are stored together or not at all, and so are their chunks; a
\* profile, the server's too, covers all of them or none: stages commit per author.
AuthorsWhole ==
  \A a \in Authors :
    LET files == FilesBy(a)
        texts == {f \in files : ChunkCount[f] > 0} IN
    /\ (\A f \in files : Stored(f)) \/ (\A f \in files : ~Stored(f))
    /\ (\A f \in texts : Chunked(f)) \/ (\A f \in texts : ChunksOf(f) \cap chunks = {})
    /\ files \subseteq current[a] \/ files \cap current[a] = {}

\* A stored file without its chunks is the doing of a run that died before it wrote
\* them, or has yet to: no run that ended well leaves a file of its own without.
NoneForgotten ==
  \A f \in Files : Stored(f) /\ ~Chunked(f) =>
    \E r \in Runs : f \in fresh[r] /\ stage[r] # "ok"

-----------------------------------------------------------------------------
(* Why these hold: the invariant their proofs are by induction on. *)

\* What the open transaction of a run holds: rows of the author it is at that nobody
\* has stored.  A run has passed no file that is neither stored nor in its transaction.
OpenOf(r) ==
  /\ slug[r] \in DOMAIN how[r].authors
  /\ ~Writing(r) => open[r] = {} /\ (stage[r] # "failed" => row[r] = 1)
  /\ stage[r] = "authors" => open[r] \subseteq Authors
  /\ stage[r] = "documents" =>
       /\ open[r] \subseteq FilesBy(Slug(r)) \cap fresh[r]
       /\ \A f \in open[r] : ~Stored(f)
       /\ \A i \in DOMAIN FilesOf[Slug(r)] :
            i < row[r] => FilesOf[Slug(r)][i] \in open[r] \/ Stored(FilesOf[Slug(r)][i])

\* A file is in one open transaction at most: the unique index made all others wait.
Exclusive ==
  \A r, s \in Runs :
    r # s /\ stage[r] = "documents" /\ stage[s] = "documents" => open[r] \cap open[s] = {}

\* The files whose chunks a run still owes.  run() pays author by author, for all files
\* of one or for none; the wrapper owes for all its authors until its chunk stage fails.
FreshOf(r) ==
  LET own(i) == FilesBy(how[r].authors[i]) IN
  /\ stage[r] \in {"new", "authors", "lemmas"} => fresh[r] = {}
  /\ how[r].entry = "run" =>
       /\ stage[r] = "documents" => fresh[r] = open[r]
       /\ stage[r] = "chunks" => fresh[r] \in {{}, FilesBy(Slug(r))}
       /\ stage[r] \in {"profile", "select", "update", "ok"} => fresh[r] = {}
  /\ how[r].entry = "seed" =>
       /\ stage[r] # "profile"
       /\ stage[r] = "documents" =>
            \A f \in fresh[r] : \E i \in DOMAIN how[r].authors : f \in own(i)
       /\ stage[r] = "chunks" =>
            \A f \in fresh[r] : ChunkCount[f] > 0 =>
              \E i \in DOMAIN how[r].authors : i >= slug[r] /\ f \in own(i)
       /\ stage[r] \in {"select", "update", "ok"} => \A f \in fresh[r] : ChunkCount[f] = 0

RunsInv == Exclusive /\ \A r \in Runs : OpenOf(r) /\ FreshOf(r)

SeedInv == TypeOK /\ RunsInv /\ OncePerFile /\ AuthorsWhole /\ NoneForgotten

-----------------------------------------------------------------------------
(* Liveness. *)

\* No run waits for ever for another one's rows, or embeds for ever.
RunsFinish == \A r \in Runs : stage[r] # "new" ~> stage[r] \in Ended

\* A backfill that is not interrupted leaves no chunk behind that was there when it
\* began, however many arrive or go meanwhile.
BackfillCovers ==
  \A r \in Runs, c \in AllChunks :
    stage[r] = "select" /\ c \in chunks ~>
      c \in embedded \/ c \notin chunks \/ stage[r] = "failed"

\* seed_chunks (seed_corpus.py:517): "Chunk + insert every document in *docs* that
\* does not have chunks yet", after an interrupted run too.
ExitZeroComplete ==
  \A r \in Runs : stage[r] = "ok" /\ AtRest =>
    \A i \in DOMAIN how[r].authors :
      \A j \in DOMAIN FilesOf[how[r].authors[i]] : Chunked(FilesOf[how[r].authors[i]][j])
=============================================================================
