# AutorIA: TLA+ models and proofs

AutorIA learns the style of an author from uploaded texts ("Style DNA"), generates
text in that style beside an unconditioned answer, and signs an Authorship
Passport for it. This directory models the parts of the program that are hard to
test, checks them with TLC and proves the main results with TLAPS. The models are
written from the code, at the lines PROJECT.json maps.

## 1. Inventory

| Component | Code | State | Operations | Modelled in |
|---|---|---|---|---|
| Corpus service | `backend/app/routes/authors.py`, `db.py` | rows of five tables, `_UMAP_LOCK`, background tasks in memory | upload, recompute, delete, list, read a profile | `Corpus` |
| UMAP projector | `autoria_ai/umap_projector.py` | `umap_coords`, `embedding_umap_2d` of the latest profiles | `recompute_umap` (fetch, fit, two commits) | `Corpus`, `Scatter`, `UmapCli` |
| Schema | `infra/supabase/migrations` | authors, documents, chunks, style_profiles, passports, umap_coords | foreign keys, cascades, unique indexes | `Corpus`, `Seed`, `Generate` |
| Seeding | `scripts/seed_corpus.py` | the same tables, `content_hash` | dry run; five stages, committed apart | `Seed`, `Validation` |
| UMAP command line | `scripts/precompute_umap.py` | none | `recompute_umap` without the lock | `UmapCli` |
| Backfill, retrieval | `autoria_ai/db.py`, `embedder.py` | engine and model singletons, `chunks.embedding` | `backfill_embeddings`, `embed_and_persist_chunks`, `retrieve_top_k` | `Seed`, `Generate` |
| Watsonx client | `backend/app/services/watsonx_client.py` | attempts, lingering threads | `generate` | `Watsonx`, `Exchange` |
| Generation | `routes/generate.py`, `autoria_ai/generator.py` | the handler, the executor, passports table | `POST /generate`, `orchestrate` | `Generate`, `Exchange` |
| Passport | `autoria_ai/passport/*`, `routes/passport.py`, `routes/jwks.py`, `generate_keys.py` | key files, environment, kid, one-hour JWKS caches | generate, deploy, restart, issue, verify, publish | `Passport`, `Builder` |
| Chunking | `extractor/chunker.py` and the loops of `authors.py`, `seed_corpus.py` | none (functions) | token windows | `Chunking` |
| Style extraction | `autoria_ai/extractor/*` | none (functions) | cleaning, sampling, vocabulary, statistics | `Extraction`, `FitScore`; statistics not |
| Conditioner, fit score | `conditioner.py`, `fit_scorer.py` | none (functions) | token budget of the prompt, the score | `Conditioner`, `FitScore` |
| Configuration | `backend/app/config.py`, `main.py`, health and diagnostics routes | environment read at start | none after start | `env` of `Passport`, `configured` of `Watsonx`, a constant of `Corpus` |
| Web client | `frontend/src` | React state, timers, aborts | add an author and poll, generate, delete, show Style DNA, verify | `Client`: generate and its timeout; the rest not |
| Smoke test | `scripts/smoke_demo.py` | none | sequential HTTP calls | no |

How they interact. Routes call Postgres through supabase, one HTTP call per
statement, so there is no transaction between two statements of a route; the
projector and the scripts use psycopg2 and have transactions. Routes hand work to
Starlette background tasks, which run on worker threads once the response is
out. Generation reads the current profile, calls Watsonx twice on threads, signs,
and stores the passport. The client only polls: it learns from `GET /authors` that
a profile exists.

What is hard in each part, and what makes it correct:

* Corpus service: tasks that read, compute for minutes and write meet other
  tasks and deletes. Correct: no row outlives its author; no author shows
  another's documents; accepted documents are processed; nobody waits for ever.
* Projector: a fit describes the whole corpus at the time it was fetched. Correct: all
  positions on the scatter belong to one fit; at rest it is complete and current.
* Seeding: runs overlap, die between two commits, or wait for each other. Correct: a
  file is stored once; an author's files, chunks and profile are stored whole; what
  is left out is the doing of a run that died; runs end.
* Backfill: batches against uploads and deletes. Correct: no chunk that was there when
  it began stays without an embedding.
* Watsonx client: a late answer races a retry. Correct: at most four attempts, one
  result and from the last of them, within a bounded time.
* Generation: either call fails, the author goes meanwhile, the pool is full, the
  client gives up. Correct: each request is answered once; no answer without a passport
  for the very text returned; stored passports were issued.
* Passport: rotation under caches, key precedence, interrupted key generation.
  Correct: what a process issues verifies while it runs with one pair; all verifiers
  agree, on damaged passports too; after a rotation they catch up.
* Pure algorithms: windows tile the text and agree between the three loops; the
  prompt's budget is kept; samples are spread; the score stays in 0..100.
* Web client: late answers and timers. Correct: the state shown belongs to the
  request made last; nobody is shown a timeout for a generation that succeeded (which
  `client_timeout` refutes).

PROJECT.json lists every hazard at its line, with the properties that cover it.

## 2. Plan

Done, in this order:

1. `Corpus`, `Scatter`, with `CorpusProofs` and `FitProofs`.
2. `Seed`: the seeding script, its re-runs and the backfill, beside the server.
3. `Exchange`, `Watsonx`, `Generate`: one request from the browser to Watsonx;
   `Watsonx` and `Generate` both implement `Exchange`, each in its own terms.
4. `Passport`: keys, deployments, issue, verification, caches.
5. `Chunking`, `Extraction`, `Conditioner`, `FitScore`, `Rounding`, `Sums`, `Builder`,
   `Validation`: pure functions, which `Algorithms` puts together.
6. `UmapCli`: the command line's unlocked recompute beside `Corpus`.
7. `PassportProofs`, `WatsonxProofs`, `GenerateProofs`: what their modules' runs check,
   for all instances.
8. `SeedProofs`, `UmapCliProofs`: every invariant of these runs, and with them that the idle
   server's scatter is complete (`ScatterSettles`).
9. `AlgorithmsProofs`: the chunking loops, and nine of the ten properties of pure functions that
   `algorithms` checks.
10. `Client`: the page that waits for `POST /api/generate` and gives up.

Left:

* the polling and the other state of the web client (section 7).

How the modules depend on each other: `Generate` EXTENDS `Watsonx`, so that the two
calls of a request are the two instances of the client's model, and both INSTANCE
`Exchange`. `Seed` repeats the effect of `Corpus` on the tables (four actions marked
"the server") instead of its steps: what matters to the script is what commits
beside it. `Algorithms` EXTENDS the pure modules. `UmapCli` EXTENDS `Corpus`
and takes its steps as the server's. `Client` EXTENDS `Generate` likewise.

## 3. Corpus

One module for the service and the projector, because they share the tables and the
lock. Its variables:

* the tables: `author` (uuid to slug, `Unused` or `Deleted`: a slug may be taken
  again under a new uuid), `owner` (documents), `chunks` and `embedded` (counts per
  document), `profiles` (per author, in `computed_at` order; a row is the
  documents it was computed from and the fit of its `embedding_umap_2d`, with the
  value that was hashed), `coords` (`umap_coords`, per author);
* the server: `loop` (the author whose DELETE occupies the event loop), `req`
  (uploads waiting in `await file.read`), `umapLock`;
* per background task: `pc`, its arguments and its local variables.

Atomicity. Handlers are `async def` but call supabase synchronously, so on the one
event loop (`railway.toml` starts one process) a handler is atomic up to its
awaits: only `upload_author_document` has one. It really yields when the
upload was spooled to disk; the model lets it yield always. `delete_author` never
awaits, but worker threads run between its two statements, so it is two actions.
Background tasks are one action per statement or committed transaction. The
`UPDATE`s of `update_style_profiles` are invisible until the commit, lock their rows
until then, and pick the latest row at their own time (READ COMMITTED). The
cascade of a delete waits for such rows.

Abstractions. A profile is the set of documents it covers and the fit that placed
it; `NoTask` is the placeholder position the extractor writes. Statistics,
comparison corpora and texts are left out. A document has at least one chunk: an
empty file is refused and a non-empty one has at least one token. Passports rows
and the two GET routes are not in this module. Tables start empty rather than
seeded: authors in `Protected` are created by an upload like any other.

| Action | Code |
|---|---|
| `BeginUpload`, `FinishUpload`, `RejectUpload` | `upload_author_document` before and after its await |
| `Recompute` | `recompute_author_style_profile` |
| `BeginDelete`, `FinishDelete`, `DeleteFails` | `delete_author`: coordinates, then the cascade and the recompute, or a 500 |
| `ChunkDocument`, `EmbedChunk` | `_chunk_and_insert`, `_embed_document_chunks` |
| `ReadDocuments`, `InsertProfile` | `_recompute_style_profile` |
| `AcquireLock`, `FetchEmbeddings`, `SaveCoords`, `UpdateProfile`, `CommitProfiles` | `_recompute_umap_safe`, `recompute_umap` |
| `ChunkInsertFails`, `EmbeddingFails`, `ProfileFails`, `UmapFails`, `Crash` | the exceptions each function swallows; a restart |

`Scatter` says what a viewer may rely on: a fit replaces all positions at once and
leaves nobody behind, and an author may lose its position alone. `Corpus` refines it
with `shown` = the fit of each author's current profile (`ScatterSpec`).

`MCCorpus` gives the instances their chunk counts and symmetry.

Definitions marked "mutant", here and in all modules, are alternative bodies, used by
no specification: each is a bug that one of the properties must catch.

## 4. The other modules

### UmapCli

`scripts/precompute_umap.py` beside the corpus service. A run of the script takes one of
`Corpus`'s slots, is recorded in `scripts`, and starts at `fetch`: it is a process of
its own, to which the server's `_UMAP_LOCK` means nothing. `RunCli`, `CliFetch`,
`CliSave`, `UpdateProfile` and `CliCommit` are `run` and `recompute_umap`; `CliDies`
is the script stopped or cut off. All other steps are those of `Corpus`, the
server's, without its failures. `alone` (an auxiliary variable) is the run that nothing has stepped beside since
it started. Tables start empty, or as `seed_corpus.py --with-embeddings
--with-profiles` leaves them, which is when the script is first needed.

`Corpus` lets a fit update its authors in any order. Here the order matters, for two fits
can overlap: `ByAuthorId` is the `ORDER BY d.author_id` of the fetch, through
the dictionary that keeps it.

* `ScriptsSerialize`: overlapping scripts on a corpus that the server leaves alone show one
  fit, because each keeps its rows locked to its one commit.
* `NoCircularWait`: scripts and the server's fits never wait for each other's rows in a
  circle; with rows in any order they would.
* `RerunRepairs`: what overlapping fits do leave behind, one undisturbed run puts right,
  as the project's decision log does by hand, if there is enough for a fit (`EnoughEmbedded`:
  with fewer chunks than UMAP accepts the run leaves all as it is).
* `SettlesUnaided`: without the script, the server does the same (`ScatterSettles` of
  `Corpus`), from its first fit on if the corpus was seeded.

The module ends with the invariant from which its four properties are proved (`CliInv`,
section 6).

With the script beside the server, `OneFit` fails: what `Corpus` promises, it promises for
one server process and no script meanwhile.

### Seed

Several processes run `seed_corpus.py`, each with one connection; any of them may die
between two statements (`Interrupt`), and then its open transaction is rolled back.
Committed tables: `known` (preloaded authors with a row), `documents` (rows per file or
upload, a count, so that storing one twice would show), `chunks` and `embedded`
(sets of document and chunk_index), `current` (what each author's profile covers).
Per run: its command line `how`, `stage`, the author and row it is at, the keys its
`open` transaction has written, the `fresh` files (`is_new`) and the `batch` it read.

| Action | Code |
|---|---|
| `UpsertAuthor`, `CommitAuthors` | `seed_authors`: one transaction, one row lock per upsert |
| `CompareLemmas`, `LoadFails` | `build_comparison_lemmas`, `load_documents`: a missing or undecodable file ends the run |
| `InsertDocument`, `CommitDocuments` | `seed_documents`: an INSERT waits for another transaction's row with its `content_hash` (`Blockers`), then DOES NOTHING |
| `InsertChunks`, `InsertOrphanChunks` | `seed_chunks` as `run()` calls it, and as the wrapper `seed()` does |
| `InsertProfile` | `seed_style_profile` |
| `SelectBatch`, `UpdateBatch` | the two transactions of a round of `backfill_embeddings` |
| `DeadlockAbort` | Postgres fails one transaction of a cycle |
| `ServerUploads`, `ServerEmbeds`, `ServerProfiles`, `ServerDeletes` | what the server commits meanwhile |

### Exchange, Watsonx, Generate

`Exchange` is the abstract promise: whoever asks is answered at most once, properly or
with the one failure, and the answer stays. `Watsonx` implements it with the attempt
whose text is returned as the answer, `Generate` with the HTTP response, whose
proper answers are those in which the passport signs the text returned.

`Watsonx` has per call its `phase`, the `attempt` it makes, the state of the `thread` of
every attempt, so that threads outlive it, the `outcome`, and the seconds `elapsed`.
Time is not a clock: each step adds how long it may have taken. Credentials are read by
each call and fixed for the process (`configured`).

| Action | Code |
|---|---|
| `Begin`, `NotConfigured`, `Retry` | `_require_credentials`; the submit of an attempt, after its delay |
| `ThreadEnds` | `_call_watsonx` returns or raises on its thread, awaited or not |
| `Collect`, `Fails`, `TimesOut` | the three outcomes of `future.result(timeout=...)` |
| `Receive` | `generate_text` to its first await: 404, 503, 500 or the queue of the executor |
| `StartEmbedding`, `EndEmbedding`, `Retrieve` | the prompt's embedding on a worker; `retrieve_top_k`, swallowed failure; `build_system_prompt` |
| `StartBranch`, `Branch`, `ThreadEnd` | the two `asyncio.to_thread` calls of the gather |
| `Unavailable`, `SigningFails`, `Succeed` | the code after the gather, with no await: error, or scores, passport, best-effort insert, response |
| `CreateAuthor`, `NewProfile`, `IndexPassage`, `DeleteAuthor` | the corpus service, by its effect on the tables |

A text is named by the attempt that wrote it, a profile by its number; scores and
wording are left out.

### Client

`generateText` beside the route: `page` is what the page shows for each request. `Ask` sends
it, `Show` takes the answer or the error, `Abort` is the timer of 20 s. The server
does not notice an abort, so all steps of `Generate` go on as before. Whether the timer
has fired is read off `elapsed` of the slower Watsonx call, which leaves out what
embedding, scoring and signing take: the code is later still.

### Passport

A key is named by its pair and a token by the pair that signed it: signatures are
ideal. `priv` and `pub` are the key files, read again for each passport; `env` is the
environment, which a process reads when it starts: the two PEM values, whether the paths are
set, and the kid. The files, the PEM values and the kid are filled in apart, so
they may be of different pairs: `generate_keys.py` writes one file after the other
and may die between them, the values are pasted from the files as they are, the kid is typed
in and may be an earlier month's, the template's of `.env.example`, or missing, and a
`Restart` keeps an environment whose files have been replaced. `SigningKey`,
`RouteKey` and `PublishedJwk` resolve the key as the signer, the verify route and
the JWKS route do, which is not the same way; `Verify` makes the checks of
`verify_passport` in their order, and `Accepts` those that `passport_schema.md` section 8
lists for outside verifiers, both on a token that may have been damaged (`Damages`).

| Action | Code |
|---|---|
| `BeginGenerate`, `WritePublic`, `EndGenerate`, `GenerateDies` | `generate_keys.py`: the private key, the public key, the JWKS file and the kid printed; an end between any two |
| `DeletePrivateKey` | the operator, as its message tells him |
| `Deploy`, `Restart` | a process starts, with an environment newly filled or with the old one |
| `Issue` | `sign_passport` |
| `FetchJwks`, `ExpireJwks` | `GET /.well-known/jwks.json` and the `max-age` of its answer |

### Pure functions

| Module | Code | Abstraction |
|---|---|---|
| `Chunking` | the loops of `chunk_text`, `_chunk_and_insert`, `_chunk_document` | a text is its number of tokens; one action per turn of a loop |
| `Extraction` | `clean_text`, `_spread_order`, `_lemmas_from_docs`, `_subsample`, `compute_distinctive_vocab` | letters of a text are a sentinel, a word, a line break, an illustration or a quote; log-odds compared as exact fractions |
| `Conditioner` | `_fit_chunks_to_token_budget`, `_clip_to_boundary`, `build_system_prompt` | a passage is its tokens and boundaries; `drift` is what joining pieces costs the encoder |
| `FitScore`, `Rounding`, `Sums` | `compute_fit_score`, its five measures, both tag distributions | measures are multiples of 1/20, exact where the code has floats; a profile is the weighted mean over its chunks, as exact fractions |
| `Builder` | `build_passport` and `schemas/passport.json` | a string is raw or a digest; ids, times and URLs by the form they have, told apart where the builder and the schema with its formats (uuid, date-time, uri) differ |
| `Validation` | `validate_corpus`, `_run_dry`, `load_documents` | a file is absent, undecodable, empty, or so many tokens, with a sentinel left or not |

`Algorithms` takes one job per behaviour: the loops on one text, or a function on one
argument, for which its properties say what the function must return. `JobAssumption`
says what an argument is (counts are numbers, a passage is not empty, a folder has an
entry for each name of the manifest), so that the proofs know of the argument what the
callers guarantee and no more.

## 5. Runs

| Run | Specification | Shows |
|---|---|---|
| `corpus_safety` | `Spec`: with failures and restarts | `TypeOK`, `OneFit`, `NoLateRows`, `ScatterSpec` |
| `corpus_settles` | `CliSpec`: the script beside a server that does not fail | `SettlesUnaided`, `RerunRepairs`, `ScriptsSerialize`, `NoCircularWait` |
| `corpus_live` | `FairSpec` | `UploadsProcessed`, `TasksDrain` |
| `corpus_history` | `ReliableSpec` | `HistoryIsPast` is violated |
| `corpus_orphan` | `ReliableSpec` | `NoOrphanCoords` is violated |
| `seed` | `FairSpec`: with interruptions | `TypeOK`, `OncePerFile`, `AuthorsWhole`, `NoneForgotten`, `RunsFinish`, `BackfillCovers` |
| `seed_interrupted` | `Spec` | `ExitZeroComplete` is violated |
| `generate` | `FairSpec`: Watsonx may hang | `AnswersTrue`, `RowsIssued`, `LateTextsIgnored`, `WithinBudget`, `AnswersWithPassport`, `AnswersOnce`, `RequestsAnswered`, `CallsReturn` |
| `client_timeout` | `ClientSpec` | `ClientOutlivesServer` is violated |
| `passport` | `FairSpec` | `IssuedVerifies`, `VerifiersAgree`, `CachesCatchUp` |
| `passport_stale` | `Spec` | `DashboardKeyWins` is violated |
| `algorithms` | `Spec` | `WindowsTile`, `Lockstep` and ten properties of pure functions |

What the properties of `passport` say. `IssuedVerifies` is about a process that was given one
pair and keeps its files (`Settled`), and whatever kid. Where it was given halves of two pairs,
nothing verifies and nothing in the code prevents it (`.env.example:42` says so);
`VerifiersAgree` holds there as well: the route and an outside verifier refuse the same
passports, unless the public key file is replaced under the process (`PublicKept`), when the
cached set may still have the old one.

The types of `Watsonx`, `Generate` and `Passport`, and `FitInv`, are proved (section 6) and need
no run.

Bounds of the `corpus_` runs. Two slugs, one of them protected; two author uuids (three where a
re-created slug must meet a third author's scatter); two documents, one of a single chunk
and one of two, so that embedding can stop half-way; three background tasks, so
that a fit, a competing fit and a delete's recompute coexist; one upload in its
await; `MinEmbedded` 2 for the code's 16, so that the scatter can be on either side
of it. Task slots and ids are used once, which bounds every behaviour: deadlock
is therefore not checked (a run ends when its slots are used up), and being stuck is
what `TasksDrain` excludes. Two tasks suffice for liveness: a task waits for
at most one holder of the lock or of a row. `corpus_live` uses no symmetry.
`corpus_settles` starts from no, one or two seeded authors, of which the protected one has the
longer document, enough for a fit once the other is deleted, and runs the script up to twice;
scripts and tasks share three slots, and the last one is left to a running delete.
The proofs of section 6 need none of these bounds.

Their fairness. Weak fairness of each task and of a running delete: worker threads
and the event loop are scheduled by the operating system. Nothing is assumed of
clients, so no request ever has to come, nor the rest of an upload. Weak
fairness suffices for `_UMAP_LOCK` because tasks are finitely many and each
holder releases it. Starlette's limit of 40 worker threads is not modelled: tasks
only wait for the lock, whose holder has a thread already.

Bounds of the others.

* `seed`: two authors, one with two files and one with one that cleans to nothing; one
  upload by a guest, who may be deleted; two runs with any of four command lines (all
  stages for one author; two authors in either order, once with a file missing; the
  wrapper), so that they can overlap, deadlock, and follow one another after an
  interruption; batches of one, so that a backfill takes several rounds.
* `generate`: one request with two calls, one worker, so that calls queue behind each
  other; one retry, so that a late thread can meet a later attempt; two authors,
  one passage. A time-out is one second and other attempts take none: `WithinBudget` is
  linear in them. Requests share nothing but the worker, and the two calls already
  compete for it.
* `client_timeout`: one request without passages, the delays of the code (15 s; 1, 2 and 4 s)
  and attempts that answer within 8 s.
* `passport`: three pairs, two of them of one month; two starts, one verifier; PEM values or
  paths (116,357 states). A token, a key set and a process are compared in pairs, so two
  starts show every disagreement. `passport_stale` gives a process both.
* `algorithms`: all texts of up to 9 tokens with windows of up to 4; all texts of up to
  6 letters; corpora of up to 24 chunks; counts of up to six terms; up to four
  passages around a budget of 20 tokens; measures on a grid that holds the boundaries;
  every form of every argument of `build_passport` and of the environment's URL; every
  folder of two manifest files and one other; profiles of up to two chunks over two tracked
  tags. Windows, gaps, packing and weights are decided by comparisons
  between two or three neighbours, which these inputs take on either side.

Their fairness. `seed`: weak, for a started process: it is scheduled and its database
calls return; nothing makes a run start, nor the server do anything. `generate`: weak
for steps of the event loop and of a running call, strong for a job that waits
for a worker, because the executor takes the oldest job first; none for the threads
of Watsonx, which may hang for ever. `passport`: verifiers fetch again some time, and
drop a key set when its age is over. Deadlock is not checked: runs, requests and keys
are used up, and the liveness properties exclude being stuck before.

Disagreements with the documents, all reproduced by a run:

* `HistoryIsPast`. Two recomputes of one author overlap; the one that read fewer
  documents inserts last and is "the current profile" until the next recompute, while
  the fuller one is "history" (`db.py:44`).
* `NoOrphanCoords`. Deleting an author is documented to clear its `umap_coords`
  (`api_contract.yaml:104`); a fit that fetched before the delete writes them
  back, and the delete's own recompute skips when fewer than 16 chunks remain.
  Nothing else reads the table, so it is a leftover, not a wrong picture.
* `ExitZeroComplete`. `seed_chunks` is documented to chunk every document "that does not
  have chunks yet" (`seed_corpus.py:517`); it passes over every document that was there
  before, so what a run left unchunked when it died stays so, and later runs exit 0.
* `DashboardKeyWins`. The verify route passes the configured path as an explicit
  argument, which outranks the PEM value of the dashboard, against `keys.py:17`.
* `ClientOutlivesServer`. `api.ts:202` has the client outlive the server: it aborts after
  20 s, which its comment compares with one attempt; two take 24 s, and `WithinBudget`
  allows 4 * 15 + 1 + 2 + 4 = 67 s. The generation then succeeds, its passport is stored,
  and the page shows a timeout.

Met while modelling, without a run of their own:

* `embedding_umap_2d` is documented to be aggregated from the rows of `umap_coords`
  (`erd.md:188`); each fit aggregates what it computed itself, so when the script overlaps
  a fit of the server, the table ends up with one fit and profiles with
  another.
* The tests' wrapper `seed()` gives every file the document id 0, so its chunk stage
  violates the foreign key as soon as there is a chunk (`InsertOrphanChunks`).
* `seed_style_profile` covers the files of the manifest only: run after an upload for
  the same author it makes a profile that leaves the upload out current.
* `style_profiles.hash` is documented as the digest of `json_data` (`0001_init.sql:126`); the
  UMAP recompute patches `json_data` only (`UpdateProfile` leaves `hash`).
* The key set publishes one key: the passports of the pair before are unknown from the
  first deployment of the next pair on. The kid "identifies which public key in the JWKS
  signed this" (`passport_schema.md:108`), but it is the month: after two pairs of one
  month a passport of the first is called altered (`invalid_signature`), where it should
  be of an unknown key. A restart that keeps the earlier month's kid, or a kid left as in the
  template, has the same effect.
* `build_passport` is documented to return a schema v1.0 payload (`builder.py:108`), and checks
  its overrides for that; the URL it takes unchecked, so a `PASSPORT_VERIFIER_URL` without
  a scheme makes every passport a `schema_mismatch`. Version 4 ids and times in other
  spellings, and negative chunk indexes, pass it too, but no caller in the repository gives
  them (the exceptions in `BuiltConforms`).
* The profile divides tag counts by all words, the score by the tracked ones
  (`fit_scorer.py:84`: "the same logic"), so a text scored against itself is below 1 where it
  has untracked words (`StyleMeasured`); in `style_features.md:238-239` both divide by
  the tracked total. The document's CONJ is spaCy's CCONJ, which is not tracked.
* `rag_sources` of a passport lists every passage retrieved, those dropped from the
  prompt for lack of room too (`AnswersTrue` states the inclusion).
* A passport that could not be stored is returned nevertheless: issued passports without
  a row exist, rows without an issued passport do not (`RowsIssued`).
* Without any other corpus the vocabulary is nearly empty (`VocabularyDistinctive`), where
  the warning at `seed_corpus.py:694` expects a collapse to raw frequency.

## 6. Proofs

For all finite or infinite sets of slugs, ids and tasks, under the named assumptions of
`Corpus` (sentinels are distinct from real values, chunk counts are positive):

| Theorem | Statement |
|---|---|
| `CorpusProofs!TypeCorrect` | `Spec => []TypeOK` |
| `CorpusProofs!RowsBelong` | `Spec => []NoLateRows` |
| `FitProofs!FitsComparable` | `Spec => []OneFit` |
| `FitProofs!FitCovers` | `Spec => []FitInv` |
| `FitProofs!ScatterImplemented` | `Spec => ScatterSpec` |

The argument. `OneFit` is not inductive: a commit places the authors its fit has
UPDATEd, and must know that nobody else is placed at an earlier fit. The inductive
invariant is `IInv`:

* `LockInv`: `umapLock` names exactly the task inside `recompute_umap`, so at a
  commit no other fit is in progress;
* `RowInv`: rows belong to live authors, and what a task is about to insert still
  belongs to its author if that one lives (a uuid never comes back to life; its slug
  may, under another uuid);
* `FitInv`: placed authors have embedded chunks; a fit past its fetch includes
  every placed author, because nobody is placed while it holds the lock and embedded
  chunks go only with their author; an author it has UPDATEd still has that
  row as its current one, or a newer one that is a placeholder.

`FitProofs` splits the steps in two: all but a commit keep the rows (`Kept`) and most
keep the fits in progress (`FitsKept`), which together keep `FitInv` (`FitFrame`);
the five steps of a fit have a lemma each. A commit is `Publish` of `Scatter` for
the authors of `Moved`; an inserted profile and a delete are `Unplace`; all other
steps stutter.

For the script beside the service, with any seeded corpus, any number of runs and any finite
set of author ids (they have 128 bits) of which each has its own place in `ORDER BY`:

| Theorem | Statement |
|---|---|
| `UmapCliProofs!CliTypeCorrect` | `CliSpec => []TypeOK` |
| `UmapCliProofs!NeverCircular` | `CliSpec => []NoCircularWait` |
| `UmapCliProofs!ScriptsInSeries` | `CliSpec => []ScriptsSerialize` |
| `UmapCliProofs!RunRepairs` | `CliSpec => []RerunRepairs` |
| `UmapCliProofs!CliInvariant` | `CliSpec => []CliInv` |
| `UmapCliProofs!ServerSettles` | `CliSpec => []SettlesUnaided` |
| `UmapCliProofs!ScatterKept` | `ReliableSpec => []ScatterSettles` |

`LockInv` and `FitInv` of `Corpus` do not survive the script, so `CliInv` builds the argument
anew. TLC checked it on the instance of `corpus_settles` (1,400,187 states) before it was proved.

* `OrderInv`: a fit holds the rows of smaller places than those it has yet to lock. Were all
  fits of a circle waiting, the one that waits for the row of the greatest place would wait
  for a fit that has passed that place and waits for a greater one. That a finite set of authors
  has a greatest place is shown by well-founded induction (`GreatestPlace`).
* `ApartInv`: what is left of `FitInv` without the lock.
* `SerialInv`: while only scripts have run, every fit in progress is of the corpus as it stands
  and the rows it has UPDATEd are the latest (`Covers`), so the commits are in series.
* `AloneInv`: a run with nothing beside it `Covers` from its fetch on, has its own
  coordinates from its save on, and has repaired everything at its end.
* `DocInv`, `SettleInv`: for the server without the script. A stored document has embedded
  chunks or a task that will embed them; whenever the corpus has changed, a fit is `Due`,
  because a task or a delete that changed it will still come to its own; when none is, the fit
  in progress `Covers`, and without one the scatter is `Settled`, or `Untouched` where a
  seeded corpus has met no fit yet. At rest nothing is due, which is `SettlesUnaided`.

`ScatterKept` is the same argument for `Corpus` itself from empty tables, as a safety property:
that the server comes to rest is `TasksDrain`, for TLC.

For any manifest in which each file has one author, any command lines, batches and number of
runs of the seeding script:

| Theorem | Statement |
|---|---|
| `SeedProofs!TypeCorrect` | `Spec => []TypeOK` |
| `SeedProofs!StoredOnce` | `Spec => []OncePerFile` |
| `SeedProofs!CommitsWhole` | `Spec => []AuthorsWhole` |
| `SeedProofs!OwedByUnfinished` | `Spec => []NoneForgotten` |

The inductive invariant is `SeedInv`: the three properties need each other and what the open
transactions hold. `OpenOf`: a run has in its transaction only rows of the author it is at that
nobody has stored, and has passed no file that is in neither place, so that a commit stores
the author whole. `Exclusive`: no file is in two open transactions, because the unique index
made the second INSERT wait. `FreshOf`: the files whose chunks a run still owes, which at the
chunk stage of `run()` are all of its author's or none, so that the chunks, too, are written
whole. It differs for the wrapper `seed()`, which owes for all its authors until its chunk
stage fails.

For every text, window and overlap smaller than the window:

| Theorem | Statement |
|---|---|
| `AlgorithmsProofs!Tiling` | `ChunkSpec` and `Spec` imply `[]WindowsTile` |
| `AlgorithmsProofs!InLockstep` | `ChunkSpec` and `Spec` imply `[]Lockstep` |

The three actions store the same window at the same place (`Stores`), so one invariant
describes a loop by its windows alone: `Chain(l)` says that each starts one step after
the one before and that `pos` is where the next would start. `Same` compares two
loops window by window: a window added to one of them is where its chain says, and the
other's chain says the same. The equal number of windows at the end follows from
`Chain`: the last window, and only the last, reaches the end of the text. The
production values (500 and 50) are one instance. `ChunkSpec` is the loops alone; `Spec` of
`Algorithms` runs the same loops among its jobs.

For every argument that `JobAssumption` admits, whatever the budget, the number of passages,
the tags and the grid of the measures:

| Theorem | Statement |
|---|---|
| `AlgorithmsProofs!ProseKept` | `Spec => []CleanKeepsProse` |
| `AlgorithmsProofs!SamplesSpread` | `Spec => []SampleSpread` |
| `AlgorithmsProofs!Subsampled` | `Spec => []SubsampleEven` |
| `AlgorithmsProofs!VocabularySided` | `Spec => []VocabularyDistinctive` |
| `AlgorithmsProofs!PromptFits` | `Spec => []PromptBudget` |
| `AlgorithmsProofs!PassagesPacked` | `Spec => []PassagesWhole` |
| `AlgorithmsProofs!ScoreBounded` | `Spec => []NoMeasureDominates` |
| `AlgorithmsProofs!PassportsConform` | `Spec => []BuiltConforms` |
| `AlgorithmsProofs!DryRunsSound` | `Spec => []DryRunSound` |

A behaviour keeps its job (`JobKept`), so each theorem is a lemma about a function of its
argument. Four of the functions are recursive: a sum over a finite set (`Sum`), the passes of the
cleaning, the order of the samples and what is read in it, all folds of the community
modules, and the packer of passages (`FitChunks`). Induction theorems
with an operator parameter are of no use to these provers; the proofs go through a set
instead, the numbers (`UpTo`), the finite sets of a size (`BySize`) or the texts (`Along`) of
which the claim holds. So it is shown that the recursive function exists and what a step adds:

* `SumTake`: a sum may be started with any of its elements. The rest of the score and of
  `TokensIn` follows: sums are numbers, they grow with their terms, and they are 0 only if all
  terms are.
* `Packed`: what the packer has taken after i passages, that it fits, and that what it left out
  does not; `PassagesWhole` and the second half of `PromptBudget` (the drop loop drops nothing)
  are read off it. Its first half follows from the drop loop alone: what that loop leaves has
  passed its test.
* `Runs`: what a pass has made of every prefix of a text. A pass that drops letters makes
  nothing of what an earlier one dropped (`WithoutWithout`), and the collapse of blank lines
  drops line breaks alone (`WithoutCollapse`) and never ends with three (`CollapseNoThree`);
  so the words are those of the body, which the two searches cut out (`Body`).
* `SpreadSoFar`: after each pass of the bisection the order holds the integer parts of the
  multiples of n/m, each once, for an m it has grown to. A pass doubles m (`CoversTwice`), and
  where multiples are closer than 1 apart it misses no index, so nothing is left for the
  `extend` of the last line (`WholeOrder`). What the cap lets through is a prefix
  (`ReadPrefix`), and one that ends inside a pass holds what the pass before left (`Spread`):
  with k chunks read, 2m is at least k, and no gap between the multiples of n/m is as long
  as n/m (`NoGap`). `FoldOf` shows that a fold of
  typed steps exists and has their type.
* `BestTerms`: of finitely many terms the n of greatest odds ratio exist, so that the list is
  made of characteristic terms. That a term is characteristic is an inequality of products
  (`RatioIs`) which cannot hold both ways round; against no corpus it says that the term makes a
  quarter of the text, and of such terms there are four at most (`FewLarge`).
* `RoundNear`, `RoundEven`: a quotient rounded half to even is within a half of the quotient,
  so multiples of a quotient are rounded to integers that are its floor or one more apart. Only
  a half rounded at both ends of a step could spoil this, and two multiples in a row are
  halves only if the quotient is whole, when none is.

The assumptions say what callers guarantee: the tags are finitely many and `Other` is none
of them (`ScoreAssumption`), each author of the manifest has a file (`TokensAssumption`), an
argument left out is none of the forms an id, a time or a URL may have (`AbsentAssumption`), the
lengths of a sampled author's chunks vary with a period of one chunk or more (`uneven`, in
`JobAssumption`), and a job without loops has an empty text (`EmptyTextAssumption`).

For every number of calls and any list of delays (`Watsonx`), of requests, authors,
passages and workers (`Generate`):

| Theorem | Statement |
|---|---|
| `WatsonxProofs!TypeCorrect` | `WSpec => []WTypeOK` |
| `WatsonxProofs!LateIgnored` | `WSpec => []LateTextsIgnored` |
| `WatsonxProofs!BudgetKept` | `WSpec => []WithinBudget` |
| `WatsonxProofs!ImplementsExchange` | `WSpec => AnswersOnce` |
| `GenerateProofs!RouteTypeCorrect` | `Spec => []TypeOK` |
| `GenerateProofs!AnswersAreTrue` | `Spec => []AnswersTrue` |
| `GenerateProofs!RowsAreIssued` | `Spec => []RowsIssued` |
| `GenerateProofs!RouteImplementsExchange` | `Spec => AnswersWithPassport` |
| `GenerateProofs!CallsComposed` | `Spec => []LateTextsIgnored /\ []WithinBudget /\ AnswersOnce` |

`CallInv` says what each phase of a call knows of its attempt and that attempt's thread:
a text is the text of the current attempt, an error follows the last attempt or none.
`Submits`, `GivesUp`, `Collects`, `Refuses` and `Threads` keep it, a lemma for each
kind of step, and `Others` carries it to the calls that did not step. `TimeInv` says how much
time has gone by at each phase: the timeouts of the attempts made and the sleeps between
them, which `Slept` adds up recursively (`UpTo` shows that it does). Every step of
`Generate` is a step of `Watsonx` or leaves its variables alone (`CallSteps`), so
`Spec => WSpec` and all results about a call hold of the calls of every request.
Beyond that `AnswersTrue` needs `ReqInv`: what a handler has read by its place, and
how its response relates to its two calls. The calls may not change once they
returned: `Final`. Both refinements map a step of a call or handler to an answer or a
stutter; they are safety, and that an answer comes is `RequestsAnswered` and
`CallsReturn`, for TLC.

For any keys, months, verifiers and number of deployments:

| Theorem | Statement |
|---|---|
| `PassportProofs!TypeCorrect` | `Spec => []TypeOK` |
| `PassportProofs!IssuedVerify` | `OneSource` implies `Spec => []IssuedVerifies` |
| `PassportProofs!Agreement` | `OneSource` implies `Spec => []VerifiersAgree` |

`OneSource`: no process is given both a PEM value and a path. It is needed: the run
`passport_stale` is the instance without it. The inductive invariant has four parts.
`FileInv`: a pair is drawn once, so one that went from the files never returns, and what
`generate_keys.py` is about to write no process has found. `EnvInv`: PEM values come in two.
`TokenInv`, `CacheInv`: what a process signs is of the private PEM value and the key set it
publishes of the public one, whose pairs may differ; with paths they are of the files, and
if these are now the ones it booted with, they have been all along.

Only model-checked:

* liveness (`UploadsProcessed`, `TasksDrain`, `RunsFinish`, `BackfillCovers`, `RequestsAnswered`,
  `CallsReturn`, `CachesCatchUp`), which the provers cannot do, nor anything about ENABLED;
* `StyleMeasured`: its mixture is a product over the chunks, folded.

The violated statements have counterexamples instead of proofs.

## 7. Not modelled

* Two server processes at once: the second one's fits are to the first what the script's
  are (`UmapCli`), but its deletes and uploads interleave with the first one's handlers,
  which are atomic to each other in `Corpus`. `railway.toml` starts one.
* The web client but for `generateText`: polling, late answers of the other components,
  React's state; layout and charts.
* A crash of the server between storing a passport and the response (`generate.py:191`),
  in `Generate`: the row is then of a passport that nobody received.
* A `bool` where `build_passport` wants an `int`, which Python takes for one, and other
  arguments of another type than declared.
* The floating-point statistics of the extractor (sentence lengths, dependency depth,
  MATTR, ratios), UMAP, spaCy, the embedding model and the tokenizer.
* The model singleton of `embedder.py`: two threads may both construct it, which costs
  memory and changes no result.
* Retrieval by similarity: `Retrieve` takes any of the author's passages, at most k.
* HTTP, validation of request bodies, wording of errors and logs; the configuration
  beyond the values named in section 1; the smoke test, which keeps no state.
