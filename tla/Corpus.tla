------------------------------- MODULE Corpus -------------------------------
(***************************************************************************)
(* The corpus service of backend/app/routes/authors.py over its Postgres   *)
(* tables: authors come into being by uploading to a new slug and go by    *)
(* DELETE; an accepted document is chunked, embedded, profiled and placed  *)
(* on the global UMAP scatter by a background task.                        *)
(*                                                                         *)
(* Two kinds of process touch the database.  Request handlers are async    *)
(* functions that call supabase synchronously, so on the one event loop a  *)
(* handler is atomic except at its awaits.  Background tasks are plain     *)
(* functions, which Starlette runs on worker threads after the response:   *)
(* they interleave with the handlers and each other at every database call.*)
(* They live in memory only, so a restart loses them.                      *)
(***************************************************************************)
EXTENDS Naturals, Sequences, FiniteSets, Functions

CONSTANTS
  Slugs,          \* URL-facing author identifiers
  Protected,      \* PROTECTED_AUTHOR_SLUGS: the slugs DELETE refuses
  Uuids,          \* primary keys of public.authors, one per incarnation of a slug
  Docs,           \* primary keys of public.documents
  Tasks,          \* background-task slots; a slot also names the UMAP fit it makes
  Reqs,           \* concurrent upload requests
  ChunkCount,     \* how many token windows each document is cut into
  MinEmbedded,    \* UMAP_N_NEIGHBORS + 1, the fewest embedded chunks UMAP accepts
  HasDatabaseUrl, \* whether DATABASE_URL is set for the server
  Unused, Deleted, NoUuid, NoDoc, NoTask   \* sentinels

ASSUME SlugAssumption == Protected \subseteq Slugs /\ {Unused, Deleted} \cap Slugs = {}
ASSUME IdAssumption == /\ NoUuid \notin Uuids
                       /\ NoDoc \notin Docs
                       /\ NoTask \notin Tasks
                       /\ Unused # Deleted
ASSUME ChunkAssumption == ChunkCount \in [Docs -> Nat \ {0}]
ASSUME UmapAssumption == MinEmbedded \in Nat \ {0} /\ HasDatabaseUrl \in BOOLEAN

VARIABLES
  \* the database
  author,     \* uuid -> the slug of its live row, Unused, or Deleted
  owner,      \* document -> author_id of its row, NoUuid if it has none
  chunks,     \* document -> how many rows of public.chunks it has
  embedded,   \* document -> how many of those have an embedding
  profiles,   \* uuid -> its style_profiles rows in computed_at order
  coords,     \* uuid -> the fit its umap_coords rows come from, NoTask if none
  \* the server process
  loop,       \* the author whose DELETE occupies the event loop, or NoUuid
  req,        \* upload -> the author it resolved before awaiting file.read
  umapLock,   \* _UMAP_LOCK: the thread that holds it, or NoTask
  \* one background task per slot
  pc,         \* the database call the task makes next
  taskAuthor, \* author_uuid argument
  taskDoc,    \* document_id argument
  read,       \* the documents read for the profile being computed
  fitted,     \* the authors of the embeddings fetched for the fit
  todo,       \* the authors update_style_profiles has still to UPDATE
  held        \* author -> index of its row UPDATEd in the open transaction, 0 if none

db == <<author, owner, chunks, embedded, profiles, coords>>
corpus == <<author, owner, chunks, embedded>>
server == <<loop, req, umapLock>>
locals == <<taskAuthor, taskDoc, read, fitted, todo, held>>
fitLocals == <<fitted, todo, held>>
vars == <<db, server, pc, locals>>

-----------------------------------------------------------------------------
(* Types. *)

Fit == Tasks \cup {NoTask}

\* json_data of a StyleProfile: the documents it was computed from and the fit
\* of its embedding_umap_2d; NoTask is the placeholder centroid [0, 0].
Json == [docs : SUBSET Docs, fit : Fit]

\* A style_profiles row; hash is taken as injective, so it is what was hashed.
Row == [json : Json, hash : Json]

UmapPcs == {"fetch", "save", "update"}
Pcs == {"free", "chunk", "embed", "read", "insert", "lock", "done"} \cup UmapPcs

TypeOK ==
  /\ author \in [Uuids -> Slugs \cup {Unused, Deleted}]
  /\ owner \in [Docs -> Uuids \cup {NoUuid}]
  /\ chunks \in [Docs -> Nat]
  /\ embedded \in [Docs -> Nat]
  /\ \A d \in Docs : embedded[d] <= chunks[d] /\ chunks[d] <= ChunkCount[d]
  /\ profiles \in [Uuids -> Seq(Row)]
  /\ coords \in [Uuids -> Fit]
  /\ loop \in Uuids \cup {NoUuid}
  /\ req \in [Reqs -> Uuids \cup {NoUuid}]
  /\ umapLock \in Tasks \cup {NoTask}
  /\ pc \in [Tasks -> Pcs]
  /\ taskAuthor \in [Tasks -> Uuids \cup {NoUuid}]
  /\ taskDoc \in [Tasks -> Docs \cup {NoDoc}]
  /\ read \in [Tasks -> SUBSET Docs]
  /\ fitted \in [Tasks -> SUBSET Uuids]
  /\ todo \in [Tasks -> SUBSET Uuids]
  /\ held \in [Tasks -> [Uuids -> Nat]]

-----------------------------------------------------------------------------
(* What the queries of the code return. *)

Live == {u \in Uuids : author[u] \in Slugs}
Stored(d) == owner[d] # NoUuid
DocsOf(u) == {d \in Docs : owner[d] = u}

\* get_current_style_profile: the row with the latest computed_at.
Current(u) == profiles[u][Len(profiles[u])]
HasProfile(u) == profiles[u] # <<>>

\* fetch_embeddings: the authors and the number of chunks with an embedding.
EmbeddedAuthors == {u \in Uuids : \E d \in DocsOf(u) : embedded[d] > 0}
TotalEmbedded == SumFunction(embedded)
EnoughEmbedded == TotalEmbedded >= MinEmbedded

\* A style_profiles row of u is locked by an uncommitted UPDATE.
RowLocked(u) == \E t \in Tasks : held[t][u] # 0

\* Bounds of the model: slots and document ids are used once.
FreshDocs == {d \in Docs : ~Stored(d) /\ \A t \in Tasks : taskDoc[t] # d}
FreeTasks == {t \in Tasks : pc[t] = "free"}

NothingHeld == [u \in Uuids |-> 0]

-----------------------------------------------------------------------------
(* Initially the tables are empty and the server has just started. *)

ServerStarted ==
  /\ loop = NoUuid
  /\ req = [r \in Reqs |-> NoUuid]
  /\ umapLock = NoTask
  /\ pc = [t \in Tasks |-> "free"]
  /\ taskAuthor = [t \in Tasks |-> NoUuid]
  /\ taskDoc = [t \in Tasks |-> NoDoc]
  /\ read = [t \in Tasks |-> {}]
  /\ fitted = [t \in Tasks |-> {}]
  /\ todo = [t \in Tasks |-> {}]
  /\ held = [t \in Tasks |-> NothingHeld]

Init ==
  /\ author = [u \in Uuids |-> Unused]
  /\ owner = [d \in Docs |-> NoUuid]
  /\ chunks = [d \in Docs |-> 0]
  /\ embedded = [d \in Docs |-> 0]
  /\ profiles = [u \in Uuids |-> <<>>]
  /\ coords = [u \in Uuids |-> NoTask]
  /\ ServerStarted

-----------------------------------------------------------------------------
(* Request handlers. *)

LoopFree == loop = NoUuid

\* background_tasks.add_task: the slot starts at the first call of its function.
Enqueue(t, start, u, d) ==
  /\ t \in FreeTasks
  /\ pc' = [pc EXCEPT ![t] = start]
  /\ taskAuthor' = [taskAuthor EXCEPT ![t] = u]
  /\ taskDoc' = [taskDoc EXCEPT ![t] = d]
  /\ UNCHANGED <<read, fitLocals>>

NothingEnqueued == UNCHANGED <<pc, locals>>

\* _recompute_umap_safe returns before the lock when DATABASE_URL is unset.
UmapStart == IF HasDatabaseUrl THEN "lock" ELSE "done"

\* upload_author_document up to its only await.  The author is created before
\* the extension is looked at; a refused extension leaves the new author behind.
BeginUpload(r, slug) ==
  /\ LoopFree
  /\ req[r] = NoUuid
  /\ \E u \in Uuids, allowedExtension \in BOOLEAN :
       /\ \/ author[u] = slug /\ UNCHANGED author
          \/ /\ \A v \in Uuids : author[v] # slug
             /\ author[u] = Unused
             /\ author' = [author EXCEPT ![u] = slug]
       /\ req' = [req EXCEPT ![r] = IF allowedExtension THEN u ELSE NoUuid]
  /\ UNCHANGED <<owner, chunks, embedded, profiles, coords, loop, umapLock>>
  /\ NothingEnqueued

\* The rest of the handler after `await file.read`: the documents row and its task.
\* A row of an author deleted during the await violates the foreign key.
FinishUpload(r) ==
  /\ LoopFree
  /\ req[r] \in Live
  /\ \E d \in FreshDocs, t \in FreeTasks :
       /\ owner' = [owner EXCEPT ![d] = req[r]]
       /\ Enqueue(t, "chunk", req[r], d)
  /\ req' = [req EXCEPT ![r] = NoUuid]
  /\ UNCHANGED <<author, chunks, embedded, profiles, coords, loop, umapLock>>

\* Too large, empty, refused by the database, or the author is gone: no document.
RejectUpload(r) ==
  /\ LoopFree
  /\ req[r] # NoUuid
  /\ req' = [req EXCEPT ![r] = NoUuid]
  /\ UNCHANGED <<db, loop, umapLock>>
  /\ NothingEnqueued

\* recompute_author_style_profile
Recompute(slug) ==
  /\ LoopFree
  /\ \E u \in Uuids, t \in FreeTasks :
       author[u] = slug /\ Enqueue(t, "read", u, NoDoc)
  /\ UNCHANGED <<db, server>>

\* delete_author: its first database write.  The handler never awaits, so no other
\* handler runs until it returns; worker threads do.
BeginDelete(slug) ==
  /\ LoopFree
  /\ FreeTasks # {}
  /\ slug \notin Protected
  /\ \E u \in Uuids :
       /\ author[u] = slug
       /\ coords' = [coords EXCEPT ![u] = NoTask]
       /\ loop' = u
  /\ UNCHANGED <<corpus, profiles, req, umapLock>>
  /\ NothingEnqueued

\* ON DELETE CASCADE from public.authors.
Cascade(u) ==
  /\ author' = [author EXCEPT ![u] = Deleted]
  /\ owner' = [d \in Docs |-> IF owner[d] = u THEN NoUuid ELSE owner[d]]
  /\ chunks' = [d \in Docs |-> IF owner[d] = u THEN 0 ELSE chunks[d]]
  /\ embedded' = [d \in Docs |-> IF owner[d] = u THEN 0 ELSE embedded[d]]
  /\ profiles' = [profiles EXCEPT ![u] = <<>>]

\* delete_author: add_task(_recompute_umap_safe), in the same handler as the delete.
NoRecompute == NothingEnqueued                    \* mutant: the fit is left as it was
EnqueueRecompute == \E t \in FreeTasks : Enqueue(t, UmapStart, NoUuid, NoDoc)

\* delete_author: the authors row, then the global recompute.  The cascade waits
\* for the row locks of a fit that is updating this author's profile.
FinishDelete ==
  /\ loop # NoUuid
  /\ ~RowLocked(loop)
  /\ Cascade(loop)
  /\ EnqueueRecompute
  /\ loop' = NoUuid
  /\ UNCHANGED <<coords, req, umapLock>>

-----------------------------------------------------------------------------
(* Background tasks. *)

Goto(t, from, to) == pc[t] = from /\ pc' = [pc EXCEPT ![t] = to]

\* _chunk_and_insert: all windows in one INSERT, which the foreign key refuses
\* once the document is gone.
ChunkDocument(t) ==
  LET d == taskDoc[t] IN
  /\ \/ /\ Goto(t, "chunk", "embed")
        /\ Stored(d)
        /\ chunks' = [chunks EXCEPT ![d] = ChunkCount[d]]
     \/ /\ Goto(t, "chunk", "done")
        /\ ~Stored(d)
        /\ UNCHANGED chunks
  /\ UNCHANGED <<author, owner, embedded, profiles, coords, server, locals>>

\* The chunks of a document that embed_and_persist_chunks has still to UPDATE.
PendingOffByOne(d) == embedded[d] <= chunks[d]    \* mutant: one UPDATE too many
Pending(d) == embedded[d] < chunks[d]
NextToLast(d) == embedded[d] + 2 >= chunks[d]     \* mutant: the last chunk is skipped
LastPending(d) == embedded[d] + 1 = chunks[d]

\* _embed_document_chunks: one UPDATE per chunk; an UPDATE of a cascaded chunk
\* matches no row.  The loop over, _recompute_style_profile begins.
EmbedChunk(t) ==
  LET d == taskDoc[t] IN
  /\ pc[t] = "embed"
  /\ \/ /\ Pending(d)
        /\ Goto(t, "embed", IF LastPending(d) THEN "read" ELSE "embed")
        /\ embedded' = [embedded EXCEPT ![d] = @ + 1]
     \/ /\ embedded[d] = chunks[d]
        /\ Goto(t, "embed", "read")
        /\ UNCHANGED embedded
  /\ UNCHANGED <<author, owner, chunks, profiles, coords, server, locals>>

\* The documents the profile will be computed from; none and the task ends.
AllCorpora(t) == {d \in Docs : Stored(d)}         \* mutant: no author_id filter
Corpora(t) == DocsOf(taskAuthor[t])

ReadDocuments(t) ==
  /\ Goto(t, "read", IF Corpora(t) = {} THEN "done" ELSE "insert")
  /\ read' = [read EXCEPT ![t] = Corpora(t)]
  /\ UNCHANGED <<db, server, taskAuthor, taskDoc, fitLocals>>

\* compute_style_profile over what was read: the scatter position is a placeholder.
NewRow(t) ==
  LET profile == [docs |-> read[t], fit |-> NoTask]
  IN  [json |-> profile, hash |-> profile]

\* The row is appended after a computation of minutes; the foreign key refuses it
\* if the author went in the meantime, and the task ends without a UMAP recompute.
InsertProfile(t) ==
  LET u == taskAuthor[t] IN
  /\ \/ /\ u \in Live
        /\ Goto(t, "insert", UmapStart)
        /\ profiles' = [profiles EXCEPT ![u] = Append(@, NewRow(t))]
     \/ /\ u \notin Live
        /\ Goto(t, "insert", "done")
        /\ UNCHANGED profiles
  /\ read' = [read EXCEPT ![t] = {}]
  /\ UNCHANGED <<corpus, coords, server, taskAuthor, taskDoc, fitLocals>>

\* _recompute_umap_safe: `with _UMAP_LOCK`.
Unlocked == TRUE                                  \* mutant: no lock at all
LockFree == umapLock = NoTask
KeepLock == UNCHANGED umapLock                    \* mutant: a return that leaves it held
Release == umapLock' = NoTask

AcquireLock(t) ==
  /\ LockFree
  /\ Goto(t, "lock", "fetch")
  /\ umapLock' = t
  /\ UNCHANGED <<db, loop, req, locals>>

\* fetch_embeddings; too few embedded chunks and recompute_umap returns False
\* (none at all and it raises, which _recompute_umap_safe swallows).
FetchEmbeddings(t) ==
  /\ \/ /\ EnoughEmbedded
        /\ Goto(t, "fetch", "save")
        /\ fitted' = [fitted EXCEPT ![t] = EmbeddedAuthors]
        /\ UNCHANGED umapLock
     \/ /\ ~EnoughEmbedded
        /\ Goto(t, "fetch", "done")
        /\ Release
        /\ UNCHANGED fitted
  /\ UNCHANGED <<db, loop, req, taskAuthor, taskDoc, read, todo, held>>

\* save_coords: TRUNCATE and INSERT, committed on their own.
SaveCoords(t) ==
  /\ Goto(t, "save", "update")
  /\ coords' = [u \in Uuids |-> IF u \in fitted[t] THEN t ELSE NoTask]
  /\ todo' = [todo EXCEPT ![t] = fitted[t]]
  /\ UNCHANGED <<corpus, profiles, server, taskAuthor, taskDoc, read, fitted, held>>

\* update_style_profiles: one UPDATE of the latest row per author.  The row stays
\* locked, and the update invisible, until the commit.
UpdateProfile(t, u) ==
  LET latest == Len(profiles[u]) IN
  /\ pc[t] = "update"
  /\ u \in todo[t]
  /\ \A s \in Tasks \ {t} : held[s][u] # latest \/ latest = 0
  /\ held' = [held EXCEPT ![t][u] = latest]
  /\ todo' = [todo EXCEPT ![t] = @ \ {u}]
  /\ UNCHANGED <<db, server, pc, taskAuthor, taskDoc, read, fitted>>

\* jsonb_set of embedding_umap_2d on the i-th row; the hash column is not touched.
Patch(rows, i, fit) ==
  IF i \in DOMAIN rows THEN [rows EXCEPT ![i].json.fit = fit] ELSE rows

EndFit(t) ==
  /\ fitted' = [fitted EXCEPT ![t] = {}]
  /\ todo' = [todo EXCEPT ![t] = {}]
  /\ held' = [held EXCEPT ![t] = NothingHeld]

\* The second commit of recompute_umap, and the release of the lock.
CommitProfiles(t) ==
  /\ todo[t] = {}
  /\ Goto(t, "update", "done")
  /\ profiles' = [u \in Uuids |-> Patch(profiles[u], held[t][u], t)]
  /\ Release
  /\ EndFit(t)
  /\ UNCHANGED <<corpus, coords, loop, req, taskAuthor, taskDoc, read>>

-----------------------------------------------------------------------------
(* What can go wrong.  Every task function swallows its exceptions. *)

ChunkInsertFails(t) ==
  /\ Goto(t, "chunk", "done")
  /\ UNCHANGED <<db, server, locals>>

\* The profile is computed even so, over chunks without embeddings.
EmbeddingFails(t) ==
  /\ Goto(t, "embed", "read")
  /\ UNCHANGED <<db, server, locals>>

ProfileFails(t) ==
  /\ pc[t] \in {"read", "insert"}
  /\ pc' = [pc EXCEPT ![t] = "done"]
  /\ read' = [read EXCEPT ![t] = {}]
  /\ UNCHANGED <<db, server, taskAuthor, taskDoc, fitLocals>>

\* The open transaction is rolled back with the connection; what save_coords
\* committed stays.
UmapFails(t) ==
  /\ pc[t] \in UmapPcs
  /\ pc' = [pc EXCEPT ![t] = "done"]
  /\ Release
  /\ EndFit(t)
  /\ UNCHANGED <<db, loop, req, taskAuthor, taskDoc, read>>

\* The authors row could not be deleted: 500, with the coordinates already cleared
\* and no recompute enqueued.
DeleteFails ==
  /\ loop # NoUuid
  /\ loop' = NoUuid
  /\ UNCHANGED <<db, req, umapLock>>
  /\ NothingEnqueued

\* The process dies: its tasks, requests and lock with it; open transactions roll back.
Crash ==
  /\ loop' = NoUuid
  /\ req' = [r \in Reqs |-> NoUuid]
  /\ umapLock' = NoTask
  /\ pc' = [t \in Tasks |-> IF pc[t] = "free" THEN "free" ELSE "done"]
  /\ read' = [t \in Tasks |-> {}]
  /\ fitted' = [t \in Tasks |-> {}]
  /\ todo' = [t \in Tasks |-> {}]
  /\ held' = [t \in Tasks |-> NothingHeld]
  /\ UNCHANGED <<db, taskAuthor, taskDoc>>

-----------------------------------------------------------------------------
(* Specifications. *)

UmapStep(t) ==
  \/ AcquireLock(t)
  \/ FetchEmbeddings(t)
  \/ SaveCoords(t)
  \/ \E u \in Uuids : UpdateProfile(t, u)
  \/ CommitProfiles(t)

TaskStep(t) ==
  \/ ChunkDocument(t)
  \/ EmbedChunk(t)
  \/ ReadDocuments(t)
  \/ InsertProfile(t)
  \/ UmapStep(t)

Request ==
  \/ \E r \in Reqs, slug \in Slugs : BeginUpload(r, slug)
  \/ \E r \in Reqs : FinishUpload(r) \/ RejectUpload(r)
  \/ \E slug \in Slugs : Recompute(slug) \/ BeginDelete(slug)
  \/ FinishDelete

Fault ==
  \/ \E t \in Tasks :
       ChunkInsertFails(t) \/ EmbeddingFails(t) \/ ProfileFails(t) \/ UmapFails(t)
  \/ DeleteFails
  \/ Crash

ReliableNext == Request \/ \E t \in Tasks : TaskStep(t)
Next == ReliableNext \/ Fault

\* Everything, failing database calls and restarts included.
Spec == Init /\ [][Next]_vars

\* ReliableSpec: no fault.  FairSpec: the operating system keeps running the worker
\* threads and the event loop; nothing says that a client ever sends a request or the
\* rest of an upload.  Weak fairness is enough for the lock: each holder releases it,
\* and the slots are finitely many.
Fairness ==
  /\ \A t \in Tasks : WF_vars(TaskStep(t))
  /\ WF_vars(FinishDelete)
ReliableSpec == Init /\ [][ReliableNext]_vars
FairSpec == ReliableSpec /\ Fairness

-----------------------------------------------------------------------------
(* Safety. *)

\* The scatter compares like with like: the positions that the current profiles of any
\* two authors show come from one and the same fit, whatever fails, for a position
\* means nothing in another fit's plane.  Only a placeholder may stand beside them.
Placed == {u \in Live : HasProfile(u) /\ Current(u).json.fit # NoTask}
OneFit == \A u, v \in Placed : Current(u).json.fit = Current(v).json.fit

\* Seen from outside, the positions of a fit appear together: Corpus implements Scatter.
ShownFit == [u \in Uuids |-> IF HasProfile(u) THEN Current(u).json.fit ELSE NoTask]
ScatterView == INSTANCE Scatter WITH
  Authors <- Uuids, Fits <- Tasks, NoFit <- NoTask, shown <- ShownFit
ScatterSpec == ScatterView!Spec

\* A task outlives the author it works for, and the author's slug may be taken again
\* meanwhile: it neither brings back rows of the deleted author in the tables that
\* cascade nor shows one author's documents in the profile of another.
NoLateRows ==
  /\ \A u \in Uuids : author[u] = Deleted =>
       DocsOf(u) = {} /\ profiles[u] = <<>>
  /\ \A d \in Docs : ~Stored(d) => chunks[d] = 0
  /\ \A u \in Live : \A i \in DOMAIN profiles[u] :
       profiles[u][i].json.docs \subseteq DocsOf(u)

\* Nothing runs or waits to run.
AtRest ==
  /\ loop = NoUuid
  /\ \A t \in Tasks : pc[t] \in {"free", "done"}

\* Without faults, once the server is idle and UMAP has enough chunks, the scatter is
\* complete and current: one fit placed every author that has embedded chunks, nobody
\* else has coordinates, and every profile shows that fit.  Uploads, recomputes and
\* deletes may have raced in any way before.
Placing(t) == [u \in Uuids |-> IF u \in EmbeddedAuthors THEN t ELSE NoTask]
Settled ==
  \E t \in Tasks :
    /\ coords = Placing(t)
    /\ \A u \in Live : HasProfile(u) => Current(u).json.fit = t
ScatterSettles ==
  AtRest /\ HasDatabaseUrl /\ EnoughEmbedded => Settled

-----------------------------------------------------------------------------
(* Why OneFit and NoLateRows hold: the invariant their proofs are by induction on. *)

\* _UMAP_LOCK is held by exactly the thread that is inside recompute_umap.
LockInv == \A t \in Tasks : pc[t] \in UmapPcs <=> umapLock = t

\* Rows exist only for live authors and chunks only of stored documents; what a task has
\* read still belongs to its author, if that one is still there; and no task works for
\* an author that is yet to be created.
RowInv ==
  /\ \A u \in Uuids \ Live : DocsOf(u) = {} /\ profiles[u] = <<>>
  /\ \A d \in Docs : ~Stored(d) => chunks[d] = 0
  /\ \A u \in Live : \A i \in DOMAIN profiles[u] :
       profiles[u][i].json.docs \subseteq DocsOf(u)
  /\ \A t \in Tasks : pc[t] = "insert" /\ taskAuthor[t] \in Live =>
       read[t] \subseteq DocsOf(taskAuthor[t])
  /\ \A t \in Tasks : taskAuthor[t] \in Uuids => author[taskAuthor[t]] # Unused

\* A fit in progress covers every author that has a position: each of them has embedded
\* chunks, which only deletion takes away, and nobody is placed while the fit runs.
\* An author already UPDATEd keeps the row it had, unless a newer one is a placeholder.
FitInv ==
  /\ Placed \subseteq EmbeddedAuthors
  /\ \A t \in Tasks : pc[t] # "update" => held[t] = NothingHeld
  /\ \A t \in Tasks : pc[t] \in {"save", "update"} =>
       /\ Placed \subseteq fitted[t]
       /\ \A u \in fitted[t] : u \in Live => u \in EmbeddedAuthors
       /\ \A u \in fitted[t] : author[u] # Unused
  /\ \A t \in Tasks : pc[t] = "update" =>
       /\ todo[t] \subseteq fitted[t]
       /\ \A u \in Uuids :
            /\ held[t][u] <= Len(profiles[u])
            /\ held[t][u] # 0 => u \in fitted[t]
            /\ u \in Placed \ todo[t] => held[t][u] = Len(profiles[u])

IInv == TypeOK /\ LockInv /\ RowInv /\ FitInv /\ OneFit

-----------------------------------------------------------------------------
(* Liveness. *)

\* Without faults, what was answered 202 is processed: the document is embedded to the
\* last chunk and some profile of its author covers it, unless the author is deleted.
Processed(d) ==
  /\ embedded[d] = ChunkCount[d]
  /\ \E i \in DOMAIN profiles[owner[d]] : d \in profiles[owner[d]][i].json.docs
UploadsProcessed == \A d \in Docs : Stored(d) ~> (~Stored(d) \/ Processed(d))

\* Without faults, no task waits for ever: neither for _UMAP_LOCK nor, on the event
\* loop, a delete for the rows a fit has locked.
TasksDrain ==
  /\ \A t \in Tasks : pc[t] # "free" ~> pc[t] = "done"
  /\ loop # NoUuid ~> loop = NoUuid

-----------------------------------------------------------------------------
(* What the documents say and the code does not do. *)

\* db.py: the current profile is the latest row, "past profiles stay queryable as
\* history".  So no history row covers a document the current profile misses.
HistoryIsPast ==
  \A u \in Live : \A i \in DOMAIN profiles[u] :
    profiles[u][i].json.docs \subseteq Current(u).json.docs

\* api_contract.yaml: deleting an author "also clears that author's umap_coords rows".
NoOrphanCoords ==
  AtRest => \A u \in Uuids : author[u] = Deleted => coords[u] = NoTask
=============================================================================
