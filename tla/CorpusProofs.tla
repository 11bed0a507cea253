---------------------------- MODULE CorpusProofs ----------------------------
(***************************************************************************)
(* Proofs about Corpus, for any sets of slugs, ids and tasks.              *)
(***************************************************************************)
EXTENDS Corpus, TLAPS

-----------------------------------------------------------------------------
(* What a patch of a profile history does. *)

\* Patching rewrites one row at most: the history keeps its length and its type.
LEMMA PatchType ==
  ASSUME NEW rows \in Seq(Row), NEW i \in Nat, NEW f \in Fit
  PROVE  Patch(rows, i, f) \in Seq(Row) /\ Len(Patch(rows, i, f)) = Len(rows)
<1>1. CASE i \notin DOMAIN rows
  BY <1>1 DEF Patch
<1>2. CASE i \in DOMAIN rows
  <2> DEFINE new == [rows[i] EXCEPT !.json.fit = f]
  <2>1. rows[i] \in Row
    BY <1>2
  <2>2. rows[i].json \in Json /\ rows[i].hash \in Json
    BY <2>1 DEF Row
  <2>3. [rows[i].json EXCEPT !.fit = f] \in Json
    BY <2>2 DEF Json
  <2>4. new \in Row
    BY <2>1, <2>2, <2>3 DEF Row
  <2>5. Patch(rows, i, f) = [rows EXCEPT ![i] = new]
    BY <1>2 DEF Patch
  <2> HIDE DEF new
  <2>6. [rows EXCEPT ![i] = new] \in Seq(Row) /\ Len([rows EXCEPT ![i] = new]) = Len(rows)
    BY <1>2, <2>4
  <2> QED BY <2>5, <2>6
<1> QED BY <1>1, <1>2

\* Only the patched row changes, and of it only the fit.
LEMMA PatchRows ==
  ASSUME NEW rows \in Seq(Row), NEW i \in Nat, NEW f \in Fit, NEW j \in 1 .. Len(rows)
  PROVE  /\ Patch(rows, i, f)[j].json.docs = rows[j].json.docs
         /\ j # i => Patch(rows, i, f)[j].json.fit = rows[j].json.fit
         /\ j = i => Patch(rows, i, f)[j].json.fit = f
<1>1. rows[j] \in Row
  OBVIOUS
<1>2. rows[j].json \in Json
  BY <1>1 DEF Row
<1> QED BY <1>1, <1>2 DEF Patch, Row, Json

-----------------------------------------------------------------------------
(* Counts of chunks. *)

\* Chunking fills a document up to its number of windows and no further.
LEMMA ChunkingCounts ==
  ASSUME chunks \in [Docs -> Nat], embedded \in [Docs -> Nat],
         \A d \in Docs : embedded[d] <= chunks[d] /\ chunks[d] <= ChunkCount[d],
         NEW t, ChunkDocument(t)
  PROVE  /\ chunks' \in [Docs -> Nat]
         /\ \A d \in Docs : embedded'[d] <= chunks'[d] /\ chunks'[d] <= ChunkCount[d]
<1> DEFINE e == taskDoc[t]
<1>1. chunks' = chunks \/ chunks' = [chunks EXCEPT ![e] = ChunkCount[e]]
  BY DEF ChunkDocument
<1>2. embedded' = embedded
  BY DEF ChunkDocument
<1>3. \A d \in Docs : ChunkCount[d] \in Nat
  BY ChunkAssumption
<1> HIDE DEF e
<1>4. chunks' \in [Docs -> Nat]
  <2>1. CASE e \in Docs
    BY <1>1, <1>3, <2>1
  <2>2. CASE e \notin Docs
    BY <1>1, <1>3, <2>2
  <2> QED BY <2>1, <2>2
<1>5. ASSUME NEW d \in Docs PROVE embedded'[d] <= chunks'[d] /\ chunks'[d] <= ChunkCount[d]
  <2>1. embedded[d] \in Nat /\ chunks[d] \in Nat /\ ChunkCount[d] \in Nat
    BY <1>3
  <2>2. embedded[d] <= chunks[d] /\ chunks[d] <= ChunkCount[d]
    OBVIOUS
  <2>3. chunks'[d] = chunks[d] \/ chunks'[d] = ChunkCount[d]
    BY <1>1
  <2> QED BY <1>2, <2>1, <2>2, <2>3
<1> QED BY <1>4, <1>5

\* Embedding never runs past the chunks there are.
LEMMA EmbeddingCounts ==
  ASSUME chunks \in [Docs -> Nat], embedded \in [Docs -> Nat],
         \A d \in Docs : embedded[d] <= chunks[d] /\ chunks[d] <= ChunkCount[d],
         NEW t, EmbedChunk(t)
  PROVE  /\ embedded' \in [Docs -> Nat]
         /\ \A d \in Docs : embedded'[d] <= chunks'[d] /\ chunks'[d] <= ChunkCount[d]
<1> DEFINE e == taskDoc[t]
<1>1. \/ embedded' = embedded
      \/ embedded[e] < chunks[e] /\ embedded' = [embedded EXCEPT ![e] = embedded[e] + 1]
  BY DEF EmbedChunk, Pending
<1>2. chunks' = chunks
  BY DEF EmbedChunk
<1> HIDE DEF e
<1>3. ASSUME NEW d \in Docs PROVE embedded'[d] <= chunks[d] /\ embedded'[d] \in Nat
  <2>1. embedded[d] \in Nat /\ chunks[d] \in Nat /\ embedded[d] <= chunks[d]
    OBVIOUS
  <2>2. \/ embedded'[d] = embedded[d]
        \/ embedded[d] < chunks[d] /\ embedded'[d] = embedded[d] + 1
    BY <1>1
  <2> QED BY <2>1, <2>2
<1>4. embedded' \in [Docs -> Nat]
  <2>1. DOMAIN embedded' = Docs /\ embedded' = [d \in Docs |-> embedded'[d]]
    BY <1>1
  <2> QED BY <1>3, <2>1
<1> QED BY <1>2, <1>3, <1>4

-----------------------------------------------------------------------------
(* Type correctness. *)

LEMMA InitType == Init => TypeOK
<1> SUFFICES ASSUME Init PROVE TypeOK
  OBVIOUS
<1>1. NothingHeld \in [Uuids -> Nat]
  BY DEF NothingHeld
<1>2. \A u \in Uuids : <<>> \in Seq(Row)
  OBVIOUS
<1> QED
  BY <1>1, <1>2, ChunkAssumption DEF Init, ServerStarted, TypeOK, Fit, Pcs, UmapPcs

\* Request handlers keep the types.
LEMMA RequestType == TypeOK /\ Request => TypeOK'
<1> SUFFICES ASSUME TypeOK, Request PROVE TypeOK'
  OBVIOUS
<1> USE DEF TypeOK
<1>1. ASSUME NEW r \in Reqs, NEW slug \in Slugs, BeginUpload(r, slug) PROVE TypeOK'
  <2>1. PICK u \in Uuids, ok \in BOOLEAN :
          /\ author' = author \/ author' = [author EXCEPT ![u] = slug]
          /\ req' = [req EXCEPT ![r] = IF ok THEN u ELSE NoUuid]
    BY <1>1 DEF BeginUpload
  <2>2. author' \in [Uuids -> Slugs \cup {Unused, Deleted}]
    BY <2>1
  <2>3. req' \in [Reqs -> Uuids \cup {NoUuid}]
    BY <2>1
  <2> QED
    BY <1>1, <2>2, <2>3 DEF BeginUpload, NothingEnqueued, locals, fitLocals
<1>2. ASSUME NEW r \in Reqs, FinishUpload(r) PROVE TypeOK'
  BY <1>2 DEF FinishUpload, Enqueue, FreshDocs, FreeTasks, Live, Pcs, fitLocals
<1>3. ASSUME NEW r \in Reqs, RejectUpload(r) PROVE TypeOK'
  BY <1>3 DEF RejectUpload, NothingEnqueued, db, locals, fitLocals
<1>4. ASSUME NEW slug \in Slugs, Recompute(slug) PROVE TypeOK'
  BY <1>4 DEF Recompute, Enqueue, FreeTasks, Pcs, db, server, fitLocals
<1>5. ASSUME NEW slug \in Slugs, BeginDelete(slug) PROVE TypeOK'
  BY <1>5 DEF BeginDelete, NothingEnqueued, corpus, locals, fitLocals, Fit
<1>6. ASSUME FinishDelete PROVE TypeOK'
  <2>1. loop \in Uuids
    BY <1>6 DEF FinishDelete
  <2>2. /\ author' \in [Uuids -> Slugs \cup {Unused, Deleted}]
        /\ profiles' \in [Uuids -> Seq(Row)]
    BY <1>6, <2>1 DEF FinishDelete, Cascade
  <2>3. /\ owner' \in [Docs -> Uuids \cup {NoUuid}]
        /\ chunks' \in [Docs -> Nat]
        /\ embedded' \in [Docs -> Nat]
        /\ \A d \in Docs : embedded'[d] <= chunks'[d] /\ chunks'[d] <= ChunkCount[d]
    BY <1>6, ChunkAssumption DEF FinishDelete, Cascade
  <2>4. UmapStart \in Pcs
    BY DEF UmapStart, Pcs
  <2>5. PICK t \in FreeTasks : Enqueue(t, UmapStart, NoUuid, NoDoc)
    BY <1>6 DEF FinishDelete, EnqueueRecompute
  <2>6. /\ pc' \in [Tasks -> Pcs]
        /\ taskAuthor' \in [Tasks -> Uuids \cup {NoUuid}]
        /\ taskDoc' \in [Tasks -> Docs \cup {NoDoc}]
        /\ UNCHANGED <<read, fitted, todo, held>>
    BY <2>4, <2>5 DEF Enqueue, FreeTasks, fitLocals
  <2> QED
    BY <1>6, <2>2, <2>3, <2>6 DEF FinishDelete
<1> QED
  BY <1>1, <1>2, <1>3, <1>4, <1>5, <1>6 DEF Request

\* Background tasks keep the types.
LEMMA TaskType == ASSUME TypeOK, NEW t \in Tasks, TaskStep(t) PROVE TypeOK'
<1> USE DEF TypeOK, Pcs, UmapPcs, Goto
<1>1. CASE ChunkDocument(t)
  <2>1. /\ chunks' \in [Docs -> Nat]
        /\ \A d \in Docs : embedded'[d] <= chunks'[d] /\ chunks'[d] <= ChunkCount[d]
    BY <1>1, ChunkingCounts
  <2>2. pc' \in [Tasks -> Pcs]
    BY <1>1 DEF ChunkDocument
  <2> QED
    BY <1>1, <2>1, <2>2 DEF ChunkDocument, server, locals, fitLocals
<1>2. CASE EmbedChunk(t)
  <2>1. /\ embedded' \in [Docs -> Nat]
        /\ \A d \in Docs : embedded'[d] <= chunks'[d] /\ chunks'[d] <= ChunkCount[d]
    BY <1>2, EmbeddingCounts
  <2>2. pc' \in [Tasks -> Pcs]
    BY <1>2 DEF EmbedChunk
  <2> QED
    BY <1>2, <2>1, <2>2 DEF EmbedChunk, server, locals, fitLocals
<1>3. CASE ReadDocuments(t)
  BY <1>3 DEF ReadDocuments, Corpora, DocsOf, db, server, fitLocals
<1>4. CASE InsertProfile(t)
  <2>1. NewRow(t) \in Row
    BY DEF NewRow, Row, Json, Fit
  <2>2. profiles' \in [Uuids -> Seq(Row)]
    <3>1. CASE taskAuthor[t] \in Live
      <4>1. profiles[taskAuthor[t]] \in Seq(Row)
        BY <3>1 DEF Live
      <4>2. Append(profiles[taskAuthor[t]], NewRow(t)) \in Seq(Row)
        BY <2>1, <4>1
      <4> QED BY <1>4, <3>1, <4>2 DEF InsertProfile
    <3>2. CASE taskAuthor[t] \notin Live
      BY <1>4, <3>2 DEF InsertProfile
    <3> QED BY <3>1, <3>2
  <2>3. pc' \in [Tasks -> Pcs]
    BY <1>4 DEF InsertProfile, UmapStart
  <2>4. read' \in [Tasks -> SUBSET Docs]
    BY <1>4 DEF InsertProfile
  <2> QED
    BY <1>4, <2>2, <2>3, <2>4 DEF InsertProfile, corpus, server, fitLocals
<1>5. CASE AcquireLock(t)
  BY <1>5 DEF AcquireLock, db, locals, fitLocals
<1>6. CASE FetchEmbeddings(t)
  <2>1. EmbeddedAuthors \subseteq Uuids
    BY DEF EmbeddedAuthors
  <2> HIDE DEF EmbeddedAuthors
  <2>2. pc' \in [Tasks -> Pcs] /\ umapLock' \in Tasks \cup {NoTask}
    BY <1>6 DEF FetchEmbeddings, Release
  <2>3. fitted' \in [Tasks -> SUBSET Uuids]
    BY <1>6, <2>1 DEF FetchEmbeddings
  <2> QED
    BY <1>6, <2>2, <2>3 DEF FetchEmbeddings, db
<1>7. CASE SaveCoords(t)
  BY <1>7 DEF SaveCoords, Fit, corpus, server
<1>8. ASSUME NEW u \in Uuids, UpdateProfile(t, u) PROVE TypeOK'
  BY <1>8 DEF UpdateProfile, db, server
<1>9. CASE CommitProfiles(t)
  BY <1>9, PatchType DEF CommitProfiles, Release, EndFit, NothingHeld, Fit, corpus
<1> QED
  BY <1>1, <1>2, <1>3, <1>4, <1>5, <1>6, <1>7, <1>8, <1>9 DEF TaskStep, UmapStep

\* Failures keep the types.
LEMMA FaultType == TypeOK /\ Fault => TypeOK'
<1> SUFFICES ASSUME TypeOK, Fault PROVE TypeOK'
  OBVIOUS
<1> USE DEF TypeOK, Pcs, UmapPcs, Goto
<1>1. ASSUME NEW t \in Tasks, ChunkInsertFails(t) \/ EmbeddingFails(t) PROVE TypeOK'
  BY <1>1 DEF ChunkInsertFails, EmbeddingFails, db, server, locals, fitLocals
<1>2. ASSUME NEW t \in Tasks, ProfileFails(t) PROVE TypeOK'
  BY <1>2 DEF ProfileFails, db, server, fitLocals
<1>3. ASSUME NEW t \in Tasks, UmapFails(t) PROVE TypeOK'
  BY <1>3 DEF UmapFails, Release, EndFit, NothingHeld, db
<1>4. CASE DeleteFails
  BY <1>4 DEF DeleteFails, NothingEnqueued, db, locals, fitLocals
<1>5. CASE Crash
  BY <1>5 DEF Crash, NothingHeld, db
<1> QED
  BY <1>1, <1>2, <1>3, <1>4, <1>5 DEF Fault

LEMMA NextType == TypeOK /\ [Next]_vars => TypeOK'
<1>1. TypeOK /\ UNCHANGED vars => TypeOK'
  BY DEF TypeOK, vars, db, server, locals, fitLocals
<1> QED
  BY <1>1, RequestType, TaskType, FaultType DEF Next, ReliableNext

\* Every variable keeps its type, and no document ever has more embedded chunks than
\* chunks, nor more chunks than it is cut into.
THEOREM TypeCorrect == Spec => []TypeOK
<1> QED
  BY InitType, NextType, PTL DEF Spec

-----------------------------------------------------------------------------
(* The lock. *)

\* A handler starts no task but a new one, and none of them inside recompute_umap.
LEMMA RequestPc ==
  ASSUME TypeOK, Request
  PROVE  \/ pc' = pc
         \/ \E t \in FreeTasks, start \in Pcs \ UmapPcs : pc' = [pc EXCEPT ![t] = start]
<1> DEFINE Started ==
      \E t \in FreeTasks, start \in Pcs \ UmapPcs : pc' = [pc EXCEPT ![t] = start]
<1>1. ASSUME NEW t, NEW start \in Pcs \ UmapPcs, NEW u, NEW d, Enqueue(t, start, u, d)
      PROVE  Started
  BY <1>1 DEF Enqueue
<1>2. {"chunk", "read", UmapStart} \subseteq Pcs \ UmapPcs
  BY DEF UmapStart, Pcs, UmapPcs
<1> HIDE DEF Started
<1>3. ASSUME NEW r \in Reqs, NEW slug \in Slugs, BeginUpload(r, slug) PROVE pc' = pc
  BY <1>3 DEF BeginUpload, NothingEnqueued
<1>4. ASSUME NEW r \in Reqs, FinishUpload(r) PROVE Started
  BY <1>1, <1>2, <1>4 DEF FinishUpload
<1>5. ASSUME NEW r \in Reqs, RejectUpload(r) PROVE pc' = pc
  BY <1>5 DEF RejectUpload, NothingEnqueued
<1>6. ASSUME NEW slug \in Slugs, Recompute(slug) PROVE Started
  BY <1>1, <1>2, <1>6 DEF Recompute
<1>7. ASSUME NEW slug \in Slugs, BeginDelete(slug) PROVE pc' = pc
  BY <1>7 DEF BeginDelete, NothingEnqueued
<1>8. ASSUME FinishDelete PROVE Started
  BY <1>1, <1>2, <1>8 DEF FinishDelete, EnqueueRecompute
<1> QED BY <1>3, <1>4, <1>5, <1>6, <1>7, <1>8 DEF Request, Started

\* So handlers leave the lock alone.
LEMMA LockRequest == TypeOK /\ LockInv /\ Request => LockInv'
<1> SUFFICES ASSUME TypeOK, LockInv, Request PROVE LockInv'
  OBVIOUS
<1>1. pc \in [Tasks -> Pcs]
  BY DEF TypeOK
<1>2. umapLock' = umapLock
  BY DEF Request, BeginUpload, FinishUpload, RejectUpload, Recompute, BeginDelete, FinishDelete,
         server
<1> QED
  BY <1>1, <1>2, RequestPc DEF LockInv, FreeTasks, UmapPcs

\* Entering recompute_umap takes the lock and leaving it gives it back.
LEMMA LockTask == ASSUME TypeOK, LockInv, NEW t \in Tasks, TaskStep(t) PROVE LockInv'
<1>1. pc \in [Tasks -> Pcs]
  BY DEF TypeOK
<1>2. CASE ChunkDocument(t)
  BY <1>1, <1>2 DEF ChunkDocument, Goto, LockInv, UmapPcs, server
<1>3. CASE EmbedChunk(t)
  BY <1>1, <1>3 DEF EmbedChunk, Goto, LockInv, UmapPcs, server
<1>4. CASE ReadDocuments(t)
  BY <1>1, <1>4 DEF ReadDocuments, Goto, LockInv, UmapPcs, server
<1>5. CASE InsertProfile(t)
  BY <1>1, <1>5 DEF InsertProfile, UmapStart, Goto, LockInv, UmapPcs, server
<1>6. CASE AcquireLock(t)
  BY <1>1, <1>6, IdAssumption DEF AcquireLock, LockFree, Goto, LockInv, UmapPcs
<1>7. CASE FetchEmbeddings(t)
  BY <1>1, <1>7, IdAssumption DEF FetchEmbeddings, Release, Goto, LockInv, UmapPcs
<1>8. CASE SaveCoords(t)
  BY <1>1, <1>8 DEF SaveCoords, Goto, LockInv, UmapPcs, server
<1>9. ASSUME NEW u \in Uuids, UpdateProfile(t, u) PROVE LockInv'
  BY <1>1, <1>9 DEF UpdateProfile, LockInv, UmapPcs, server
<1>10. CASE CommitProfiles(t)
  BY <1>1, <1>10, IdAssumption DEF CommitProfiles, Release, Goto, LockInv, UmapPcs
<1> QED
  BY <1>2, <1>3, <1>4, <1>5, <1>6, <1>7, <1>8, <1>9, <1>10 DEF TaskStep, UmapStep

\* A failure inside recompute_umap releases the lock, and so does a restart.
LEMMA LockFault == TypeOK /\ LockInv /\ Fault => LockInv'
<1> SUFFICES ASSUME TypeOK, LockInv, Fault PROVE LockInv'
  OBVIOUS
<1>1. pc \in [Tasks -> Pcs]
  BY DEF TypeOK
<1>2. ASSUME NEW t \in Tasks, ChunkInsertFails(t) \/ EmbeddingFails(t) \/ ProfileFails(t)
      PROVE  LockInv'
  BY <1>1, <1>2 DEF ChunkInsertFails, EmbeddingFails, ProfileFails, Goto, LockInv, UmapPcs, server
<1>3. ASSUME NEW t \in Tasks, UmapFails(t) PROVE LockInv'
  BY <1>1, <1>3, IdAssumption DEF UmapFails, Release, LockInv, UmapPcs
<1>4. CASE DeleteFails
  BY <1>1, <1>4 DEF DeleteFails, NothingEnqueued, LockInv, UmapPcs
<1>5. CASE Crash
  BY <1>1, <1>5, IdAssumption DEF Crash, LockInv, UmapPcs
<1> QED
  BY <1>2, <1>3, <1>4, <1>5 DEF Fault

-----------------------------------------------------------------------------
(* The rows. *)

\* Steps that leave the rows alone and start no insert cannot disturb RowInv.
LEMMA RowFrame ==
  ASSUME TypeOK, RowInv, UNCHANGED <<author, owner, chunks, profiles>>,
         \A t \in Tasks : pc'[t] = "insert" =>
           pc[t] = "insert" /\ taskAuthor'[t] = taskAuthor[t] /\ read'[t] = read[t],
         \A t \in Tasks : taskAuthor'[t] \in Uuids =>
           taskAuthor'[t] = taskAuthor[t] \/ taskAuthor'[t] \in Live
  PROVE  RowInv'
<1>1. \A u : DocsOf(u)' = DocsOf(u)
  BY DEF DocsOf
<1>2. Live' = Live
  BY DEF Live
<1>3. \A d : Stored(d)' = Stored(d)
  BY DEF Stored
<1>4. \A t \in Tasks : taskAuthor'[t] \in Uuids => author[taskAuthor'[t]] # Unused
  BY SlugAssumption DEF RowInv, Live
<1> QED
  BY <1>1, <1>2, <1>3, <1>4 DEF RowInv

\* A new task may be added to them, for an author that lives or for none.
LEMMA RowEnqueue ==
  ASSUME TypeOK, RowInv, UNCHANGED <<author, owner, chunks, profiles>>,
         NEW t \in Tasks, NEW start, NEW u \in Live \cup {NoUuid}, NEW d,
         Enqueue(t, start, u, d), start # "insert"
  PROVE  RowInv'
<1>1. pc \in [Tasks -> Pcs] /\ taskAuthor \in [Tasks -> Uuids \cup {NoUuid}]
  BY DEF TypeOK
<1>2. ASSUME NEW s \in Tasks
      PROVE  /\ pc'[s] = "insert" =>
                  pc[s] = "insert" /\ taskAuthor'[s] = taskAuthor[s] /\ read'[s] = read[s]
             /\ taskAuthor'[s] \in Uuids =>
                  taskAuthor'[s] = taskAuthor[s] \/ taskAuthor'[s] \in Live
  BY <1>1, IdAssumption DEF Enqueue
<1> QED
  BY <1>2, RowFrame

\* A new author starts without rows and without tasks.
LEMMA RowBeginUpload ==
  ASSUME TypeOK, RowInv, NEW r \in Reqs, NEW slug \in Slugs, BeginUpload(r, slug)
  PROVE  RowInv'
<1>1. author \in [Uuids -> Slugs \cup {Unused, Deleted}]
  BY DEF TypeOK
<1>2. UNCHANGED <<owner, chunks, profiles, pc, taskAuthor, read>>
  BY DEF BeginUpload, NothingEnqueued, locals
<1>3. PICK u \in Uuids : \/ author' = author
                        \/ (author[u] = Unused /\ author' = [author EXCEPT ![u] = slug])
  BY DEF BeginUpload
<1>4. \A v : DocsOf(v)' = DocsOf(v)
  BY <1>2 DEF DocsOf
<1>5. \A d : Stored(d)' = Stored(d)
  BY <1>2 DEF Stored
<1>6. CASE author' = author
  BY <1>2, <1>6, RowFrame
<1>7. CASE author[u] = Unused /\ author' = [author EXCEPT ![u] = slug]
  <2>1. u \notin Live /\ Live' = Live \cup {u}
    BY <1>1, <1>7, SlugAssumption DEF Live
  <2>2. DocsOf(u) = {} /\ profiles[u] = <<>>
    BY <2>1 DEF RowInv
  <2>3. \A t \in Tasks : taskAuthor[t] # u
    BY <1>7 DEF RowInv
  <2>4. \A t \in Tasks : taskAuthor[t] \in Uuids => author'[taskAuthor[t]] # Unused
    BY <1>1, <1>7, <2>3 DEF RowInv
  <2> QED
    BY <1>2, <1>4, <1>5, <2>1, <2>2, <2>3, <2>4 DEF RowInv
<1> QED BY <1>3, <1>6, <1>7

\* A new document has no chunks, and only adds to what its author owns.
LEMMA RowFinishUpload ==
  ASSUME TypeOK, RowInv, NEW r \in Reqs, FinishUpload(r)
  PROVE  RowInv'
<1>1. /\ owner \in [Docs -> Uuids \cup {NoUuid}]
      /\ pc \in [Tasks -> Pcs]
      /\ taskAuthor \in [Tasks -> Uuids \cup {NoUuid}]
  BY DEF TypeOK
<1>2. PICK d \in FreshDocs, t \in FreeTasks :
        owner' = [owner EXCEPT ![d] = req[r]] /\ Enqueue(t, "chunk", req[r], d)
  BY DEF FinishUpload
<1> DEFINE a == req[r]
<1>3. a \in Live /\ a \in Uuids /\ a # NoUuid
  BY IdAssumption DEF FinishUpload, Live
<1>4. UNCHANGED <<author, chunks, profiles>> /\ Live' = Live
  BY DEF FinishUpload, Live
<1>5. d \in Docs /\ owner[d] = NoUuid
  BY <1>2 DEF FreshDocs, Stored
<1>6. owner' = [owner EXCEPT ![d] = a]
  BY <1>2
<1>7. \A s \in Tasks : /\ pc'[s] = "insert" =>
                            /\ pc[s] = "insert"
                            /\ taskAuthor'[s] = taskAuthor[s]
                            /\ read'[s] = read[s]
                       /\ taskAuthor'[s] \in {taskAuthor[s], a}
  BY <1>1, <1>2 DEF Enqueue
<1> HIDE DEF a
<1>8. \A u \in Uuids : /\ DocsOf(u) \subseteq DocsOf(u)'
                       /\ u # a => DocsOf(u)' = DocsOf(u)
  BY <1>1, <1>3, <1>5, <1>6, IdAssumption DEF DocsOf
<1>9. \A e \in Docs : ~Stored(e)' => ~Stored(e)
  BY <1>1, <1>3, <1>5, <1>6 DEF Stored
<1>10. \A u \in Uuids \ Live' : DocsOf(u)' = {} /\ profiles'[u] = <<>>
  BY <1>3, <1>4, <1>8 DEF RowInv
<1>11. \A e \in Docs : ~Stored(e)' => chunks'[e] = 0
  BY <1>4, <1>9 DEF RowInv
<1>12. \A u \in Live' : \A i \in DOMAIN profiles'[u] :
         profiles'[u][i].json.docs \subseteq DocsOf(u)'
  BY <1>4, <1>8 DEF RowInv, Live
<1>13. ASSUME NEW s \in Tasks, pc'[s] = "insert", taskAuthor'[s] \in Live'
       PROVE  read'[s] \subseteq DocsOf(taskAuthor[s])'
  <2>1. taskAuthor'[s] = taskAuthor[s] /\ taskAuthor[s] \in Live /\ taskAuthor[s] \in Uuids
    BY <1>4, <1>7, <1>13 DEF Live
  <2>2. read'[s] \subseteq DocsOf(taskAuthor[s])
    BY <1>7, <1>13, <2>1 DEF RowInv
  <2>3. DocsOf(taskAuthor[s])' = {x \in Docs : owner'[x] = taskAuthor'[s]}
    BY DEF DocsOf
  <2>4. \A x \in Docs : owner[x] = taskAuthor[s] => owner'[x] = taskAuthor[s]
    BY <1>1, <1>5, <1>6, <2>1, IdAssumption
  <2> QED BY <2>1, <2>2, <2>3, <2>4 DEF DocsOf
<1>14. \A s \in Tasks : taskAuthor'[s] \in Uuids => author'[taskAuthor'[s]] # Unused
  BY <1>3, <1>4, <1>7, SlugAssumption DEF RowInv, Live
<1> QED BY <1>10, <1>11, <1>12, <1>13, <1>14 DEF RowInv

\* The cascade takes every row of the author, and tasks for it find none again.
LEMMA RowFinishDelete == TypeOK /\ RowInv /\ FinishDelete => RowInv'
<1> SUFFICES ASSUME TypeOK, RowInv, FinishDelete PROVE RowInv'
  OBVIOUS
<1>1. /\ owner \in [Docs -> Uuids \cup {NoUuid}]
      /\ author \in [Uuids -> Slugs \cup {Unused, Deleted}]
      /\ profiles \in [Uuids -> Seq(Row)]
      /\ chunks \in [Docs -> Nat]
      /\ pc \in [Tasks -> Pcs]
      /\ taskAuthor \in [Tasks -> Uuids \cup {NoUuid}]
  BY DEF TypeOK
<1>2. PICK a \in Uuids : Cascade(a)
  BY DEF FinishDelete, TypeOK
<1>3. UmapStart # "insert"
  BY DEF UmapStart
<1>4. \A s \in Tasks : /\ pc'[s] = "insert" =>
                            /\ pc[s] = "insert"
                            /\ taskAuthor'[s] = taskAuthor[s]
                            /\ read'[s] = read[s]
                       /\ taskAuthor'[s] \in {taskAuthor[s], NoUuid}
  <2>1. PICK t \in FreeTasks : Enqueue(t, UmapStart, NoUuid, NoDoc)
    BY DEF FinishDelete, EnqueueRecompute
  <2> QED BY <1>1, <1>3, <2>1 DEF Enqueue, FreeTasks
<1>5. Live' = Live \ {a}
  BY <1>1, <1>2, SlugAssumption DEF Cascade, Live
<1>6. \A d \in Docs : owner'[d] = IF owner[d] = a THEN NoUuid ELSE owner[d]
  BY <1>2 DEF Cascade
<1>7. DocsOf(a)' = {} /\ \A u \in Uuids \ {a} : DocsOf(u)' = DocsOf(u)
  BY <1>2, <1>6, IdAssumption DEF DocsOf
<1>8. profiles'[a] = <<>> /\ \A u \in Uuids \ {a} : profiles'[u] = profiles[u]
  BY <1>1, <1>2 DEF Cascade
<1>9. \A u \in Uuids \ Live' : DocsOf(u)' = {} /\ profiles'[u] = <<>>
  BY <1>5, <1>7, <1>8 DEF RowInv
<1>10. \A d \in Docs : ~Stored(d)' => chunks'[d] = 0
  BY <1>2, <1>6 DEF RowInv, Stored, Cascade
<1>11. \A u \in Live' : \A i \in DOMAIN profiles'[u] :
         profiles'[u][i].json.docs \subseteq DocsOf(u)'
  BY <1>5, <1>7, <1>8 DEF RowInv, Live
<1>12. ASSUME NEW s \in Tasks, pc'[s] = "insert", taskAuthor'[s] \in Live'
       PROVE  read'[s] \subseteq DocsOf(taskAuthor[s])'
  <2>1. /\ taskAuthor'[s] = taskAuthor[s]
        /\ taskAuthor[s] \in Live
        /\ taskAuthor[s] # a
    BY <1>4, <1>5, <1>12
  <2>2. read'[s] \subseteq DocsOf(taskAuthor[s])
    BY <1>4, <1>12, <2>1 DEF RowInv
  <2> QED BY <1>6, <2>1, <2>2 DEF DocsOf
<1>13. \A s \in Tasks : taskAuthor'[s] \in Uuids => author'[taskAuthor'[s]] # Unused
  BY <1>1, <1>2, <1>4, IdAssumption DEF RowInv, Cascade
<1> QED BY <1>9, <1>10, <1>11, <1>12, <1>13 DEF RowInv

\* Patching the histories leaves what the profiles were computed from.
LEMMA RowPatched ==
  ASSUME TypeOK, RowInv, NEW t \in Tasks, UNCHANGED <<author, owner, chunks, taskAuthor>>,
         profiles' = [u \in Uuids |-> Patch(profiles[u], held[t][u], t)],
         \A s \in Tasks : pc'[s] = "insert" => pc[s] = "insert" /\ read'[s] = read[s]
  PROVE  RowInv'
<1>1. /\ Live' = Live
      /\ \A u : DocsOf(u)' = DocsOf(u)
      /\ \A d : Stored(d)' = Stored(d)
  BY DEF Live, DocsOf, Stored
<1>2. ASSUME NEW u \in Uuids
      PROVE  /\ Len(profiles'[u]) = Len(profiles[u]) /\ profiles'[u] \in Seq(Row)
             /\ profiles[u] \in Seq(Row)
             /\ \A i \in DOMAIN profiles'[u] :
                  i \in DOMAIN profiles[u] /\ profiles'[u][i].json.docs = profiles[u][i].json.docs
  <2>1. profiles[u] \in Seq(Row) /\ held[t][u] \in Nat /\ t \in Fit
    BY DEF TypeOK, Fit
  <2>2. profiles'[u] = Patch(profiles[u], held[t][u], t)
    OBVIOUS
  <2>3. profiles'[u] \in Seq(Row) /\ Len(profiles'[u]) = Len(profiles[u])
    BY <2>1, <2>2, PatchType
  <2>4. ASSUME NEW i \in DOMAIN profiles'[u]
        PROVE  i \in DOMAIN profiles[u] /\ profiles'[u][i].json.docs = profiles[u][i].json.docs
    <3>1. i \in 1 .. Len(profiles[u])
      BY <2>1, <2>3
    <3> QED BY <2>1, <2>2, <3>1, PatchRows
  <2> QED BY <2>1, <2>3, <2>4
<1>3. \A u \in Uuids : profiles[u] = <<>> => profiles'[u] = <<>>
  BY <1>2
<1>4. ASSUME NEW u \in Live, NEW i \in DOMAIN profiles'[u]
      PROVE  profiles'[u][i].json.docs \subseteq DocsOf(u)
  <2>1. i \in DOMAIN profiles[u] /\ profiles'[u][i].json.docs = profiles[u][i].json.docs
    BY <1>2 DEF Live
  <2> QED BY <2>1 DEF RowInv
<1>5. \A s \in Tasks : pc'[s] = "insert" /\ taskAuthor'[s] \in Live' =>
        read'[s] \subseteq DocsOf(taskAuthor[s])'
  BY <1>1 DEF RowInv, DocsOf
<1>6. \A u \in Uuids \ Live : DocsOf(u)' = {} /\ profiles'[u] = <<>>
  BY <1>1, <1>3 DEF RowInv
<1>7. \A d \in Docs : ~Stored(d)' => chunks'[d] = 0
  BY <1>1 DEF RowInv
<1>8. \A s \in Tasks : taskAuthor'[s] \in Uuids => author'[taskAuthor'[s]] # Unused
  BY DEF RowInv
<1> QED BY <1>1, <1>4, <1>5, <1>6, <1>7, <1>8 DEF RowInv

\* A task writes rows only where the foreign keys still let it, and of what it read.
LEMMA RowTask == ASSUME TypeOK, RowInv, NEW t \in Tasks, TaskStep(t) PROVE RowInv'
<1>1. /\ chunks \in [Docs -> Nat]
      /\ profiles \in [Uuids -> Seq(Row)]
      /\ pc \in [Tasks -> Pcs]
      /\ taskAuthor \in [Tasks -> Uuids \cup {NoUuid}]
      /\ read \in [Tasks -> SUBSET Docs]
  BY DEF TypeOK
<1>2. taskAuthor' = taskAuthor /\ UNCHANGED <<author, owner>>
  BY DEF TaskStep, UmapStep, ChunkDocument, EmbedChunk, ReadDocuments, InsertProfile,
         AcquireLock, FetchEmbeddings, SaveCoords, UpdateProfile, CommitProfiles,
         db, corpus, locals, fitLocals
<1>3. /\ Live' = Live
      /\ \A u : DocsOf(u)' = DocsOf(u)
      /\ \A d : Stored(d)' = Stored(d)
  BY <1>2 DEF Live, DocsOf, Stored
<1>4. CASE ChunkDocument(t)
  <2>1. /\ UNCHANGED <<profiles, read>>
        /\ \A s \in Tasks : pc'[s] = "insert" => pc[s] = "insert"
    BY <1>1, <1>4 DEF ChunkDocument, Goto, locals
  <2>2. \A d \in Docs : ~Stored(d) => chunks'[d] = 0
    BY <1>1, <1>4 DEF ChunkDocument, RowInv
  <2> QED BY <1>2, <1>3, <2>1, <2>2 DEF RowInv
<1>5. CASE EmbedChunk(t)
  <2>1. /\ UNCHANGED <<chunks, profiles, read>>
        /\ \A s \in Tasks : pc'[s] = "insert" => pc[s] = "insert"
    BY <1>1, <1>5 DEF EmbedChunk, Goto, locals
  <2> QED BY <1>2, <2>1, RowFrame
<1>6. CASE ReadDocuments(t)
  <2>1. UNCHANGED <<chunks, profiles>>
    BY <1>6 DEF ReadDocuments, db
  <2>2. read' = [read EXCEPT ![t] = DocsOf(taskAuthor[t])]
    BY <1>6 DEF ReadDocuments, Corpora
  <2>3. \A s \in Tasks \ {t} : pc'[s] = "insert" => pc[s] = "insert"
    BY <1>1, <1>6 DEF ReadDocuments, Goto
  <2>4. \A s \in Tasks : pc'[s] = "insert" /\ taskAuthor[s] \in Live =>
          read'[s] \subseteq DocsOf(taskAuthor[s])
    BY <1>1, <2>2, <2>3 DEF RowInv
  <2> QED BY <1>2, <1>3, <2>1, <2>4 DEF RowInv
<1>7. CASE InsertProfile(t)
  <2> DEFINE a == taskAuthor[t]
  <2>1. chunks' = chunks /\ pc[t] = "insert"
    BY <1>7 DEF InsertProfile, Goto, corpus
  <2>2. \A s \in Tasks : pc'[s] = "insert" => pc[s] = "insert" /\ read'[s] = read[s]
    BY <1>1, <1>7 DEF InsertProfile, Goto, UmapStart
  <2>3. CASE a \in Live
    <3>1. profiles' = [profiles EXCEPT ![a] = Append(profiles[a], NewRow(t))]
      BY <1>7, <2>3 DEF InsertProfile
    <3>2. read[t] \subseteq DocsOf(a) /\ a \in Uuids
      BY <2>1, <2>3 DEF RowInv, Live
    <3>3. ASSUME NEW i \in DOMAIN Append(profiles[a], NewRow(t))
          PROVE  Append(profiles[a], NewRow(t))[i].json.docs \subseteq DocsOf(a)
      <4>1. profiles[a] \in Seq(Row)
        BY <1>1, <3>2
      <4>2. \/ i \in DOMAIN profiles[a] /\ Append(profiles[a], NewRow(t))[i] = profiles[a][i]
            \/ Append(profiles[a], NewRow(t))[i] = NewRow(t)
        BY <3>3, <4>1
      <4>3. NewRow(t).json.docs = read[t]
        BY DEF NewRow
      <4> QED BY <2>3, <3>2, <4>2, <4>3 DEF RowInv
    <3>4. profiles'[a] = Append(profiles[a], NewRow(t))
      BY <1>1, <3>1, <3>2
    <3>5. \A u \in Uuids \ {a} : profiles'[u] = profiles[u]
      BY <1>1, <3>1
    <3>6. \A u \in Live : \A i \in DOMAIN profiles'[u] :
            profiles'[u][i].json.docs \subseteq DocsOf(u)
      BY <3>3, <3>4, <3>5 DEF RowInv, Live
    <3>7. \A u \in Uuids \ Live : profiles'[u] = <<>>
      BY <2>3, <3>5 DEF RowInv
    <3> QED BY <1>2, <1>3, <2>1, <2>2, <3>6, <3>7 DEF RowInv
  <2>4. CASE a \notin Live
    <3>1. profiles' = profiles
      BY <1>7, <2>4 DEF InsertProfile
    <3> QED BY <1>2, <2>1, <2>2, <3>1, RowFrame
  <2> QED BY <2>3, <2>4
<1>8. CASE CommitProfiles(t)
  <2>1. /\ chunks' = chunks
        /\ \A s \in Tasks : pc'[s] = "insert" => pc[s] = "insert" /\ read'[s] = read[s]
    BY <1>1, <1>8 DEF CommitProfiles, Goto, corpus
  <2>2. profiles' = [u \in Uuids |-> Patch(profiles[u], held[t][u], t)]
    BY <1>8 DEF CommitProfiles
  <2> QED BY <1>2, <2>1, <2>2, RowPatched
<1>9. CASE UmapStep(t) /\ ~CommitProfiles(t)
  <2>1. UNCHANGED <<chunks, profiles, read>>
    BY <1>9 DEF UmapStep, AcquireLock, FetchEmbeddings, SaveCoords, UpdateProfile,
                db, corpus, locals
  <2>2. \A s \in Tasks : pc'[s] = "insert" => pc[s] = "insert"
    BY <1>1, <1>9 DEF UmapStep, AcquireLock, FetchEmbeddings, SaveCoords, UpdateProfile, Goto
  <2> QED BY <1>2, <2>1, <2>2, RowFrame
<1> QED
  BY <1>4, <1>5, <1>6, <1>7, <1>8, <1>9 DEF TaskStep

\* So much for the handlers.
LEMMA RowRequest == TypeOK /\ RowInv /\ Request => RowInv'
<1> SUFFICES ASSUME TypeOK, RowInv, Request PROVE RowInv'
  OBVIOUS
<1>1. ASSUME NEW r \in Reqs, RejectUpload(r) PROVE RowInv'
  BY <1>1, RowFrame DEF RejectUpload, NothingEnqueued, db, locals
<1>2. ASSUME NEW slug \in Slugs, Recompute(slug) PROVE RowInv'
  <2>1. PICK u \in Uuids, t \in FreeTasks : author[u] = slug /\ Enqueue(t, "read", u, NoDoc)
    BY <1>2 DEF Recompute
  <2>2. u \in Live /\ t \in Tasks
    BY <2>1 DEF Live, FreeTasks
  <2>3. UNCHANGED <<author, owner, chunks, profiles>>
    BY <1>2 DEF Recompute, db
  <2> QED BY <2>1, <2>2, <2>3, RowEnqueue
<1>3. ASSUME NEW slug \in Slugs, BeginDelete(slug) PROVE RowInv'
  BY <1>3, RowFrame DEF BeginDelete, NothingEnqueued, corpus, locals
<1> QED
  BY <1>1, <1>2, <1>3, RowBeginUpload, RowFinishUpload, RowFinishDelete DEF Request

\* No failure writes a row or moves a task to its insert.
LEMMA RowFault == TypeOK /\ RowInv /\ Fault => RowInv'
<1> SUFFICES ASSUME TypeOK, RowInv, Fault PROVE RowInv'
  OBVIOUS
<1>1. pc \in [Tasks -> Pcs]
  BY DEF TypeOK
<1>2. UNCHANGED <<author, owner, chunks, profiles, taskAuthor>>
  BY DEF Fault, ChunkInsertFails, EmbeddingFails, ProfileFails, UmapFails, DeleteFails, Crash,
         NothingEnqueued, db, locals
<1>3. ASSUME NEW t \in Tasks, ChunkInsertFails(t) \/ EmbeddingFails(t) PROVE RowInv'
  <2>1. \A s \in Tasks : pc'[s] = "insert" => pc[s] = "insert" /\ read'[s] = read[s]
    BY <1>1, <1>3 DEF ChunkInsertFails, EmbeddingFails, Goto, locals
  <2> QED BY <1>2, <2>1, RowFrame
<1>4. ASSUME NEW t \in Tasks, ProfileFails(t) PROVE RowInv'
  <2>1. \A s \in Tasks : pc'[s] = "insert" => pc[s] = "insert" /\ read'[s] = read[s]
    BY <1>1, <1>4 DEF ProfileFails
  <2> QED BY <1>2, <2>1, RowFrame
<1>5. ASSUME NEW t \in Tasks, UmapFails(t) PROVE RowInv'
  <2>1. \A s \in Tasks : pc'[s] = "insert" => pc[s] = "insert" /\ read'[s] = read[s]
    BY <1>1, <1>5 DEF UmapFails
  <2> QED BY <1>2, <2>1, RowFrame
<1>6. CASE DeleteFails
  BY <1>2, <1>6, RowFrame DEF DeleteFails, NothingEnqueued, locals
<1>7. CASE Crash
  <2>1. \A s \in Tasks : pc'[s] # "insert"
    BY <1>7 DEF Crash
  <2> QED BY <1>2, <2>1, RowFrame
<1> QED
  BY <1>3, <1>4, <1>5, <1>6, <1>7 DEF Fault

\* The inductive steps of RowInv and LockInv.
LEMMA RowNext == TypeOK /\ RowInv /\ [Next]_vars => RowInv'
<1>1. TypeOK /\ RowInv /\ UNCHANGED vars => RowInv'
  BY RowFrame DEF vars, db, locals
<1> QED
  BY <1>1, RowRequest, RowTask, RowFault DEF Next, ReliableNext

LEMMA LockNext == TypeOK /\ LockInv /\ [Next]_vars => LockInv'
<1>1. LockInv /\ UNCHANGED vars => LockInv'
  BY DEF LockInv, vars, server
<1> QED
  BY <1>1, LockRequest, LockTask, LockFault DEF Next, ReliableNext

\* Nothing is stored, running or locked at first.
LEMMA InitRow == Init => RowInv /\ LockInv
<1> SUFFICES ASSUME Init PROVE RowInv /\ LockInv
  OBVIOUS
<1>1. Live = {} /\ \A u \in Uuids : DocsOf(u) = {}
  BY SlugAssumption, IdAssumption DEF Init, ServerStarted, Live, DocsOf
<1>2. RowInv
  BY <1>1, IdAssumption DEF Init, ServerStarted, RowInv, Stored
<1>3. LockInv
  BY IdAssumption DEF Init, ServerStarted, LockInv, UmapPcs
<1> QED BY <1>2, <1>3

\* Whatever the interleaving and whatever fails, no row of a deleted author comes back
\* and no profile shows documents of another author.
THEOREM RowsBelong == Spec => []NoLateRows
<1>1. RowInv => NoLateRows
  BY SlugAssumption DEF RowInv, NoLateRows, Live
<1> QED
  BY <1>1, InitType, NextType, InitRow, RowNext, PTL DEF Spec
=============================================================================
