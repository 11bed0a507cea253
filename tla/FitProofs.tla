------------------------------ MODULE FitProofs ------------------------------
(***************************************************************************)
(* Proofs about Corpus: one fit at a time is on the scatter, and Corpus    *)
(* implements Scatter.                                                     *)
(***************************************************************************)
EXTENDS CorpusProofs

\* What every step but a commit of update_style_profiles keeps: nobody is placed, an
\* author loses its embedded chunks only by going, and a row that a fit has locked stays.
Kept ==
  /\ \A u \in Placed' : u \in Placed /\ profiles'[u] = profiles[u]
  /\ \A u \in EmbeddedAuthors : u \in Live' => u \in EmbeddedAuthors'
  /\ \A u \in Uuids : author[u] # Unused => author'[u] # Unused
  /\ \A u \in Live' : u \in Live \/ author[u] = Unused
  /\ \A u \in Uuids : RowLocked(u) => Len(profiles[u]) <= Len(profiles'[u])

\* What every step but those of a fit keeps: the fits in progress.
FitsKept ==
  \A t \in Tasks :
    /\ pc'[t] \in {"save", "update"} =>
         /\ pc'[t] = pc[t]
         /\ fitted'[t] = fitted[t]
         /\ todo'[t] = todo[t]
         /\ held'[t] = held[t]
    /\ pc'[t] # "update" => held'[t] = NothingHeld

\* Only an open transaction of update_style_profiles has rows locked.
HeldByUpdating == \A t \in Tasks : pc[t] # "update" => held[t] = NothingHeld

\* Together they keep FitInv.
LEMMA FitFrame == ASSUME TypeOK, FitInv, Kept, FitsKept PROVE FitInv'
<1>1. Placed' \subseteq EmbeddedAuthors'
  BY DEF Kept, FitInv, Placed
<1>2. \A t \in Tasks : pc'[t] # "update" => held'[t] = NothingHeld
  BY DEF FitsKept
<1>3. ASSUME NEW t \in Tasks, pc'[t] \in {"save", "update"}
      PROVE  /\ Placed' \subseteq fitted'[t]
             /\ \A u \in fitted'[t] : u \in Live' => u \in EmbeddedAuthors'
             /\ \A u \in fitted'[t] : author'[u] # Unused
  <2>1. pc[t] \in {"save", "update"} /\ fitted'[t] = fitted[t]
    BY <1>3 DEF FitsKept
  <2>2. /\ Placed \subseteq fitted[t]
        /\ \A u \in fitted[t] : u \in Live => u \in EmbeddedAuthors
        /\ \A u \in fitted[t] : author[u] # Unused
    BY <2>1 DEF FitInv
  <2>3. fitted[t] \subseteq Uuids
    BY DEF TypeOK
  <2> QED BY <2>1, <2>2, <2>3 DEF Kept
<1>4. ASSUME NEW t \in Tasks, pc'[t] = "update"
      PROVE  /\ todo'[t] \subseteq fitted'[t]
             /\ \A u \in Uuids :
                  /\ held'[t][u] <= Len(profiles'[u])
                  /\ held'[t][u] # 0 => u \in fitted'[t]
                  /\ u \in Placed' \ todo'[t] => held'[t][u] = Len(profiles'[u])
  <2>1. pc[t] = "update" /\ UNCHANGED <<fitted[t], todo[t], held[t]>>
    BY <1>4 DEF FitsKept
  <2>2. todo[t] \subseteq fitted[t]
    BY <2>1 DEF FitInv
  <2>3. ASSUME NEW u \in Uuids
        PROVE  /\ held[t][u] <= Len(profiles'[u])
               /\ held[t][u] # 0 => u \in fitted[t]
               /\ u \in Placed' \ todo[t] => held[t][u] = Len(profiles'[u])
    <3>1. /\ held[t][u] <= Len(profiles[u])
          /\ held[t][u] # 0 => u \in fitted[t]
          /\ u \in Placed \ todo[t] => held[t][u] = Len(profiles[u])
      BY <2>1 DEF FitInv
    <3>2. u \in Placed' => u \in Placed /\ profiles'[u] = profiles[u]
      BY DEF Kept
    <3>3. RowLocked(u) => Len(profiles[u]) <= Len(profiles'[u])
      BY DEF Kept
    <3>4. profiles[u] \in Seq(Row) /\ held[t][u] \in Nat
      BY DEF TypeOK
    <3>5. held[t][u] <= Len(profiles'[u])
      <4>1. CASE held[t][u] # 0
        <5>1. RowLocked(u)
          BY <4>1 DEF RowLocked
        <5> QED BY <3>1, <3>3, <3>4, <5>1
      <4>2. CASE held[t][u] = 0
        BY <4>2
      <4> QED BY <4>1, <4>2
    <3> QED BY <3>1, <3>2, <3>5
  <2> QED BY <2>1, <2>2, <2>3
<1> QED
  BY <1>1, <1>2, <1>3, <1>4 DEF FitInv

-----------------------------------------------------------------------------
(* Which steps keep the rows. *)

\* A step that leaves the rows alone.
LEMMA KeptRows ==
  ASSUME TypeOK, UNCHANGED <<author, owner, embedded, profiles>> PROVE Kept
<1>1. /\ Live' = Live /\ Placed' = Placed /\ EmbeddedAuthors' = EmbeddedAuthors
      /\ \A u \in Uuids : Len(profiles[u]) <= Len(profiles'[u])
  <2>1. \A u \in Uuids : profiles[u] \in Seq(Row)
    BY DEF TypeOK
  <2> QED BY <2>1 DEF Live, Placed, EmbeddedAuthors, HasProfile, Current, DocsOf
<1> QED BY <1>1 DEF Kept

\* A new author has no profile, so no position.
LEMMA KeptBeginUpload ==
  ASSUME TypeOK, RowInv, NEW r \in Reqs, NEW slug \in Slugs, BeginUpload(r, slug)
  PROVE  Kept
<1>1. UNCHANGED <<owner, embedded, profiles>>
  BY DEF BeginUpload
<1>2. PICK u \in Uuids : \/ author' = author
                         \/ (author[u] = Unused /\ author' = [author EXCEPT ![u] = slug])
  BY DEF BeginUpload
<1>3. CASE author' = author
  BY <1>1, <1>3, KeptRows
<1>4. CASE author[u] = Unused /\ author' = [author EXCEPT ![u] = slug]
  <2>1. author \in [Uuids -> Slugs \cup {Unused, Deleted}]
    BY DEF TypeOK
  <2>2. u \notin Live /\ Live' = Live \cup {u}
    BY <2>1, <1>4, SlugAssumption DEF Live
  <2>3. profiles[u] = <<>>
    BY <2>2 DEF RowInv
  <2>4. \A v \in Placed' : v \in Placed
    BY <1>1, <2>2, <2>3 DEF Placed, HasProfile, Current
  <2>5. EmbeddedAuthors' = EmbeddedAuthors
    BY <1>1 DEF EmbeddedAuthors, DocsOf
  <2>6. \A v \in Uuids : author[v] # Unused => author'[v] # Unused
    BY <1>4
  <2>7. \A v \in Uuids : Len(profiles[v]) <= Len(profiles'[v])
    <3>1. \A v \in Uuids : profiles[v] \in Seq(Row)
      BY DEF TypeOK
    <3> QED BY <1>1, <3>1
  <2> QED BY <1>1, <1>4, <2>2, <2>4, <2>5, <2>6, <2>7 DEF Kept
<1> QED BY <1>2, <1>3, <1>4

\* A new document takes no embedded chunk away.
LEMMA KeptFinishUpload ==
  ASSUME TypeOK, NEW r \in Reqs, FinishUpload(r)
  PROVE  Kept
<1>1. UNCHANGED <<author, embedded, profiles>>
  BY DEF FinishUpload
<1>2. PICK d \in FreshDocs : owner' = [owner EXCEPT ![d] = req[r]]
  BY DEF FinishUpload
<1>3. owner \in [Docs -> Uuids \cup {NoUuid}] /\ owner[d] = NoUuid
  BY <1>2 DEF TypeOK, FreshDocs, Stored
<1>4. \A u \in EmbeddedAuthors : u \in EmbeddedAuthors'
  <2>1. SUFFICES ASSUME NEW u \in EmbeddedAuthors PROVE u \in EmbeddedAuthors'
    OBVIOUS
  <2>2. PICK e \in Docs : owner[e] = u /\ embedded[e] > 0
    BY <2>1 DEF EmbeddedAuthors, DocsOf
  <2>3. u \in Uuids /\ u # NoUuid
    BY <2>1, IdAssumption DEF EmbeddedAuthors
  <2>4. owner'[e] = u /\ embedded'[e] > 0
    BY <1>1, <1>2, <1>3, <2>2, <2>3
  <2> QED BY <2>3, <2>4 DEF EmbeddedAuthors, DocsOf
<1>5. Live' = Live /\ Placed' = Placed
  BY <1>1 DEF Live, Placed, HasProfile, Current
<1>6. \A u \in Uuids : Len(profiles[u]) <= Len(profiles'[u])
  <2>1. \A u \in Uuids : profiles[u] \in Seq(Row)
    BY DEF TypeOK
  <2> QED BY <1>1, <2>1
<1> QED BY <1>1, <1>4, <1>5, <1>6 DEF Kept

\* The cascade takes one author's rows, and waits while a fit has them locked.
LEMMA KeptFinishDelete == TypeOK /\ FinishDelete => Kept
<1> SUFFICES ASSUME TypeOK, FinishDelete PROVE Kept
  OBVIOUS
<1>1. PICK a \in Uuids : a = loop
  BY DEF FinishDelete, TypeOK
<1>2. Cascade(a) /\ ~RowLocked(a)
  BY <1>1 DEF FinishDelete
<1>3. /\ author \in [Uuids -> Slugs \cup {Unused, Deleted}]
      /\ owner \in [Docs -> Uuids \cup {NoUuid}]
      /\ embedded \in [Docs -> Nat]
      /\ profiles \in [Uuids -> Seq(Row)]
  BY DEF TypeOK
<1>4. Live' = Live \ {a}
  BY <1>2, <1>3, SlugAssumption DEF Cascade, Live
<1>5. /\ profiles'[a] = <<>>
      /\ \A u \in Uuids \ {a} : profiles'[u] = profiles[u]
      /\ author'[a] = Deleted
      /\ \A u \in Uuids \ {a} : author'[u] = author[u]
  BY <1>2, <1>3 DEF Cascade
<1>6. \A u \in Placed' : u \in Placed /\ profiles'[u] = profiles[u]
  BY <1>4, <1>5 DEF Placed, HasProfile, Current, Live
<1>7. ASSUME NEW u \in EmbeddedAuthors, u \in Live' PROVE u \in EmbeddedAuthors'
  <2>1. PICK e \in Docs : owner[e] = u /\ embedded[e] > 0
    BY <1>7 DEF EmbeddedAuthors, DocsOf
  <2>2. u \in Uuids /\ u # a
    BY <1>4, <1>7 DEF Live
  <2>3. owner'[e] = u /\ embedded'[e] > 0
    BY <1>2, <2>1, <2>2 DEF Cascade
  <2> QED BY <2>2, <2>3 DEF EmbeddedAuthors, DocsOf
<1>8. \A u \in Uuids : RowLocked(u) => Len(profiles[u]) <= Len(profiles'[u])
  <2>1. ASSUME NEW u \in Uuids, RowLocked(u) PROVE Len(profiles[u]) <= Len(profiles'[u])
    <3>1. profiles'[u] = profiles[u] /\ profiles[u] \in Seq(Row)
      BY <1>2, <1>3, <1>5, <2>1
    <3> QED BY <3>1
  <2> QED BY <2>1
<1>9. \A u \in Uuids : author[u] # Unused => author'[u] # Unused
  BY <1>5, IdAssumption
<1> QED BY <1>4, <1>6, <1>7, <1>8, <1>9 DEF Kept

\* Embedding only adds.
LEMMA KeptEmbedChunk == ASSUME TypeOK, NEW t \in Tasks, EmbedChunk(t) PROVE Kept
<1>1. UNCHANGED <<author, owner, profiles>>
  BY DEF EmbedChunk
<1>2. embedded \in [Docs -> Nat]
  BY DEF TypeOK
<1>3. \A e \in Docs : embedded[e] > 0 => embedded'[e] > 0
  BY <1>2 DEF EmbedChunk
<1>4. \A u \in EmbeddedAuthors : u \in EmbeddedAuthors'
  BY <1>1, <1>3 DEF EmbeddedAuthors, DocsOf
<1>5. Live' = Live /\ Placed' = Placed
  BY <1>1 DEF Live, Placed, HasProfile, Current
<1>6. \A u \in Uuids : Len(profiles[u]) <= Len(profiles'[u])
  <2>1. \A u \in Uuids : profiles[u] \in Seq(Row)
    BY DEF TypeOK
  <2> QED BY <1>1, <2>1
<1> QED BY <1>1, <1>4, <1>5, <1>6 DEF Kept

\* A new profile is a placeholder: its author has no position until the next fit.
LEMMA KeptInsertProfile == ASSUME TypeOK, NEW t \in Tasks, InsertProfile(t) PROVE Kept
<1>1. UNCHANGED <<author, owner, embedded>>
  BY DEF InsertProfile, corpus
<1>2. Live' = Live /\ EmbeddedAuthors' = EmbeddedAuthors
  BY <1>1 DEF Live, EmbeddedAuthors, DocsOf
<1>3. CASE profiles' = profiles
  BY <1>1, <1>3, KeptRows
<1>4. CASE profiles' # profiles
  <2>1. PICK a \in Uuids : profiles' = [profiles EXCEPT ![a] = Append(profiles[a], NewRow(t))]
    BY <1>4 DEF InsertProfile, Live
  <2>2. profiles \in [Uuids -> Seq(Row)]
    BY DEF TypeOK
  <2>3. NewRow(t) \in Row /\ NewRow(t).json.fit = NoTask
    BY DEF NewRow, Row, Json, Fit, TypeOK
  <2> DEFINE rows == Append(profiles[a], NewRow(t))
  <2>4. /\ rows \in Seq(Row)
        /\ Len(rows) = Len(profiles[a]) + 1
        /\ rows[Len(rows)] = NewRow(t)
    BY <2>2, <2>3
  <2>5. profiles'[a] = rows /\ \A u \in Uuids \ {a} : profiles'[u] = profiles[u]
    BY <2>1, <2>2
  <2> HIDE DEF rows
  <2>6. Current(a)'.json.fit = NoTask
    BY <2>3, <2>4, <2>5 DEF Current
  <2>7. \A u \in Placed' : u # a
    BY <2>6 DEF Placed
  <2>8. \A u \in Placed' : u \in Placed /\ profiles'[u] = profiles[u]
    BY <1>2, <2>5, <2>7 DEF Placed, Live, HasProfile, Current
  <2>9. \A u \in Uuids : Len(profiles[u]) <= Len(profiles'[u])
    <3>1. Len(profiles[a]) \in Nat /\ \A u \in Uuids : Len(profiles[u]) \in Nat
      BY <2>2
    <3> QED BY <2>4, <2>5, <3>1
  <2> QED BY <1>1, <1>2, <2>8, <2>9 DEF Kept
<1> QED BY <1>3, <1>4

\* Only the commit of a fit places anybody.
LEMMA KeptTask ==
  ASSUME TypeOK, NEW t \in Tasks, TaskStep(t), ~CommitProfiles(t) PROVE Kept
<1>1. \/ UNCHANGED <<author, owner, embedded, profiles>>
      \/ EmbedChunk(t) \/ InsertProfile(t)
  BY DEF TaskStep, UmapStep, ChunkDocument, ReadDocuments, AcquireLock, FetchEmbeddings,
         SaveCoords, UpdateProfile, db, corpus
<1> QED BY <1>1, KeptRows, KeptEmbedChunk, KeptInsertProfile

LEMMA KeptRequest == ASSUME TypeOK, RowInv, Request PROVE Kept
<1>1. \/ UNCHANGED <<author, owner, embedded, profiles>>
      \/ FinishDelete
      \/ \E r \in Reqs, slug \in Slugs : BeginUpload(r, slug)
      \/ \E r \in Reqs : FinishUpload(r)
  BY DEF Request, RejectUpload, Recompute, BeginDelete, db, corpus
<1> QED BY <1>1, KeptRows, KeptBeginUpload, KeptFinishUpload, KeptFinishDelete

LEMMA KeptNext ==
  ASSUME TypeOK, RowInv, [Next]_vars, \A t \in Tasks : ~CommitProfiles(t)
  PROVE  Kept
<1>1. CASE UNCHANGED vars
  BY <1>1, KeptRows DEF vars, db
<1>2. CASE Fault
  <2>1. UNCHANGED db
    BY <1>2 DEF Fault, ChunkInsertFails, EmbeddingFails, ProfileFails, UmapFails, DeleteFails,
                Crash
  <2> QED BY <2>1, KeptRows DEF db
<1> QED BY <1>1, <1>2, KeptTask, KeptRequest DEF Next, ReliableNext

\* Where nothing is placed anew the fits stay comparable.
LEMMA OneFitKept == OneFit /\ Kept => OneFit'
<1> SUFFICES ASSUME OneFit, Kept, NEW u \in Placed', NEW v \in Placed'
             PROVE  Current(u)'.json.fit = Current(v)'.json.fit
  BY DEF OneFit
<1>1. /\ u \in Placed /\ profiles'[u] = profiles[u]
      /\ v \in Placed /\ profiles'[v] = profiles[v]
  BY DEF Kept
<1> QED BY <1>1 DEF OneFit, Current

-----------------------------------------------------------------------------
(* Which steps keep the fits in progress, and what those of a fit do. *)

\* Handlers start tasks, but never inside a fit.
LEMMA FitsKeptRequest == TypeOK /\ HeldByUpdating /\ Request => FitsKept
<1> SUFFICES ASSUME TypeOK, HeldByUpdating, Request PROVE FitsKept
  OBVIOUS
<1>1. pc \in [Tasks -> Pcs]
  BY DEF TypeOK
<1>2. \A t \in Tasks : pc[t] # "update" => held[t] = NothingHeld
  BY DEF HeldByUpdating
<1>3. UNCHANGED fitLocals
  BY DEF Request, BeginUpload, FinishUpload, RejectUpload, Recompute, BeginDelete, FinishDelete,
         EnqueueRecompute, NothingEnqueued, Enqueue, locals, fitLocals
<1>4. \/ pc' = pc
      \/ \E t \in FreeTasks, start \in Pcs \ UmapPcs : pc' = [pc EXCEPT ![t] = start]
  BY RequestPc
<1>5. \A t \in Tasks : pc'[t] # pc[t] => pc[t] = "free" /\ pc'[t] \notin UmapPcs
  BY <1>1, <1>4 DEF FreeTasks
<1> QED BY <1>2, <1>3, <1>5 DEF FitsKept, fitLocals, UmapPcs

\* Neither do the failures, but by ending one.
LEMMA FitsKeptFault == TypeOK /\ HeldByUpdating /\ Fault => FitsKept
<1> SUFFICES ASSUME TypeOK, HeldByUpdating, Fault PROVE FitsKept
  OBVIOUS
<1>1. /\ pc \in [Tasks -> Pcs]
      /\ fitted \in [Tasks -> SUBSET Uuids]
      /\ todo \in [Tasks -> SUBSET Uuids]
      /\ held \in [Tasks -> [Uuids -> Nat]]
  BY DEF TypeOK
<1>2. \A t \in Tasks : pc[t] # "update" => held[t] = NothingHeld
  BY DEF HeldByUpdating
<1>3. ASSUME NEW t \in Tasks, ChunkInsertFails(t) \/ EmbeddingFails(t) \/ ProfileFails(t)
      PROVE  FitsKept
  <2>1. UNCHANGED fitLocals
    BY <1>3 DEF ChunkInsertFails, EmbeddingFails, ProfileFails, locals, fitLocals
  <2>2. \A s \in Tasks : pc'[s] # pc[s] => pc[s] # "update" /\ pc'[s] \notin {"save", "update"}
    BY <1>1, <1>3 DEF ChunkInsertFails, EmbeddingFails, ProfileFails, Goto
  <2> QED BY <1>2, <2>1, <2>2 DEF FitsKept, fitLocals
<1>4. ASSUME NEW t \in Tasks, UmapFails(t) PROVE FitsKept
  <2>1. pc'[t] = "done" /\ held'[t] = NothingHeld
    BY <1>1, <1>4 DEF UmapFails, EndFit
  <2>2. \A s \in Tasks \ {t} : /\ pc'[s] = pc[s]
                               /\ fitted'[s] = fitted[s]
                               /\ todo'[s] = todo[s]
                               /\ held'[s] = held[s]
    BY <1>1, <1>4 DEF UmapFails, EndFit
  <2> QED BY <1>2, <2>1, <2>2 DEF FitsKept
<1>5. CASE DeleteFails
  BY <1>2, <1>5 DEF DeleteFails, NothingEnqueued, locals, fitLocals, FitsKept
<1>6. CASE Crash
  <2>1. \A s \in Tasks : pc'[s] \in {"free", "done"} /\ held'[s] = NothingHeld
    BY <1>6 DEF Crash
  <2> QED BY <2>1 DEF FitsKept
<1> QED BY <1>3, <1>4, <1>5, <1>6 DEF Fault

\* Outside recompute_umap a task does not touch the fits; inside, it holds the lock.
LEMMA FitsKeptTask ==
  ASSUME TypeOK, HeldByUpdating, NEW t \in Tasks,
         \/ ChunkDocument(t) \/ EmbedChunk(t) \/ ReadDocuments(t) \/ InsertProfile(t)
         \/ AcquireLock(t)
  PROVE  FitsKept
<1>1. pc \in [Tasks -> Pcs]
  BY DEF TypeOK
<1>2. \A s \in Tasks : pc[s] # "update" => held[s] = NothingHeld
  BY DEF HeldByUpdating
<1>3. UNCHANGED fitLocals
  BY DEF ChunkDocument, EmbedChunk, ReadDocuments, InsertProfile, AcquireLock, locals, fitLocals
<1>4. \A s \in Tasks : pc'[s] # pc[s] => pc[s] # "update" /\ pc'[s] \notin {"save", "update"}
  BY <1>1 DEF ChunkDocument, EmbedChunk, ReadDocuments, InsertProfile, AcquireLock, Goto, UmapStart
<1> QED BY <1>2, <1>3, <1>4 DEF FitsKept, fitLocals

\* The fit starts from all the authors that have a position.
LEMMA FitFetch ==
  ASSUME TypeOK, RowInv, FitInv, NEW t \in Tasks, FetchEmbeddings(t)
  PROVE  FitInv'
<1>1. /\ pc \in [Tasks -> Pcs]
      /\ fitted \in [Tasks -> SUBSET Uuids]
  BY DEF TypeOK
<1>2. /\ UNCHANGED <<author, owner, embedded, profiles, todo, held>>
      /\ pc[t] = "fetch"
  BY DEF FetchEmbeddings, Goto, db
<1>3. /\ Live' = Live /\ Placed' = Placed /\ EmbeddedAuthors' = EmbeddedAuthors
  BY <1>2 DEF Live, Placed, EmbeddedAuthors, HasProfile, Current, DocsOf
<1>4. \A s \in Tasks \ {t} : pc'[s] = pc[s] /\ fitted'[s] = fitted[s]
  BY <1>1 DEF FetchEmbeddings, Goto
<1>5. pc'[t] # "update" /\ held'[t] = NothingHeld
  BY <1>1, <1>2 DEF FetchEmbeddings, Goto, FitInv
<1>6. pc'[t] = "save" => fitted'[t] = EmbeddedAuthors
  BY <1>1 DEF FetchEmbeddings, Goto
<1>7. \A u \in EmbeddedAuthors : author[u] # Unused
  <2>1. ASSUME NEW u \in EmbeddedAuthors PROVE u \in Live
    BY <2>1 DEF RowInv, EmbeddedAuthors
  <2> QED BY <2>1, SlugAssumption DEF Live
<1>8. Placed \subseteq EmbeddedAuthors
  BY DEF FitInv
<1>9. ASSUME NEW s \in Tasks, pc'[s] \in {"save", "update"}
      PROVE  /\ Placed \subseteq fitted'[s]
             /\ \A u \in fitted'[s] : u \in Live => u \in EmbeddedAuthors
             /\ \A u \in fitted'[s] : author[u] # Unused
  <2>1. CASE s = t
    BY <1>5, <1>6, <1>7, <1>8, <1>9, <2>1
  <2>2. CASE s # t
    BY <1>4, <1>9, <2>2 DEF FitInv
  <2> QED BY <2>1, <2>2
<1>10. \A s \in Tasks : pc'[s] # "update" => held[s] = NothingHeld
  BY <1>2, <1>4, <1>5 DEF FitInv
<1>11. \A s \in Tasks : pc'[s] = "update" => pc[s] = "update" /\ fitted'[s] = fitted[s]
  BY <1>4, <1>5
<1> QED
  BY <1>2, <1>3, <1>8, <1>9, <1>10, <1>11 DEF FitInv

\* The UPDATEs are to begin with all of them still to do.
LEMMA FitSave == ASSUME TypeOK, FitInv, NEW t \in Tasks, SaveCoords(t) PROVE FitInv'
<1>1. /\ pc \in [Tasks -> Pcs]
      /\ todo \in [Tasks -> SUBSET Uuids]
      /\ profiles \in [Uuids -> Seq(Row)]
  BY DEF TypeOK
<1>2. /\ UNCHANGED <<author, owner, embedded, profiles, fitted, held>>
      /\ pc[t] = "save"
      /\ pc' = [pc EXCEPT ![t] = "update"]
      /\ todo' = [todo EXCEPT ![t] = fitted[t]]
  BY DEF SaveCoords, Goto, corpus
<1>3. /\ Live' = Live /\ Placed' = Placed /\ EmbeddedAuthors' = EmbeddedAuthors
  BY <1>2 DEF Live, Placed, EmbeddedAuthors, HasProfile, Current, DocsOf
<1>4. \A s \in Tasks : pc'[s] \in {"save", "update"} => pc[s] \in {"save", "update"}
  BY <1>1, <1>2
<1>5. held[t] = NothingHeld /\ Placed \subseteq fitted[t]
  BY <1>2 DEF FitInv
<1>6. ASSUME NEW s \in Tasks, pc'[s] = "update"
      PROVE  /\ todo'[s] \subseteq fitted[s]
             /\ \A u \in Uuids :
                  /\ held[s][u] <= Len(profiles[u])
                  /\ held[s][u] # 0 => u \in fitted[s]
                  /\ u \in Placed \ todo'[s] => held[s][u] = Len(profiles[u])
  <2>1. CASE s = t
    <3>1. todo'[s] = fitted[s]
      BY <1>1, <1>2, <2>1
    <3>2. \A u \in Uuids : held[s][u] = 0 /\ Len(profiles[u]) \in Nat
      BY <1>1, <1>5, <2>1 DEF NothingHeld
    <3> QED BY <1>5, <2>1, <3>1, <3>2
  <2>2. CASE s # t
    BY <1>1, <1>2, <1>6, <2>2 DEF FitInv
  <2> QED BY <2>1, <2>2
<1>7. \A s \in Tasks : pc'[s] # "update" => held[s] = NothingHeld
  BY <1>1, <1>2 DEF FitInv
<1>8. \A s \in Tasks : pc'[s] \in {"save", "update"} =>
             /\ Placed \subseteq fitted[s]
             /\ \A u \in fitted[s] : u \in Live => u \in EmbeddedAuthors
             /\ \A u \in fitted[s] : author[u] # Unused
  BY <1>4 DEF FitInv
<1>9. Placed \subseteq EmbeddedAuthors
  BY DEF FitInv
<1> QED
  BY <1>2, <1>3, <1>6, <1>7, <1>8, <1>9 DEF FitInv

\* One author after the other, the row UPDATEd is the latest.
LEMMA FitUpdate ==
  ASSUME TypeOK, FitInv, NEW t \in Tasks, NEW a \in Uuids, UpdateProfile(t, a)
  PROVE  FitInv'
<1>1. /\ todo \in [Tasks -> SUBSET Uuids]
      /\ held \in [Tasks -> [Uuids -> Nat]]
      /\ profiles \in [Uuids -> Seq(Row)]
  BY DEF TypeOK
<1>2. /\ UNCHANGED <<author, owner, embedded, profiles, fitted, pc>>
      /\ pc[t] = "update"
      /\ a \in todo[t]
      /\ todo' = [todo EXCEPT ![t] = todo[t] \ {a}]
      /\ held' = [held EXCEPT ![t][a] = Len(profiles[a])]
  BY DEF UpdateProfile, db
<1>3. /\ Live' = Live /\ Placed' = Placed /\ EmbeddedAuthors' = EmbeddedAuthors
  BY <1>2 DEF Live, Placed, EmbeddedAuthors, HasProfile, Current, DocsOf
<1>4. ASSUME NEW s \in Tasks, pc[s] = "update"
      PROVE  /\ todo'[s] \subseteq fitted[s]
             /\ \A u \in Uuids :
                  /\ held'[s][u] <= Len(profiles[u])
                  /\ held'[s][u] # 0 => u \in fitted[s]
                  /\ u \in Placed \ todo'[s] => held'[s][u] = Len(profiles[u])
  <2>1. /\ todo[s] \subseteq fitted[s]
        /\ \A u \in Uuids :
             /\ held[s][u] <= Len(profiles[u])
             /\ held[s][u] # 0 => u \in fitted[s]
             /\ u \in Placed \ todo[s] => held[s][u] = Len(profiles[u])
    BY <1>4 DEF FitInv
  <2>2. CASE s = t
    <3>1. todo'[s] = todo[s] \ {a} /\ a \in fitted[s]
      BY <1>1, <1>2, <2>1, <2>2
    <3>2. held'[s][a] = Len(profiles[a]) /\ \A u \in Uuids \ {a} : held'[s][u] = held[s][u]
      BY <1>1, <1>2, <2>2
    <3>3. \A u \in Uuids : Len(profiles[u]) \in Nat
      BY <1>1
    <3> QED BY <2>1, <3>1, <3>2, <3>3
  <2>3. CASE s # t
    BY <1>1, <1>2, <2>1, <2>3
  <2> QED BY <2>2, <2>3
<1>5. \A s \in Tasks : pc[s] # "update" => held'[s] = NothingHeld
  BY <1>1, <1>2 DEF FitInv
<1>6. Placed \subseteq EmbeddedAuthors
  BY DEF FitInv
<1>7. \A s \in Tasks : pc[s] \in {"save", "update"} =>
             /\ Placed \subseteq fitted[s]
             /\ \A u \in fitted[s] : u \in Live => u \in EmbeddedAuthors
             /\ \A u \in fitted[s] : author[u] # Unused
  BY DEF FitInv
<1> QED
  BY <1>2, <1>3, <1>4, <1>5, <1>6, <1>7 DEF FitInv

-----------------------------------------------------------------------------
(* The commit of a fit, and the invariant. *)

\* The authors whose current row the fit of t has UPDATEd.
Moved(t) == {u \in Uuids : held[t][u] # 0 /\ held[t][u] = Len(profiles[u])}

\* Patching the rows that the fit has UPDATEd shows exactly those authors at the fit.
LEMMA PatchPlaces ==
  ASSUME TypeOK, NEW t \in Tasks, NEW u \in Uuids,
         profiles' = [v \in Uuids |-> Patch(profiles[v], held[t][v], t)]
  PROVE  /\ u \in Moved(t) => HasProfile(u) /\ Current(u)'.json.fit = t
         /\ u \notin Moved(t) /\ HasProfile(u) => Current(u)'.json.fit = Current(u).json.fit
         /\ HasProfile(u)' <=> HasProfile(u)
         /\ Len(profiles'[u]) = Len(profiles[u])
<1>1. profiles[u] \in Seq(Row) /\ held[t][u] \in Nat /\ t \in Fit
  BY DEF TypeOK, Fit
<1>2. profiles'[u] = Patch(profiles[u], held[t][u], t)
  OBVIOUS
<1>3. profiles'[u] \in Seq(Row) /\ Len(profiles'[u]) = Len(profiles[u])
  BY <1>1, <1>2, PatchType
<1>4. /\ HasProfile(u) <=> Len(profiles[u]) # 0
      /\ HasProfile(u)' <=> Len(profiles[u]) # 0
  BY <1>1, <1>3 DEF HasProfile
<1>5. ASSUME u \in Moved(t) PROVE HasProfile(u) /\ Current(u)'.json.fit = t
  <2>1. held[t][u] # 0 /\ held[t][u] = Len(profiles[u])
    BY <1>5 DEF Moved
  <2>2. held[t][u] \in 1 .. Len(profiles[u])
    BY <1>1, <2>1
  <2>3. profiles'[u][Len(profiles[u])].json.fit = t
    BY <1>1, <1>2, <2>1, <2>2, PatchRows
  <2> QED BY <1>3, <1>4, <2>1, <2>3 DEF Current
<1>6. ASSUME u \notin Moved(t), HasProfile(u) PROVE Current(u)'.json.fit = Current(u).json.fit
  <2>1. Len(profiles[u]) \in 1 .. Len(profiles[u]) /\ held[t][u] # Len(profiles[u])
    BY <1>1, <1>4, <1>6 DEF Moved
  <2>2. profiles'[u][Len(profiles[u])].json.fit = profiles[u][Len(profiles[u])].json.fit
    BY <1>1, <1>2, <2>1, PatchRows
  <2> QED BY <1>3, <2>2 DEF Current
<1> QED BY <1>3, <1>4, <1>5, <1>6

\* A commit leaves nobody at an old fit.
LEMMA CommitPlaces ==
  ASSUME TypeOK, FitInv, NEW t \in Tasks, CommitProfiles(t), NEW u \in Uuids
  PROVE  /\ u \in Moved(t) =>
              u \in fitted[t] /\ HasProfile(u)' /\ Current(u)'.json.fit = t
         /\ u \notin Moved(t) =>
              /\ u \notin Placed
              /\ HasProfile(u)' <=> HasProfile(u)
              /\ HasProfile(u) => Current(u)'.json.fit = Current(u).json.fit
<1>1. profiles' = [v \in Uuids |-> Patch(profiles[v], held[t][v], t)]
  BY DEF CommitProfiles
<1>2. /\ pc[t] = "update" /\ todo[t] = {}
      /\ profiles[u] \in Seq(Row)
  BY DEF CommitProfiles, Goto, TypeOK
<1>3. u \in Moved(t) => u \in fitted[t]
  BY <1>2 DEF FitInv, Moved
<1>4. ASSUME u \in Placed PROVE u \in Moved(t)
  <2>1. held[t][u] = Len(profiles[u])
    BY <1>2, <1>4 DEF FitInv
  <2>2. Len(profiles[u]) # 0
    BY <1>2, <1>4 DEF Placed, HasProfile
  <2> QED BY <2>1, <2>2 DEF Moved
<1> QED BY <1>1, <1>3, <1>4, PatchPlaces

\* After a commit every position belongs to its fit.
LEMMA CommitOneFit ==
  ASSUME TypeOK, FitInv, NEW t \in Tasks, CommitProfiles(t)
  PROVE  /\ OneFit'
         /\ Placed' \subseteq fitted[t]
<1>1. author' = author
  BY DEF CommitProfiles, corpus
<1>2. ASSUME NEW u \in Placed' PROVE u \in Moved(t)
  <2>1. SUFFICES ASSUME u \notin Moved(t) PROVE FALSE
    OBVIOUS
  <2>2. u \in Uuids /\ u \in Live
    BY <1>1, <1>2 DEF Placed, Live
  <2>3. /\ u \notin Placed
        /\ HasProfile(u)' <=> HasProfile(u)
        /\ HasProfile(u) => Current(u)'.json.fit = Current(u).json.fit
    BY <2>1, <2>2, CommitPlaces
  <2> QED BY <1>2, <2>2, <2>3 DEF Placed
<1>3. ASSUME NEW u \in Placed' PROVE u \in fitted[t] /\ Current(u)'.json.fit = t
  BY <1>2, <1>3, CommitPlaces DEF Moved
<1> QED BY <1>3 DEF OneFit

\* With the lock, the fit that commits is the only one in progress.
LEMMA FitCommit ==
  ASSUME TypeOK, LockInv, FitInv, NEW t \in Tasks, CommitProfiles(t)
  PROVE  FitInv'
<1>1. /\ pc \in [Tasks -> Pcs]
      /\ held \in [Tasks -> [Uuids -> Nat]]
  BY DEF TypeOK
<1>2. UNCHANGED <<author, owner, embedded>> /\ pc[t] = "update"
  BY DEF CommitProfiles, Goto, corpus
<1>3. Live' = Live /\ EmbeddedAuthors' = EmbeddedAuthors
  BY <1>2 DEF Live, EmbeddedAuthors, DocsOf
<1>4. \A s \in Tasks \ {t} : pc[s] \notin UmapPcs
  BY <1>2 DEF LockInv, UmapPcs
<1>5. \A s \in Tasks : pc'[s] \notin {"save", "update"}
  BY <1>1, <1>4 DEF CommitProfiles, Goto, UmapPcs
<1>6. \A s \in Tasks : held'[s] = NothingHeld
  <2>1. held'[t] = NothingHeld
    BY <1>1 DEF CommitProfiles, EndFit
  <2>2. ASSUME NEW s \in Tasks \ {t} PROVE held'[s] = NothingHeld
    <3>1. pc[s] # "update"
      BY <1>4 DEF UmapPcs
    <3> QED BY <3>1 DEF CommitProfiles, EndFit, FitInv
  <2> QED BY <2>1, <2>2
<1>7. Placed' \subseteq EmbeddedAuthors'
  <2>1. Placed' \subseteq fitted[t] /\ Placed' \subseteq Live
    BY <1>3, CommitOneFit DEF Placed
  <2>2. \A u \in fitted[t] : u \in Live => u \in EmbeddedAuthors
    BY <1>2 DEF FitInv
  <2> QED BY <1>3, <2>1, <2>2
<1> QED BY <1>5, <1>6, <1>7 DEF FitInv

\* FitInv and OneFit are inductive together with the lock and the rows.
LEMMA FitNext ==
  ASSUME TypeOK, LockInv, RowInv, FitInv, OneFit, [Next]_vars
  PROVE  FitInv' /\ OneFit'
<1>1. CASE \E t \in Tasks : CommitProfiles(t)
  BY <1>1, FitCommit, CommitOneFit
<1>2. CASE \A t \in Tasks : ~CommitProfiles(t)
  <2>1. Kept /\ OneFit'
    BY <1>2, KeptNext, OneFitKept
  <2>2. FitsKept => FitInv'
    BY <2>1, FitFrame
  <2>3. CASE UNCHANGED vars
    <3>1. UNCHANGED <<pc, fitted, todo, held>>
      BY <2>3 DEF vars, locals
    <3>2. FitsKept
      BY <3>1 DEF FitsKept, FitInv
    <3> QED BY <2>1, <2>2, <3>2
  <2>0. HeldByUpdating
    BY DEF HeldByUpdating, FitInv
  <2>4. CASE Request
    BY <2>1, <2>2, <2>4, <2>0, FitsKeptRequest
  <2>5. CASE Fault
    BY <2>1, <2>2, <2>5, <2>0, FitsKeptFault
  <2>6. ASSUME NEW t \in Tasks, TaskStep(t) PROVE FitInv'
    <3>1. CASE ChunkDocument(t) \/ EmbedChunk(t) \/ ReadDocuments(t) \/ InsertProfile(t)
               \/ AcquireLock(t)
      BY <2>2, <2>0, <3>1, FitsKeptTask
    <3>2. CASE FetchEmbeddings(t) \/ SaveCoords(t) \/ \E u \in Uuids : UpdateProfile(t, u)
      BY <3>2, FitFetch, FitSave, FitUpdate
    <3> QED BY <1>2, <2>6, <3>1, <3>2 DEF TaskStep, UmapStep
  <2> QED BY <2>1, <2>3, <2>4, <2>5, <2>6 DEF Next, ReliableNext
<1> QED BY <1>1, <1>2

\* At first nobody is placed.
LEMMA InitFit == Init => FitInv /\ OneFit
<1> SUFFICES ASSUME Init PROVE FitInv /\ OneFit
  OBVIOUS
<1>1. Placed = {}
  BY SlugAssumption DEF Init, ServerStarted, Placed, Live
<1> QED BY <1>1 DEF Init, ServerStarted, FitInv, OneFit

\* The invariant everything below rests on.
LEMMA Invariant == Spec => []IInv
<1>1. Init => IInv
  BY InitType, InitRow, InitFit DEF IInv
<1>2. IInv /\ [Next]_vars => IInv'
  BY NextType, LockNext, RowNext, FitNext DEF IInv
<1> QED BY <1>1, <1>2, PTL DEF Spec

\* The positions that any two current profiles show come from one fit, whatever the
\* order of uploads, recomputes and deletes and whatever fails.
THEOREM FitsComparable == Spec => []OneFit
<1> QED BY Invariant, PTL DEF IInv

\* _UMAP_LOCK, the foreign keys and the row locks, together the invariant FitInv.
THEOREM FitCovers == Spec => []FitInv
<1> QED BY Invariant, PTL DEF IInv

-----------------------------------------------------------------------------
(* The refinement. *)

\* The commit of a fit publishes it for the authors it has UPDATEd.
LEMMA CommitPublishes ==
  ASSUME TypeOK, RowInv, FitInv, NEW t \in Tasks, CommitProfiles(t)
  PROVE  ScatterView!Publish(t, Moved(t))
<1>1. ASSUME NEW u \in Uuids
      PROVE  /\ u \in Moved(t) => ShownFit'[u] = t
             /\ u \notin Moved(t) => ShownFit[u] = NoTask /\ ShownFit'[u] = NoTask
  <2>1. CASE u \in Moved(t)
    BY <2>1, CommitPlaces DEF ShownFit
  <2>2. CASE u \notin Moved(t)
    <3>1. /\ u \notin Placed
          /\ HasProfile(u)' <=> HasProfile(u)
          /\ HasProfile(u) => Current(u)'.json.fit = Current(u).json.fit
      BY <2>2, CommitPlaces
    <3>2. HasProfile(u) => u \in Live
      BY DEF RowInv, HasProfile
    <3>3. ShownFit[u] = NoTask
      BY <3>1, <3>2 DEF ShownFit, Placed
    <3>4. ShownFit'[u] = ShownFit[u]
      BY <3>1 DEF ShownFit
    <3> QED BY <2>2, <3>3, <3>4
  <2> QED BY <2>1, <2>2
<1>2. ShownFit' = [u \in Uuids |-> IF u \in Moved(t) THEN t ELSE NoTask]
  BY <1>1 DEF ShownFit
<1> QED
  BY <1>1, <1>2 DEF ScatterView!Publish

\* Every other step shows nobody anew: one author at most loses its position.
LEMMA OthersUnplace ==
  ASSUME TypeOK, RowInv, [Next]_vars, \A t \in Tasks : ~CommitProfiles(t)
  PROVE  ShownFit' = ShownFit \/ \E u \in Uuids : ScatterView!Unplace(u)
<1> DEFINE Same == profiles' = profiles
<1>1. profiles \in [Uuids -> Seq(Row)]
  BY DEF TypeOK
<1>2. Same => ShownFit' = ShownFit
  BY DEF ShownFit, HasProfile, Current
<1>3. ASSUME NEW a \in Uuids, NEW rows \in Seq(Row), profiles' = [profiles EXCEPT ![a] = rows],
             rows # <<>> => rows[Len(rows)].json.fit = NoTask
      PROVE  ScatterView!Unplace(a)
  <2>1. profiles'[a] = rows /\ \A u \in Uuids \ {a} : profiles'[u] = profiles[u]
    BY <1>1, <1>3
  <2>2. ShownFit'[a] = NoTask
    BY <1>3, <2>1 DEF ShownFit, HasProfile, Current
  <2>3. \A u \in Uuids \ {a} : ShownFit'[u] = ShownFit[u]
    BY <2>1 DEF ShownFit, HasProfile, Current
  <2>4. ShownFit' = [ShownFit EXCEPT ![a] = NoTask]
    BY <2>2, <2>3 DEF ShownFit
  <2> QED BY <2>4 DEF ScatterView!Unplace
<1>4. ASSUME FinishDelete PROVE \E u \in Uuids : ScatterView!Unplace(u)
  <2>1. PICK a \in Uuids : profiles' = [profiles EXCEPT ![a] = <<>>]
    BY <1>4 DEF FinishDelete, Cascade, TypeOK
  <2>2. <<>> \in Seq(Row)
    OBVIOUS
  <2> QED BY <1>3, <2>1, <2>2
<1>5. ASSUME NEW t \in Tasks, InsertProfile(t)
      PROVE  Same \/ \E u \in Uuids : ScatterView!Unplace(u)
  <2>1. SUFFICES ASSUME ~Same PROVE \E u \in Uuids : ScatterView!Unplace(u)
    OBVIOUS
  <2>2. PICK a \in Uuids : profiles' = [profiles EXCEPT ![a] = Append(profiles[a], NewRow(t))]
    BY <1>5, <2>1 DEF InsertProfile, Live
  <2> DEFINE rows == Append(profiles[a], NewRow(t))
  <2>3. NewRow(t) \in Row /\ NewRow(t).json.fit = NoTask
    BY DEF NewRow, Row, Json, Fit, TypeOK
  <2>4. rows \in Seq(Row) /\ rows[Len(rows)] = NewRow(t)
    BY <1>1, <2>3
  <2>5. profiles' = [profiles EXCEPT ![a] = rows]
    BY <2>2
  <2> HIDE DEF rows
  <2> QED BY <1>3, <2>3, <2>4, <2>5
<1>6. \/ Same
      \/ FinishDelete
      \/ \E t \in Tasks : InsertProfile(t)
  <2>1. UNCHANGED vars => Same
    BY DEF vars, db
  <2>2. Fault => Same
    BY DEF Fault, ChunkInsertFails, EmbeddingFails, ProfileFails, UmapFails, DeleteFails, Crash, db
  <2>3. Request => Same \/ FinishDelete
    BY DEF Request, BeginUpload, FinishUpload, RejectUpload, Recompute, BeginDelete, db
  <2>4. ASSUME NEW t \in Tasks, TaskStep(t) PROVE Same \/ InsertProfile(t)
    BY <2>4 DEF TaskStep, UmapStep, ChunkDocument, EmbedChunk, ReadDocuments, AcquireLock,
                FetchEmbeddings, SaveCoords, UpdateProfile, db
  <2> HIDE DEF Same
  <2> QED BY <2>1, <2>2, <2>3, <2>4 DEF Next, ReliableNext
<1> HIDE DEF Same
<1> QED BY <1>2, <1>4, <1>5, <1>6

\* Corpus implements Scatter: whatever happens, the positions of a fit appear all at once,
\* and no author is left behind at a position of an earlier one.
THEOREM ScatterImplemented == Spec => ScatterSpec
<1>1. Init => ScatterView!Init
  <2>1. Init => \A u \in Uuids : ~HasProfile(u)
    BY DEF Init, ServerStarted, HasProfile
  <2> QED BY <2>1 DEF ShownFit, ScatterView!Init
<1>2. IInv /\ [Next]_vars => [ScatterView!Next]_ShownFit
  <2> SUFFICES ASSUME IInv, [Next]_vars PROVE [ScatterView!Next]_ShownFit
    OBVIOUS
  <2>1. CASE \E t \in Tasks : CommitProfiles(t)
    <3>1. PICK t \in Tasks : CommitProfiles(t)
      BY <2>1
    <3>2. Moved(t) \in SUBSET Uuids
      BY DEF Moved
    <3>3. ScatterView!Publish(t, Moved(t))
      BY <3>1, CommitPublishes DEF IInv
    <3> QED BY <3>2, <3>3 DEF ScatterView!Next
  <2>2. CASE \A t \in Tasks : ~CommitProfiles(t)
    BY <2>2, OthersUnplace DEF IInv, ScatterView!Next
  <2> QED BY <2>1, <2>2
<1> QED
  BY <1>1, <1>2, Invariant, PTL DEF Spec, ScatterSpec, ScatterView!Spec
=============================================================================
