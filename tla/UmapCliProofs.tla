--------------------------- MODULE UmapCliProofs ---------------------------
(***************************************************************************)
(* Proofs about UmapCli, for any corpus that was seeded, any number of     *)
(* runs of the script and any sets of slugs, ids and tasks.                *)
(***************************************************************************)
EXTENDS UmapCli, FitProofs, FiniteSetTheorems

-----------------------------------------------------------------------------
(* Places. *)

\* Among finitely many authors one has the greatest place.
LEMMA GreatestPlace ==
  ASSUME NEW W \in SUBSET Uuids, W # {}
  PROVE  \E u \in W : \A v \in W : ~(Place[u] < Place[v])
<1> DEFINE Above(u) == {w \in Uuids : Place[u] < Place[w]}
           Aboves == {Above(u) : u \in W}
           R == StrictSubsetOrdering(Uuids)
<1>1. \A u \in Uuids : Place[u] \in Nat
  BY RunAssumption
<1>2. \A u \in W : Above(u) \in FiniteSubsetsOf(Uuids)
  BY FiniteAssumption, FS_FiniteSubsetsOfFinite
<1>3. IsWellFoundedOn(R, FiniteSubsetsOf(Uuids))
  BY FS_StrictSubsetOrderingWellFounded
<1>4. Aboves \subseteq FiniteSubsetsOf(Uuids) /\ Aboves # {}
  BY <1>2
<1> HIDE DEF R
<1>5. PICK A \in Aboves : \A B \in Aboves : ~(<<B, A>> \in R)
  <2> HIDE DEF Aboves
  <2> QED BY <1>3, <1>4, WFMin
<1>6. PICK u \in W : A = Above(u)
  OBVIOUS
<1>7. ASSUME NEW v \in W, Place[u] < Place[v] PROVE FALSE
  <2>1. Above(v) \subseteq Above(u)
    BY <1>1, <1>7
  <2>2. v \in Above(u) /\ v \notin Above(v)
    BY <1>1, <1>7
  <2>3. <<Above(v), A>> \in R
    BY <1>6, <2>1, <2>2 DEF R, StrictSubsetOrdering
  <2> QED BY <1>5, <2>3
<1> QED BY <1>7

-----------------------------------------------------------------------------
(* Type correctness. *)

ScriptsTypeOK == scripts \subseteq Tasks /\ alone \in Tasks \cup {NoTask}

\* A seeded corpus.
LEMMA CliInitType == CliInit => TypeOK /\ ScriptsTypeOK
<1> SUFFICES ASSUME CliInit PROVE TypeOK /\ ScriptsTypeOK
  OBVIOUS
<1>1. PICK seeding \in Seedings : owner = seeding
  BY DEF CliInit
<1>2. owner \in [Docs -> Uuids \cup {NoUuid}]
  BY <1>1, SeedAssumption
<1>3. \A u \in Uuids : DocsOf(u) # {} => SlugOf[u] \in Slugs
  <2>1. SUFFICES ASSUME NEW u \in Uuids, DocsOf(u) # {} PROVE SlugOf[u] \in Slugs
    OBVIOUS
  <2>2. u \in Range(owner) \ {NoUuid}
    BY <1>2, <2>1, IdAssumption DEF DocsOf, Range
  <2> QED BY <1>1, <2>2, SeedAssumption
<1>4. author \in [Uuids -> Slugs \cup {Unused, Deleted}]
  BY <1>3 DEF CliInit
<1>5. /\ chunks \in [Docs -> Nat] /\ embedded \in [Docs -> Nat]
      /\ \A d \in Docs : embedded[d] <= chunks[d] /\ chunks[d] <= ChunkCount[d]
  BY ChunkAssumption DEF CliInit
<1>6. profiles \in [Uuids -> Seq(Row)]
  <2>1. \A u \in Uuids : SeededRow(u) \in Row
    BY DEF SeededRow, Row, Json, Fit, DocsOf
  <2>2. \A u \in Uuids : <<SeededRow(u)>> \in Seq(Row) /\ <<>> \in Seq(Row)
    BY <2>1
  <2> HIDE DEF SeededRow
  <2>3. profiles = [u \in Uuids |-> IF DocsOf(u) # {} THEN <<SeededRow(u)>> ELSE <<>>]
    BY DEF CliInit
  <2> QED BY <2>2, <2>3
<1>7. NothingHeld \in [Uuids -> Nat]
  BY DEF NothingHeld
<1>8. coords \in [Uuids -> Fit] /\ ScriptsTypeOK
  BY DEF CliInit, Fit, ScriptsTypeOK
<1> QED
  BY <1>2, <1>4, <1>5, <1>6, <1>7, <1>8 DEF CliInit, ServerStarted, TypeOK, Pcs

\* A run of the script keeps the types.
LEMMA CliStepType == ASSUME TypeOK, NEW t \in Tasks, CliStep(t) PROVE TypeOK'
<1>1. CASE CliFetch(t)
  <2>1. EmbeddedAuthors \subseteq Uuids
    BY DEF EmbeddedAuthors
  <2>2. pc' \in [Tasks -> Pcs] /\ fitted' \in [Tasks -> SUBSET Uuids]
    BY <1>1, <2>1 DEF CliFetch, Goto, TypeOK, Pcs, UmapPcs
  <2> QED BY <1>1, <2>2 DEF CliFetch, TypeOK, db, server
<1>2. CASE CliSave(t)
  BY <1>2, TaskType DEF CliSave, TaskStep, UmapStep
<1>3. ASSUME NEW u \in Uuids, UpdateProfile(t, u) PROVE TypeOK'
  BY <1>3, TaskType DEF TaskStep, UmapStep
<1>4. CASE CliCommit(t)
  BY <1>4, PatchType DEF TypeOK, CliCommit, Goto, EndFit, NothingHeld, Fit, Pcs, corpus, server
<1> QED BY <1>1, <1>2, <1>3, <1>4 DEF CliStep

LEMMA CliNextType ==
  ASSUME TypeOK, ScriptsTypeOK, [CliNext]_cvars PROVE TypeOK' /\ ScriptsTypeOK'
<1>1. ASSUME NEW t \in Tasks, RunCli(t) PROVE TypeOK' /\ ScriptsTypeOK'
  BY <1>1 DEF RunCli, TypeOK, ScriptsTypeOK, Pcs, UmapPcs, db, server, locals, fitLocals
<1>2. ASSUME NEW t \in Tasks, Script(t) PROVE TypeOK' /\ ScriptsTypeOK'
  BY <1>2, CliStepType DEF Script, ScriptsTypeOK
<1>3. ASSUME NEW t \in Tasks, CliDies(t) PROVE TypeOK' /\ ScriptsTypeOK'
  BY <1>3 DEF CliDies, EndFit, NothingHeld, TypeOK, ScriptsTypeOK, Pcs, db, server
<1>4. ASSUME NEW t \in Tasks, ServerTask(t) PROVE TypeOK' /\ ScriptsTypeOK'
  BY <1>4, TaskType DEF ServerTask, Server, ScriptsTypeOK
<1>5. CASE Server(Request)
  BY <1>5, RequestType DEF Server, ScriptsTypeOK
<1>6. CASE UNCHANGED cvars
  BY <1>6 DEF cvars, vars, TypeOK, ScriptsTypeOK, db, server, locals, fitLocals
<1> QED
  BY <1>1, <1>2, <1>3, <1>4, <1>5, <1>6 DEF CliNext, Scripts, ScriptsTypeOK

\* Beside the script, too, every variable keeps its type.
THEOREM CliTypeCorrect == CliSpec => []TypeOK
<1>1. CliInit => TypeOK /\ ScriptsTypeOK
  BY CliInitType
<1>2. TypeOK /\ ScriptsTypeOK /\ [CliNext]_cvars => TypeOK' /\ ScriptsTypeOK'
  BY CliNextType
<1> QED BY <1>1, <1>2, PTL DEF CliSpec

-----------------------------------------------------------------------------
(* The steps of a fit, whichever process makes it, and all others. *)

Fetches(t) ==
  /\ pc[t] = "fetch"
  /\ \/ /\ pc' = [pc EXCEPT ![t] = "save"]
        /\ fitted' = [fitted EXCEPT ![t] = EmbeddedAuthors]
     \/ /\ pc' = [pc EXCEPT ![t] = "done"]
        /\ ~EnoughEmbedded
        /\ UNCHANGED fitted
  /\ UNCHANGED <<db, taskAuthor, taskDoc, read, todo, held>>

Commits(t) ==
  /\ pc[t] = "update" /\ todo[t] = {}
  /\ pc' = [pc EXCEPT ![t] = "done"]
  /\ profiles' = [u \in Uuids |-> Patch(profiles[u], held[t][u], t)]
  /\ EndFit(t)
  /\ UNCHANGED <<corpus, coords, taskAuthor, taskDoc, read>>

FitStep(t) ==
  \/ Fetches(t)
  \/ SaveCoords(t)
  \/ \E u \in Uuids : UpdateProfile(t, u)
  \/ Commits(t)

\* The script's fits and the server's take the same steps.
LEMMA ServerFits ==
  ASSUME NEW t \in Tasks, TaskStep(t)
  PROVE  \/ FitStep(t)
         \/ ~CommitProfiles(t) /\ (ChunkDocument(t) \/ EmbedChunk(t) \/ ReadDocuments(t)
                                     \/ InsertProfile(t) \/ AcquireLock(t))
<1>1. CASE FetchEmbeddings(t)
  BY <1>1 DEF FetchEmbeddings, Goto, FitStep, Fetches
<1>2. CASE CommitProfiles(t)
  BY <1>2 DEF CommitProfiles, Goto, FitStep, Commits
<1>3. CASE SaveCoords(t) \/ \E u \in Uuids : UpdateProfile(t, u)
  BY <1>3 DEF FitStep
<1> QED BY <1>1, <1>2, <1>3 DEF TaskStep, UmapStep

LEMMA ScriptFits == ASSUME NEW t, Script(t) PROVE FitStep(t)
<1>1. CliStep(t) /\ ByAuthorId
  BY DEF Script
<1>2. CASE CliFetch(t)
  BY <1>2 DEF CliFetch, Goto, FitStep, Fetches
<1>3. CASE CliCommit(t)
  BY <1>3 DEF CliCommit, Goto, FitStep, Commits
<1>4. CASE CliSave(t) \/ \E u \in Uuids : UpdateProfile(t, u)
  BY <1>1, <1>4 DEF CliSave, FitStep
<1> QED BY <1>1, <1>2, <1>3, <1>4 DEF CliStep

\* A script that is started or dies leaves the rows and the other fits alone.
LEMMA RunKept ==
  ASSUME TypeOK, ScriptsTypeOK, HeldByUpdating, NEW t \in Tasks, RunCli(t) \/ CliDies(t)
  PROVE  Kept /\ FitsKept
<1>1. /\ pc \in [Tasks -> Pcs]
      /\ fitted \in [Tasks -> SUBSET Uuids]
      /\ todo \in [Tasks -> SUBSET Uuids]
      /\ held \in [Tasks -> [Uuids -> Nat]]
  BY DEF TypeOK
<1>2. Kept
  BY KeptRows DEF RunCli, CliDies, db
<1>3. CASE RunCli(t)
  <2>1. pc' = [pc EXCEPT ![t] = "fetch"] /\ pc[t] = "free" /\ UNCHANGED <<fitted, todo, held>>
    BY <1>3 DEF RunCli, FreeTasks, locals
  <2> QED BY <1>1, <1>2, <2>1 DEF FitsKept, HeldByUpdating
<1>4. CASE CliDies(t)
  <2>1. pc'[t] = "done" /\ held'[t] = NothingHeld
    BY <1>1, <1>4 DEF CliDies, EndFit
  <2>2. \A s \in Tasks \ {t} : /\ pc'[s] = pc[s]
                               /\ fitted'[s] = fitted[s]
                               /\ todo'[s] = todo[s]
                               /\ held'[s] = held[s]
    BY <1>1, <1>4 DEF CliDies, EndFit
  <2> QED BY <1>2, <2>1, <2>2 DEF FitsKept, HeldByUpdating
<1> QED BY <1>3, <1>4

\* Every step belongs to a fit or disturbs none.
LEMMA StepKinds ==
  ASSUME TypeOK, ScriptsTypeOK, RowInv, HeldByUpdating, [CliNext]_cvars
  PROVE  (Kept /\ FitsKept) \/ \E t \in Tasks : FitStep(t) /\ ByAuthorId
<1>1. ASSUME NEW t \in Tasks, RunCli(t) \/ CliDies(t) PROVE Kept /\ FitsKept
  BY <1>1, RunKept
<1>2. ASSUME NEW t \in Tasks, Script(t) PROVE FitStep(t) /\ ByAuthorId
  BY <1>2, ScriptFits DEF Script
<1>3. ASSUME NEW t \in Tasks, ServerTask(t)
      PROVE  (FitStep(t) /\ ByAuthorId) \/ (Kept /\ FitsKept)
  <2>1. TaskStep(t) /\ ByAuthorId
    BY <1>3 DEF ServerTask, Server
  <2>2. CASE ~CommitProfiles(t) /\ (ChunkDocument(t) \/ EmbedChunk(t) \/ ReadDocuments(t)
                                     \/ InsertProfile(t) \/ AcquireLock(t))
    BY <2>1, <2>2, KeptTask, FitsKeptTask
  <2> QED BY <2>1, <2>2, ServerFits
<1>4. CASE Server(Request)
  BY <1>4, KeptRequest, FitsKeptRequest DEF Server
<1>5. CASE UNCHANGED cvars
  <2>1. UNCHANGED <<author, owner, embedded, profiles, pc, fitted, todo, held>>
    BY <1>5 DEF cvars, vars, db, locals
  <2> QED BY <2>1, KeptRows DEF FitsKept, HeldByUpdating
<1> QED BY <1>1, <1>2, <1>3, <1>4, <1>5 DEF CliNext, Scripts, ScriptsTypeOK

-----------------------------------------------------------------------------
(* The rows. *)

\* Seeded profiles are of the author's own documents.
LEMMA CliInitRow == CliInit => RowInv
<1> SUFFICES ASSUME CliInit PROVE RowInv
  OBVIOUS
<1>1. TypeOK
  BY CliInitType
<1>2. \A u \in Uuids : u \in Live <=> DocsOf(u) # {}
  <2>1. PICK seeding \in Seedings : owner = seeding
    BY DEF CliInit
  <2>2. \A u \in Uuids : author[u] = IF DocsOf(u) # {} THEN SlugOf[u] ELSE Unused
    BY DEF CliInit
  <2>3. ASSUME NEW u \in Uuids, DocsOf(u) # {} PROVE SlugOf[u] \in Slugs
    <3>1. u \in Range(owner) \ {NoUuid}
      BY <1>1, <2>3, IdAssumption DEF DocsOf, Range, TypeOK
    <3> QED BY <2>1, <3>1, SeedAssumption
  <2> QED BY <2>2, <2>3, SlugAssumption DEF Live
<1>3. \A u \in Uuids : profiles[u] = IF DocsOf(u) # {} THEN <<SeededRow(u)>> ELSE <<>>
  BY DEF CliInit
<1>4. \A u \in Uuids \ Live : DocsOf(u) = {} /\ profiles[u] = <<>>
  BY <1>2, <1>3
<1>5. \A d \in Docs : ~Stored(d) => chunks[d] = 0
  BY DEF CliInit
<1>6. ASSUME NEW u \in Live, NEW i \in DOMAIN profiles[u]
      PROVE  profiles[u][i].json.docs \subseteq DocsOf(u)
  <2>1. profiles[u] = <<SeededRow(u)>>
    BY <1>2, <1>3 DEF Live
  <2>2. i = 1 /\ profiles[u][1] = SeededRow(u)
    BY <2>1, <1>6
  <2> QED BY <2>2 DEF SeededRow
<1>7. \A t \in Tasks : pc[t] = "free" /\ taskAuthor[t] = NoUuid
  BY DEF CliInit, ServerStarted
<1> QED BY <1>4, <1>5, <1>6, <1>7, IdAssumption DEF RowInv

LEMMA CliRow == ASSUME TypeOK, ScriptsTypeOK, RowInv, [CliNext]_cvars PROVE RowInv'
<1>1. pc \in [Tasks -> Pcs]
  BY DEF TypeOK
<1>2. ASSUME NEW t \in Tasks, FitStep(t) PROVE RowInv'
  <2>1. /\ UNCHANGED <<author, owner, chunks, taskAuthor, read>>
        /\ \A s \in Tasks : pc'[s] = "insert" => pc[s] = "insert"
    BY <1>1, <1>2 DEF FitStep, Fetches, SaveCoords, UpdateProfile, Commits, Goto, db, corpus
  <2>2. \/ profiles' = profiles
        \/ profiles' = [u \in Uuids |-> Patch(profiles[u], held[t][u], t)]
    BY <1>2 DEF FitStep, Fetches, SaveCoords, UpdateProfile, Commits, db
  <2> QED BY <2>1, <2>2, RowFrame, RowPatched
<1>3. ASSUME NEW t \in Tasks, RunCli(t) \/ CliDies(t) PROVE RowInv'
  <2>1. /\ UNCHANGED <<author, owner, chunks, profiles, taskAuthor, read>>
        /\ \A s \in Tasks : pc'[s] = "insert" => pc[s] = "insert"
    BY <1>1, <1>3 DEF RunCli, CliDies, db, locals
  <2> QED BY <2>1, RowFrame
<1>4. ASSUME NEW t \in Tasks, ServerTask(t) PROVE RowInv'
  BY <1>4, RowTask DEF ServerTask, Server
<1>5. CASE Server(Request)
  BY <1>5, RowRequest DEF Server
<1>6. CASE UNCHANGED cvars
  BY <1>6, RowFrame DEF cvars, vars, db, locals
<1> QED
  BY <1>2, <1>3, <1>4, <1>5, <1>6, ScriptFits DEF CliNext, Scripts, ScriptsTypeOK

-----------------------------------------------------------------------------
(* One order of locking. *)

\* A fit locks its rows upwards.
LEMMA OrderStep ==
  ASSUME TypeOK, OrderInv, NEW t \in Tasks, FitStep(t), ByAuthorId PROVE OrderInv'
<1>1. /\ pc \in [Tasks -> Pcs]
      /\ todo \in [Tasks -> SUBSET Uuids]
      /\ held \in [Tasks -> [Uuids -> Nat]]
  BY DEF TypeOK
<1>2. \A s \in Tasks \ {t} : pc'[s] = pc[s] /\ todo'[s] = todo[s] /\ held'[s] = held[s]
  BY <1>1 DEF FitStep, Fetches, SaveCoords, UpdateProfile, Commits, EndFit, Goto
<1>3. pc'[t] # "update" => held'[t] = NothingHeld
  BY <1>1 DEF FitStep, Fetches, SaveCoords, UpdateProfile, Commits, EndFit, Goto, OrderInv
<1>4. ASSUME NEW u \in Uuids, NEW v \in Uuids, held'[t][u] # 0, v \in todo'[t]
      PROVE  Place[u] < Place[v]
  <2>1. CASE Fetches(t) \/ SaveCoords(t)
    <3>1. held'[t] = NothingHeld
      BY <2>1 DEF Fetches, SaveCoords, Goto, OrderInv
    <3> QED BY <1>4, <3>1 DEF NothingHeld
  <2>2. CASE Commits(t)
    BY <1>1, <1>4, <2>2 DEF Commits, EndFit
  <2>3. CASE \E w \in Uuids : UpdateProfile(t, w)
    <3>1. PICK w \in Uuids : UpdateProfile(t, w)
      BY <2>3
    <3>2. /\ w \in todo[t] /\ todo'[t] = todo[t] \ {w}
          /\ u # w => held'[t][u] = held[t][u]
      BY <1>1, <3>1 DEF UpdateProfile
    <3>3. CASE u = w
      BY <1>4, <3>1, <3>2, <3>3 DEF ByAuthorId
    <3>4. CASE u # w
      BY <1>4, <3>2, <3>4 DEF OrderInv
    <3> QED BY <3>3, <3>4
  <2> QED BY <2>1, <2>2, <2>3 DEF FitStep
<1> QED BY <1>2, <1>3, <1>4 DEF OrderInv

LEMMA OrderNext ==
  ASSUME TypeOK, ScriptsTypeOK, RowInv, OrderInv, [CliNext]_cvars PROVE OrderInv'
<1>1. HeldByUpdating
  BY DEF HeldByUpdating, OrderInv
<1>2. CASE FitsKept
  BY <1>2 DEF FitsKept, OrderInv, NothingHeld
<1> QED BY <1>1, <1>2, StepKinds, OrderStep

LEMMA CliInitOrder == CliInit => OrderInv
<1> QED BY DEF CliInit, ServerStarted, OrderInv

LEMMA CliOrder == CliSpec => [](TypeOK /\ ScriptsTypeOK /\ RowInv /\ OrderInv)
<1>1. CliInit => TypeOK /\ ScriptsTypeOK /\ RowInv /\ OrderInv
  BY CliInitType, CliInitRow, CliInitOrder
<1>2. TypeOK /\ ScriptsTypeOK /\ RowInv /\ OrderInv /\ [CliNext]_cvars =>
        (TypeOK /\ ScriptsTypeOK /\ RowInv /\ OrderInv)'
  BY CliNextType, CliRow, OrderNext
<1> QED BY <1>1, <1>2, PTL DEF CliSpec

\* The fit that waits for the row of the greatest place waits for one that can go on:
\* fits of the script and of the server never wait for each other in a circle.
THEOREM NeverCircular == CliSpec => []NoCircularWait
<1>1. ASSUME TypeOK, OrderInv PROVE NoCircularWait
  <2> DEFINE W == UNION {todo[t] : t \in {s \in Tasks : pc[s] = "update"}}
  <2>1. SUFFICES ASSUME NEW r \in Tasks, pc[r] = "update",
                        \A t \in Tasks : pc[t] = "update" => Waits(t)
                 PROVE  FALSE
    BY DEF NoCircularWait
  <2>2. /\ todo \in [Tasks -> SUBSET Uuids]
        /\ held \in [Tasks -> [Uuids -> Nat]]
    BY <1>1 DEF TypeOK
  <2>3. W \subseteq Uuids
    BY <2>2
  <2>4. todo[r] # {} /\ todo[r] \subseteq W
    BY <2>1 DEF Waits
  <2>5. PICK u \in W : \A v \in W : ~(Place[u] < Place[v])
    <3> HIDE DEF W
    <3> QED BY <2>3, <2>4, GreatestPlace
  <2>6. PICK t \in Tasks : pc[t] = "update" /\ u \in todo[t]
    OBVIOUS
  <2>7. PICK s \in Tasks : held[s][u] # 0
    BY <2>1, <2>6 DEF Waits
  <2>8. u \in Uuids
    BY <2>3
  <2>9. pc[s] = "update"
    BY <1>1, <2>7, <2>8 DEF OrderInv, NothingHeld
  <2>10. PICK v \in todo[s] : TRUE
    BY <2>1, <2>9 DEF Waits
  <2>11. Place[u] < Place[v] /\ v \in W
    BY <1>1, <2>2, <2>7, <2>8, <2>9 DEF OrderInv
  <2> QED BY <2>5, <2>11
<1> QED BY <1>1, CliOrder, PTL

-----------------------------------------------------------------------------
(* Fits that overlap. *)

\* Steps outside the fits.
LEMMA ApartFrame ==
  ASSUME TypeOK, TypeOK', ApartInv, Kept, FitsKept PROVE ApartInv'
<1>1. Placed' \subseteq EmbeddedAuthors'
  BY DEF Kept, ApartInv, Placed
<1>2. ASSUME NEW t \in Tasks, pc'[t] \in {"save", "update"}, NEW u \in fitted'[t]
      PROVE  author'[u] # Unused /\ (u \in Live' => u \in EmbeddedAuthors')
  <2>1. pc[t] \in {"save", "update"} /\ fitted'[t] = fitted[t]
    BY <1>2 DEF FitsKept
  <2>2. author[u] # Unused /\ (u \in Live => u \in EmbeddedAuthors) /\ u \in Uuids
    BY <1>2, <2>1 DEF ApartInv, TypeOK
  <2> QED BY <2>2 DEF Kept
<1>3. ASSUME NEW t \in Tasks, pc'[t] = "update"
      PROVE  /\ todo'[t] \subseteq fitted'[t]
             /\ \A u \in Uuids :
                  held'[t][u] <= Len(profiles'[u]) /\ (held'[t][u] # 0 => u \in fitted'[t])
  <2>1. pc[t] = "update" /\ UNCHANGED <<fitted[t], todo[t], held[t]>>
    BY <1>3 DEF FitsKept
  <2>2. ASSUME NEW u \in Uuids
        PROVE  held[t][u] <= Len(profiles'[u]) /\ (held[t][u] # 0 => u \in fitted[t])
    <3>1. held[t][u] <= Len(profiles[u]) /\ (held[t][u] # 0 => u \in fitted[t])
      BY <2>1 DEF ApartInv
    <3>2. profiles[u] \in Seq(Row) /\ held[t][u] \in Nat
      BY DEF TypeOK
    <3>3. held[t][u] # 0 => Len(profiles[u]) <= Len(profiles'[u])
      BY DEF Kept, RowLocked
    <3>4. Len(profiles'[u]) \in Nat
      BY DEF TypeOK
    <3> QED BY <3>1, <3>2, <3>3, <3>4
  <2> QED BY <2>1, <2>2 DEF ApartInv
<1> QED BY <1>1, <1>2, <1>3 DEF ApartInv

\* Nobody but live authors has embedded chunks.
LEMMA EmbeddedLive == ASSUME RowInv, NEW u \in EmbeddedAuthors PROVE u \in Live
<1> QED BY DEF RowInv, EmbeddedAuthors

\* What the steps of a fit leave alone: the corpus, and which row is the latest.
LEMMA FitStepCorpus ==
  ASSUME TypeOK, NEW t \in Tasks, FitStep(t)
  PROVE  /\ UNCHANGED <<author, owner, chunks, embedded, taskAuthor, taskDoc, read>>
         /\ Live' = Live /\ EmbeddedAuthors' = EmbeddedAuthors /\ EnoughEmbedded' = EnoughEmbedded
         /\ \A u \in Uuids : Len(profiles'[u]) = Len(profiles[u])
         /\ \A u \in Uuids : HasProfile(u)' <=> HasProfile(u)
         /\ ~Commits(t) => profiles' = profiles
<1>1. UNCHANGED <<author, owner, chunks, embedded, taskAuthor, taskDoc, read>>
  BY DEF FitStep, Fetches, SaveCoords, UpdateProfile, Commits, db, corpus
<1>2. Live' = Live /\ EmbeddedAuthors' = EmbeddedAuthors /\ EnoughEmbedded' = EnoughEmbedded
  BY <1>1 DEF Live, EmbeddedAuthors, DocsOf, EnoughEmbedded, TotalEmbedded
<1>3. ~Commits(t) => profiles' = profiles
  BY DEF FitStep, Fetches, SaveCoords, UpdateProfile, db
<1>4. Commits(t) => profiles' = [u \in Uuids |-> Patch(profiles[u], held[t][u], t)]
  BY DEF Commits
<1>5. \A u \in Uuids : Len(profiles'[u]) = Len(profiles[u]) /\ (HasProfile(u)' <=> HasProfile(u))
  BY <1>3, <1>4, PatchPlaces DEF HasProfile
<1> QED BY <1>1, <1>2, <1>3, <1>5

\* And the variables of other tasks.
LEMMA FitStepOthers ==
  ASSUME TypeOK, NEW t \in Tasks, FitStep(t), NEW s \in Tasks \ {t}
  PROVE  pc'[s] = pc[s] /\ fitted'[s] = fitted[s] /\ todo'[s] = todo[s] /\ held'[s] = held[s]
<1>1. /\ pc \in [Tasks -> Pcs]
      /\ fitted \in [Tasks -> SUBSET Uuids]
      /\ todo \in [Tasks -> SUBSET Uuids]
      /\ held \in [Tasks -> [Uuids -> Nat]]
  BY DEF TypeOK
<1> QED BY <1>1 DEF FitStep, Fetches, SaveCoords, UpdateProfile, Commits, EndFit, Goto

\* A commit shows the fit for the authors it has UPDATEd, the rest keep what they have.
LEMMA CommitsPlace ==
  ASSUME TypeOK, ApartInv, NEW t \in Tasks, Commits(t)
  PROVE  Placed' \subseteq EmbeddedAuthors
<1> SUFFICES ASSUME NEW u \in Placed', u \notin Placed PROVE u \in EmbeddedAuthors
  BY DEF ApartInv
<1>1. profiles' = [v \in Uuids |-> Patch(profiles[v], held[t][v], t)]
  BY DEF Commits
<1>2. u \in Live /\ u \in Uuids /\ HasProfile(u)' /\ Current(u)'.json.fit # NoTask
  BY DEF Commits, corpus, Placed, Live
<1>3. u \in Moved(t)
  BY <1>1, <1>2, PatchPlaces DEF Placed
<1>4. u \in fitted[t] /\ pc[t] = "update"
  BY <1>3 DEF Moved, ApartInv, Commits
<1> QED BY <1>2, <1>4 DEF ApartInv

LEMMA ApartStep ==
  ASSUME TypeOK, RowInv, OrderInv, ApartInv, NEW t \in Tasks, FitStep(t) PROVE ApartInv'
<1>1. /\ pc \in [Tasks -> Pcs]
      /\ fitted \in [Tasks -> SUBSET Uuids]
      /\ todo \in [Tasks -> SUBSET Uuids]
      /\ held \in [Tasks -> [Uuids -> Nat]]
      /\ \A u \in Uuids : Len(profiles[u]) \in Nat
  BY DEF TypeOK
<1>2. Placed' \subseteq EmbeddedAuthors
  <2>1. CASE Commits(t)
    BY <2>1, CommitsPlace
  <2>2. CASE ~Commits(t)
    <3>1. profiles' = profiles /\ Live' = Live
      BY <2>2, FitStepCorpus
    <3> QED BY <3>1 DEF Placed, HasProfile, Current, ApartInv
  <2> QED BY <2>1, <2>2
<1>3. ASSUME NEW s \in Tasks, pc'[s] \in {"save", "update"}, NEW u \in fitted'[s]
      PROVE  author[u] # Unused /\ (u \in Live => u \in EmbeddedAuthors)
  <2>1. CASE pc[s] \in {"save", "update"} /\ fitted'[s] = fitted[s]
    BY <1>3, <2>1 DEF ApartInv
  <2>2. CASE fitted'[s] = EmbeddedAuthors
    BY <1>3, <2>2, EmbeddedLive, SlugAssumption DEF Live
  <2>3. \/ pc[s] \in {"save", "update"} /\ fitted'[s] = fitted[s]
        \/ fitted'[s] = EmbeddedAuthors
    <3>1. CASE s = t
      BY <1>1, <1>3, <3>1 DEF FitStep, Fetches, SaveCoords, UpdateProfile, Commits, Goto
    <3>2. CASE s # t
      BY <1>3, <3>2, FitStepOthers
    <3> QED BY <3>1, <3>2
  <2> QED BY <2>1, <2>2, <2>3
<1>4. ASSUME NEW s \in Tasks, pc'[s] = "update"
      PROVE  /\ todo'[s] \subseteq fitted'[s]
             /\ \A u \in Uuids :
                  held'[s][u] <= Len(profiles[u]) /\ (held'[s][u] # 0 => u \in fitted'[s])
  <2>1. CASE s # t
    BY <1>4, <2>1, FitStepOthers DEF ApartInv
  <2>2. CASE s = t /\ SaveCoords(t)
    <3>1. held'[s] = NothingHeld /\ todo'[s] = fitted'[s]
      BY <1>1, <2>2 DEF SaveCoords, Goto, OrderInv
    <3> QED BY <1>1, <3>1 DEF NothingHeld
  <2>3. CASE s = t /\ \E a \in Uuids : UpdateProfile(t, a)
    <3>1. PICK a \in Uuids : UpdateProfile(t, a)
      BY <2>3
    <3>2. /\ pc[t] = "update" /\ fitted'[t] = fitted[t] /\ todo'[t] = todo[t] \ {a}
          /\ a \in todo[t]
          /\ held'[t][a] = Len(profiles[a])
          /\ \A u \in Uuids \ {a} : held'[t][u] = held[t][u]
      BY <1>1, <3>1 DEF UpdateProfile
    <3>3. /\ todo[t] \subseteq fitted[t]
          /\ \A u \in Uuids :
               held[t][u] <= Len(profiles[u]) /\ (held[t][u] # 0 => u \in fitted[t])
      BY <3>2 DEF ApartInv
    <3>4. ASSUME NEW u \in Uuids
          PROVE  held'[t][u] <= Len(profiles[u]) /\ (held'[t][u] # 0 => u \in fitted[t])
      <4>1. CASE u = a
        BY <1>1, <3>2, <3>3, <4>1
      <4>2. CASE u # a
        BY <3>2, <3>3, <4>2
      <4> QED BY <4>1, <4>2
    <3>5. todo[t] \ {a} \subseteq fitted[t]
      BY <3>3
    <3> QED BY <2>3, <3>2, <3>4, <3>5
  <2>4. CASE s = t /\ (Fetches(t) \/ Commits(t))
    BY <1>1, <1>4, <2>4 DEF Fetches, Commits
  <2> QED BY <2>1, <2>2, <2>3, <2>4 DEF FitStep
<1> QED BY <1>2, <1>3, <1>4, FitStepCorpus DEF ApartInv

LEMMA ApartNext ==
  ASSUME TypeOK, ScriptsTypeOK, RowInv, OrderInv, ApartInv, [CliNext]_cvars PROVE ApartInv'
<1>1. HeldByUpdating
  BY DEF HeldByUpdating, OrderInv
<1> QED BY <1>1, StepKinds, CliNextType, ApartFrame, ApartStep

\* The profiles that were seeded are placeholders.
LEMMA NobodyPlaced == CliInit => Placed = {}
<1> SUFFICES ASSUME CliInit, NEW u \in Uuids, HasProfile(u) PROVE Current(u).json.fit = NoTask
  BY DEF Placed, Live
<1>1. profiles[u] = <<SeededRow(u)>>
  BY DEF CliInit, HasProfile
<1>2. Current(u) = SeededRow(u)
  BY <1>1 DEF Current
<1> QED BY <1>2 DEF SeededRow

LEMMA CliInitApart == CliInit => ApartInv
<1> SUFFICES ASSUME CliInit PROVE ApartInv
  OBVIOUS
<1>1. Placed = {}
  BY NobodyPlaced
<1> QED BY <1>1 DEF CliInit, ServerStarted, ApartInv

-----------------------------------------------------------------------------
(* Fits that nothing overtakes. *)

\* What a task's fit covers depends on the corpus, on which rows are the latest, and on
\* the task itself.
LEMMA CoversKept ==
  ASSUME NEW t \in Tasks, Covers(t), EmbeddedAuthors' = EmbeddedAuthors,
         \A u \in Uuids : Len(profiles'[u]) = Len(profiles[u]),
         pc'[t] \in {"save", "update"} =>
           /\ pc'[t] = pc[t] /\ fitted'[t] = fitted[t]
           /\ todo'[t] = todo[t] /\ held'[t] = held[t]
  PROVE  Covers(t)'
<1>1. EmbeddedAuthors \subseteq Uuids
  BY DEF EmbeddedAuthors
<1> HIDE DEF EmbeddedAuthors
<1> QED BY <1>1 DEF Covers

\* The steps of the fit: it takes in the corpus at its fetch and UPDATEs the latest rows.
LEMMA CoversStep ==
  ASSUME TypeOK, NEW t \in Tasks, FitStep(t), Covers(t) PROVE Covers(t)'
<1>1. /\ pc \in [Tasks -> Pcs]
      /\ fitted \in [Tasks -> SUBSET Uuids]
      /\ todo \in [Tasks -> SUBSET Uuids]
      /\ held \in [Tasks -> [Uuids -> Nat]]
  BY DEF TypeOK
<1>2. /\ EmbeddedAuthors' = EmbeddedAuthors
      /\ \A u \in Uuids : Len(profiles'[u]) = Len(profiles[u])
  BY FitStepCorpus
<1>3. EmbeddedAuthors \subseteq Uuids
  BY DEF EmbeddedAuthors
<1> HIDE DEF EmbeddedAuthors
<1>4. CASE Fetches(t)
  <2>1. pc'[t] # "update" /\ (pc'[t] = "save" => fitted'[t] = EmbeddedAuthors)
    BY <1>1, <1>4 DEF Fetches
  <2> QED BY <1>2, <2>1 DEF Covers
<1>5. CASE SaveCoords(t)
  <2>1. pc[t] = "save" /\ fitted'[t] = fitted[t] /\ todo'[t] = fitted[t]
    BY <1>1, <1>5 DEF SaveCoords, Goto
  <2> QED BY <1>2, <2>1 DEF Covers
<1>6. ASSUME NEW a \in Uuids, UpdateProfile(t, a) PROVE Covers(t)'
  <2>1. /\ pc[t] = "update" /\ pc'[t] = pc[t] /\ fitted'[t] = fitted[t]
        /\ todo'[t] = todo[t] \ {a}
        /\ held'[t][a] = Len(profiles[a])
        /\ \A u \in Uuids \ {a} : held'[t][u] = held[t][u]
    BY <1>1, <1>6 DEF UpdateProfile
  <2>2. /\ fitted[t] = EmbeddedAuthors
        /\ \A u \in EmbeddedAuthors \ todo[t] : held[t][u] = Len(profiles[u])
    BY <2>1 DEF Covers
  <2>3. ASSUME NEW u \in EmbeddedAuthors \ todo'[t] PROVE held'[t][u] = Len(profiles'[u])
    BY <1>2, <1>3, <2>1, <2>2
  <2> QED BY <1>2, <2>1, <2>2, <2>3 DEF Covers
<1>7. CASE Commits(t)
  <2>1. pc'[t] = "done"
    BY <1>1, <1>7 DEF Commits
  <2> QED BY <2>1 DEF Covers
<1> QED BY <1>4, <1>5, <1>6, <1>7 DEF FitStep

\* Its commit leaves every author at its position, and those without one at none.
LEMMA CoveringCommit ==
  ASSUME TypeOK, ApartInv, NEW t \in Tasks, Covers(t), Commits(t),
         NEW u \in Live, HasProfile(u)
  PROVE  Current(u)'.json.fit = Placing(t)[u]
<1>1. /\ pc[t] = "update" /\ todo[t] = {}
      /\ profiles' = [v \in Uuids |-> Patch(profiles[v], held[t][v], t)]
  BY DEF Commits
<1>2. fitted[t] = EmbeddedAuthors /\ u \in Uuids /\ profiles[u] \in Seq(Row)
  BY <1>1 DEF Covers, Live, TypeOK
<1>3. CASE u \in EmbeddedAuthors
  <2>1. held[t][u] = Len(profiles[u])
    BY <1>1, <1>3 DEF Covers
  <2>2. u \in Moved(t)
    BY <1>2, <2>1 DEF Moved, HasProfile
  <2> QED BY <1>1, <1>2, <1>3, <2>2, PatchPlaces DEF Placing
<1>4. CASE u \notin EmbeddedAuthors
  <2>1. u \notin Moved(t)
    BY <1>1, <1>2, <1>4 DEF ApartInv, Moved
  <2>2. u \notin Placed
    BY <1>4 DEF ApartInv
  <2>3. Current(u).json.fit = NoTask
    BY <2>2 DEF Placed
  <2> QED BY <1>1, <1>2, <1>4, <2>1, <2>3, PatchPlaces DEF Placing
<1> QED BY <1>3, <1>4

-----------------------------------------------------------------------------
(* Scripts alone. *)

\* A handler enqueues a task or leaves the tasks and the profiles as they are.
LEMMA RequestKinds ==
  ASSUME Request
  PROVE  \/ UNCHANGED <<pc, locals, owner, chunks, embedded, profiles>>
         \/ \E t \in FreeTasks, start \in {"chunk", "read", UmapStart},
               u \in Uuids \cup {NoUuid}, d \in Docs \cup {NoDoc} : Enqueue(t, start, u, d)
<1>1. ASSUME NEW r \in Reqs, NEW slug \in Slugs, BeginUpload(r, slug)
      PROVE  UNCHANGED <<pc, locals, owner, chunks, embedded, profiles>>
  BY <1>1 DEF BeginUpload, NothingEnqueued
<1>2. ASSUME NEW r \in Reqs, FinishUpload(r)
      PROVE  \E t \in FreeTasks, u \in Uuids, d \in Docs : Enqueue(t, "chunk", u, d)
  BY <1>2 DEF FinishUpload, Live, FreshDocs
<1>3. ASSUME NEW r \in Reqs, RejectUpload(r)
      PROVE  UNCHANGED <<pc, locals, owner, chunks, embedded, profiles>>
  BY <1>3 DEF RejectUpload, NothingEnqueued, db
<1>4. ASSUME NEW slug \in Slugs, Recompute(slug)
      PROVE  \E t \in FreeTasks, u \in Uuids : Enqueue(t, "read", u, NoDoc)
  BY <1>4 DEF Recompute
<1>5. ASSUME NEW slug \in Slugs, BeginDelete(slug)
      PROVE  UNCHANGED <<pc, locals, owner, chunks, embedded, profiles>>
  BY <1>5 DEF BeginDelete, NothingEnqueued, corpus
<1>6. FinishDelete => \E t \in FreeTasks : Enqueue(t, UmapStart, NoUuid, NoDoc)
  BY DEF FinishDelete, EnqueueRecompute
<1> QED BY <1>1, <1>2, <1>3, <1>4, <1>5, <1>6 DEF Request

\* A slot is used once.
LEMMA NeverFreed ==
  ASSUME TypeOK, ScriptsTypeOK, [CliNext]_cvars
  PROVE  \A s \in Tasks : pc'[s] = "free" => pc[s] = "free"
<1>1. pc \in [Tasks -> Pcs]
  BY DEF TypeOK
<1>2. ASSUME NEW t \in Tasks, NEW start, pc' = [pc EXCEPT ![t] = start], start # "free"
      PROVE  \A s \in Tasks : pc'[s] = "free" => pc[s] = "free"
  BY <1>1, <1>2
<1>3. ASSUME NEW t \in Tasks, RunCli(t) \/ CliDies(t)
      PROVE  \E start : start # "free" /\ pc' = [pc EXCEPT ![t] = start]
  BY <1>3 DEF RunCli, CliDies
<1>4. ASSUME NEW t \in Tasks, FitStep(t)
      PROVE  pc' = pc \/ \E start : start # "free" /\ pc' = [pc EXCEPT ![t] = start]
  BY <1>4 DEF FitStep, Fetches, SaveCoords, UpdateProfile, Commits, Goto
<1>5. ASSUME NEW t \in Tasks, TaskStep(t)
      PROVE  pc' = pc \/ \E start : start # "free" /\ pc' = [pc EXCEPT ![t] = start]
  BY <1>5 DEF TaskStep, UmapStep, ChunkDocument, EmbedChunk, ReadDocuments, InsertProfile,
              UmapStart, AcquireLock, FetchEmbeddings, SaveCoords, UpdateProfile,
              CommitProfiles, Goto
<1>6. ASSUME Request
      PROVE  pc' = pc \/ \E t \in Tasks : \E start : start # "free" /\ pc' = [pc EXCEPT ![t] = start]
  BY <1>6, RequestKinds DEF Enqueue, FreeTasks, UmapStart
<1>7. UNCHANGED cvars => pc' = pc
  BY DEF cvars, vars
<1> QED
  BY <1>2, <1>3, <1>4, <1>5, <1>6, <1>7, ScriptFits
  DEF CliNext, Scripts, ServerTask, Server, ScriptsTypeOK

\* A server's task has run since it was enqueued, and is no script.
LEMMA ServerTaskRuns ==
  ASSUME TypeOK, NEW t \in Tasks, ServerTask(t)
  PROVE  pc[t] # "free" /\ t \notin scripts
<1> QED
  BY DEF ServerTask, Server, TaskStep, UmapStep, ChunkDocument, EmbedChunk, ReadDocuments,
         InsertProfile, AcquireLock, FetchEmbeddings, SaveCoords, UpdateProfile,
         CommitProfiles, Goto

\* So scripts stay alone only while there is no such task.
LEMMA OnlyBefore ==
  ASSUME TypeOK, ScriptsTypeOK, [CliNext]_cvars, ScriptsOnly' PROVE ScriptsOnly
<1>1. scripts' = scripts \/ \E t \in FreeTasks : scripts' = scripts \cup {t}
  BY DEF CliNext, Scripts, RunCli, Script, CliDies, ServerTask, Server, cvars
<1>2. \A s \in Tasks : pc[s] # "free" => s \in scripts'
  BY NeverFreed DEF ScriptsOnly
<1> QED BY <1>1, <1>2 DEF ScriptsOnly, FreeTasks

\* The commit of a fit that covers everything leaves one fit.
LEMMA CoveringOneFit ==
  ASSUME TypeOK, ApartInv, NEW t \in Tasks, Covers(t), Commits(t) PROVE OneFit'
<1>1. ASSUME NEW u \in Placed' PROVE Current(u)'.json.fit = t
  <2>1. Live' = Live /\ (HasProfile(u)' <=> HasProfile(u)) /\ u \in Live /\ u \in Uuids
    BY <1>1, FitStepCorpus DEF FitStep, Placed, Live
  <2>2. Current(u)'.json.fit = Placing(t)[u]
    BY <1>1, <2>1, CoveringCommit DEF Placed
  <2>3. Current(u)'.json.fit # NoTask
    BY <1>1 DEF Placed
  <2> QED BY <2>1, <2>2, <2>3 DEF Placing
<1> QED BY <1>1 DEF OneFit

LEMMA SerialNext ==
  ASSUME TypeOK, ScriptsTypeOK, RowInv, OrderInv, ApartInv, SerialInv, [CliNext]_cvars
  PROVE  SerialInv'
<1>1. pc \in [Tasks -> Pcs] /\ HeldByUpdating
  BY DEF TypeOK, OrderInv, HeldByUpdating
<1>2. ASSUME NEW s \in Tasks, s \in scripts', pc'[s] = "free" PROVE FALSE
  <2>1. pc[s] = "free"
    BY <1>2, NeverFreed
  <2>2. s \notin scripts
    BY <2>1 DEF SerialInv, FreeTasks
  <2>3. RunCli(s)
    BY <1>2, <2>2 DEF CliNext, Scripts, RunCli, Script, CliDies, ServerTask, Server, cvars
  <2> QED BY <1>1, <1>2, <2>3 DEF RunCli
<1>3. ASSUME ScriptsOnly' PROVE OneFit' /\ \A t \in Tasks : Covers(t)'
  <2>1. ScriptsOnly /\ OneFit /\ \A t \in Tasks : Covers(t)
    BY <1>3, OnlyBefore DEF SerialInv
  <2>2. ASSUME UNCHANGED <<owner, embedded, profiles>>, Kept, FitsKept
        PROVE  OneFit' /\ \A t \in Tasks : Covers(t)'
    <3>1. EmbeddedAuthors' = EmbeddedAuthors
      BY <2>2 DEF EmbeddedAuthors, DocsOf
    <3>2. \A u \in Uuids : Len(profiles'[u]) = Len(profiles[u])
      BY <2>2
    <3> QED BY <2>1, <2>2, <3>1, <3>2, OneFitKept, CoversKept DEF FitsKept
  <2>3. ASSUME NEW t \in Tasks, FitStep(t) PROVE OneFit' /\ \A s \in Tasks : Covers(s)'
    <3>1. ASSUME NEW s \in Tasks \ {t} PROVE Covers(s)'
      BY <2>1, <2>3, <3>1, FitStepCorpus, FitStepOthers, CoversKept
    <3>2. Covers(t)'
      BY <2>1, <2>3, CoversStep
    <3>3. OneFit'
      <4>1. CASE Commits(t)
        BY <2>1, <4>1, CoveringOneFit
      <4>2. CASE ~Commits(t)
        <5>1. profiles' = profiles /\ Live' = Live
          BY <2>3, <4>2, FitStepCorpus
        <5> QED BY <2>1, <5>1 DEF OneFit, Placed, HasProfile, Current
      <4> QED BY <4>1, <4>2
    <3> QED BY <3>1, <3>2, <3>3
  <2>4. ASSUME NEW t \in Tasks, RunCli(t) \/ CliDies(t)
        PROVE  OneFit' /\ \A s \in Tasks : Covers(s)'
    BY <1>1, <2>2, <2>4, RunKept DEF RunCli, CliDies, db
  <2>5. ASSUME NEW t \in Tasks, ServerTask(t) PROVE FALSE
    BY <2>1, <2>5, ServerTaskRuns DEF ScriptsOnly
  <2>6. ASSUME Server(Request) PROVE OneFit' /\ \A s \in Tasks : Covers(s)'
    <3>1. Kept /\ FitsKept
      BY <1>1, <2>6, KeptRequest, FitsKeptRequest DEF Server
    <3>2. CASE UNCHANGED <<owner, embedded, profiles>>
      BY <2>2, <3>1, <3>2
    <3>3. ASSUME NEW t \in FreeTasks, NEW start \in {"chunk", "read", UmapStart}, NEW u, NEW d,
                 Enqueue(t, start, u, d)
          PROVE  FALSE
      <4>1. pc'[t] # "free" /\ scripts' = scripts /\ t \notin scripts /\ t \in Tasks
        BY <1>1, <2>6, <3>3 DEF Enqueue, UmapStart, FreeTasks, Server, SerialInv
      <4> QED BY <1>3, <4>1 DEF ScriptsOnly
    <3> QED BY <2>6, <3>2, <3>3, RequestKinds DEF Server
  <2>7. CASE UNCHANGED cvars
    <3>1. UNCHANGED <<author, owner, embedded, profiles, pc, fitted, todo, held>>
      BY <2>7 DEF cvars, vars, db, locals
    <3> QED BY <1>1, <2>2, <3>1, KeptRows DEF FitsKept, HeldByUpdating
  <2> QED
    BY <2>3, <2>4, <2>5, <2>6, <2>7, ScriptFits DEF CliNext, Scripts, ScriptsTypeOK
<1>4. scripts' \subseteq Tasks
  BY CliNextType DEF ScriptsTypeOK
<1> QED BY <1>2, <1>3, <1>4 DEF SerialInv, FreeTasks

LEMMA CliInitSerial == CliInit => SerialInv
<1> SUFFICES ASSUME CliInit PROVE SerialInv
  OBVIOUS
<1>1. Placed = {}
  BY NobodyPlaced
<1>2. scripts = {} /\ \A t \in Tasks : pc[t] = "free"
  BY DEF CliInit, ServerStarted
<1> QED BY <1>1, <1>2 DEF SerialInv, OneFit, Covers

\* Scripts may overlap and die at any point: on a corpus that the server leaves alone the
\* positions shown are still of one fit.
THEOREM ScriptsInSeries == CliSpec => []ScriptsSerialize
<1> DEFINE I == TypeOK /\ ScriptsTypeOK /\ RowInv /\ OrderInv /\ ApartInv /\ SerialInv
<1>1. CliInit => I
  BY CliInitType, CliInitRow, CliInitOrder, CliInitApart, CliInitSerial
<1>2. I /\ [CliNext]_cvars => I'
  BY CliNextType, CliRow, OrderNext, ApartNext, SerialNext
<1>3. I => ScriptsSerialize
  BY DEF SerialInv, ScriptsSerialize
<1> QED BY <1>1, <1>2, <1>3, PTL DEF CliSpec

-----------------------------------------------------------------------------
(* A run with nothing beside it. *)

\* Its own step, from call to call.
LEMMA AloneStep ==
  ASSUME TypeOK, OrderInv, ApartInv, AloneInv, alone \in Tasks, FitStep(alone),
         alone' = alone
  PROVE  AloneInv'
<1> DEFINE t == alone
<1>1. /\ pc \in [Tasks -> Pcs]
      /\ coords \in [Uuids -> Fit]
      /\ t # NoTask
  BY IdAssumption DEF TypeOK
<1>2. Covers(t)
  BY <1>1 DEF AloneInv
<1>3. /\ EmbeddedAuthors' = EmbeddedAuthors /\ Live' = Live
      /\ EnoughEmbedded' = EnoughEmbedded
      /\ \A u \in Uuids : HasProfile(u)' <=> HasProfile(u)
  BY FitStepCorpus
<1>4. Placing(t)' = Placing(t) /\ \A u \in Uuids : Placing(t)'[u] = Placing(t)[u]
  BY <1>3 DEF Placing
<1>5. Covers(t)'
  <2>1. Covers(alone)'
    BY <1>2, CoversStep DEF Covers
  <2> QED BY <2>1
<1>6. pc'[t] \in UmapPcs \cup {"done"}
  BY <1>1 DEF FitStep, Fetches, SaveCoords, UpdateProfile, Commits, Goto, UmapPcs
<1>7. ASSUME pc'[t] = "update" PROVE coords' = Placing(t)
  <2>1. CASE SaveCoords(t)
    <3>1. fitted[t] = EmbeddedAuthors
      BY <1>2, <2>1 DEF SaveCoords, Goto, Covers
    <3> QED BY <2>1, <3>1 DEF SaveCoords, Placing
  <2>2. CASE \E u \in Uuids : UpdateProfile(t, u)
    BY <1>1, <2>2 DEF UpdateProfile, AloneInv, db
  <2>3. CASE Fetches(t) \/ Commits(t)
    BY <1>1, <1>7, <2>3 DEF Fetches, Commits
  <2> QED BY <2>1, <2>2, <2>3 DEF FitStep
<1>8. ASSUME pc'[t] = "done", EnoughEmbedded' PROVE Repaired(t)'
  <2>1. Commits(t)
    BY <1>1, <1>3, <1>8 DEF FitStep, Fetches, SaveCoords, UpdateProfile, Goto
  <2>2. coords' = Placing(t)
    BY <1>1, <2>1 DEF Commits, AloneInv
  <2>3. ASSUME NEW u \in Live, HasProfile(u)' PROVE Current(u)'.json.fit = Placing(t)[u]
    BY <1>2, <1>3, <2>1, <2>3, CoveringCommit DEF Live
  <2> QED BY <1>3, <1>4, <2>2, <2>3 DEF Repaired, Live
<1> QED BY <1>4, <1>5, <1>6, <1>7, <1>8 DEF AloneInv

LEMMA AloneNext ==
  ASSUME TypeOK, ScriptsTypeOK, OrderInv, ApartInv, AloneInv, [CliNext]_cvars
  PROVE  AloneInv'
<1>1. pc \in [Tasks -> Pcs] /\ NoTask \notin Tasks
  BY IdAssumption DEF TypeOK
<1>2. ASSUME alone' = NoTask PROVE AloneInv'
  BY <1>2 DEF AloneInv
<1>3. ASSUME NEW t \in Tasks, RunCli(t) PROVE AloneInv'
  <2>1. CASE alone' = t
    <3>1. pc'[alone'] = "fetch"
      BY <1>1, <1>3, <2>1 DEF RunCli
    <3> QED BY <3>1 DEF AloneInv, Covers, UmapPcs
  <2> QED BY <1>2, <1>3, <2>1 DEF RunCli
<1>4. ASSUME NEW t \in Tasks, Script(t) PROVE AloneInv'
  <2>1. CASE alone = t
    BY <1>4, <2>1, ScriptFits, AloneStep DEF Script
  <2> QED BY <1>2, <1>4, <2>1 DEF Script
<1>5. ASSUME NEW t \in Tasks, CliDies(t) \/ ServerTask(t) PROVE AloneInv'
  BY <1>2, <1>5 DEF CliDies, ServerTask, Server
<1>6. CASE Server(Request)
  BY <1>2, <1>6 DEF Server
<1>7. CASE UNCHANGED cvars
  BY <1>7 DEF cvars, vars, db, locals, AloneInv, Covers, Repaired, Placing, EnoughEmbedded,
              TotalEmbedded, EmbeddedAuthors, DocsOf, Live, HasProfile, Current
<1> QED
  BY <1>3, <1>4, <1>5, <1>6, <1>7 DEF CliNext, Scripts, ScriptsTypeOK

\* Whatever overlapping fits and scripts that died left behind, one run of the script with
\* nothing beside it puts the whole scatter right.
THEOREM RunRepairs == CliSpec => []RerunRepairs
<1> DEFINE I == TypeOK /\ ScriptsTypeOK /\ RowInv /\ OrderInv /\ ApartInv /\ AloneInv
<1>1. CliInit => I
  BY CliInitType, CliInitRow, CliInitOrder, CliInitApart DEF CliInit, AloneInv
<1>2. I /\ [CliNext]_cvars => I'
  BY CliNextType, CliRow, OrderNext, ApartNext, AloneNext
<1>3. I => RerunRepairs
  BY DEF AloneInv, RerunRepairs
<1> QED BY <1>1, <1>2, <1>3, PTL DEF CliSpec

-----------------------------------------------------------------------------
(* The server alone: its documents and profiles. *)

BeforeFit == {"chunk", "embed", "read", "insert"}

\* Steps that leave the documents alone, and tasks where they are on the way to a fit.
LEMMA DocFrame ==
  ASSUME DocInv, UNCHANGED <<author, owner, chunks, embedded, taskAuthor, taskDoc>>,
         \A u \in Uuids : HasProfile(u)' <=> HasProfile(u),
         \A t \in Tasks : pc'[t] = pc[t] \/ {pc[t], pc'[t]} \cap BeforeFit = {}
  PROVE  DocInv'
<1>1. /\ \A u \in Uuids : DocsOf(u)' = DocsOf(u)
      /\ Live' = Live
      /\ \A d \in Docs : Stored(d)' <=> Stored(d)
  BY DEF DocsOf, Live, Stored
<1>2. \A t \in Tasks : pc'[t] \in BeforeFit \/ pc[t] \in BeforeFit => pc'[t] = pc[t]
  OBVIOUS
<1>3. \A t \in Tasks, d \in Docs : Working(t, d) => Working(t, d)'
  BY <1>2 DEF Working, BeforeFit
<1>4. \A d \in Docs : Stored(d)' => embedded'[d] > 0 \/ \E t \in Tasks : Working(t, d)'
  BY <1>1, <1>3 DEF DocInv
<1>5. \A t \in Tasks : pc'[t] \in {"chunk", "embed"} =>
        taskDoc'[t] \in Docs /\ owner'[taskDoc'[t]] \in {taskAuthor'[t], NoUuid}
  BY <1>2 DEF DocInv, BeforeFit
<1>6. \A t \in Tasks : pc'[t] \in BeforeFit => taskAuthor'[t] \in Uuids
  BY <1>2 DEF DocInv, BeforeFit
<1>7. \A t \in Tasks : pc'[t] = "insert" /\ taskAuthor'[t] \in Live' =>
        DocsOf(taskAuthor[t])' # {}
  <2>1. SUFFICES ASSUME NEW t \in Tasks, pc'[t] = "insert", taskAuthor'[t] \in Live'
                 PROVE  DocsOf(taskAuthor[t])' # {}
    OBVIOUS
  <2>2. DocsOf(taskAuthor[t]) # {}
    BY <1>1, <1>2, <2>1 DEF DocInv, BeforeFit
  <2> QED BY <2>2 DEF DocsOf
<1>8. \A u \in Live' : HasProfile(u)' => DocsOf(u)' # {}
  BY <1>1 DEF DocInv, Live
<1> QED BY <1>4, <1>5, <1>6, <1>7, <1>8 DEF DocInv, BeforeFit

\* A new author has neither tasks nor profiles.
LEMMA DocBeginUpload ==
  ASSUME TypeOK, RowInv, DocInv, NEW r \in Reqs, NEW slug \in Slugs, BeginUpload(r, slug)
  PROVE  DocInv'
<1>1. UNCHANGED <<owner, chunks, embedded, profiles, pc, taskAuthor, taskDoc>>
  BY DEF BeginUpload, NothingEnqueued, locals
<1>2. PICK u \in Uuids : \/ author' = author
                         \/ (author[u] = Unused /\ author' = [author EXCEPT ![u] = slug])
  BY DEF BeginUpload
<1>3. CASE author' = author
  BY <1>1, <1>3, DocFrame DEF HasProfile
<1>4. CASE author[u] = Unused /\ author' = [author EXCEPT ![u] = slug]
  <2>1. author \in [Uuids -> Slugs \cup {Unused, Deleted}]
    BY DEF TypeOK
  <2>2. u \notin Live /\ Live' = Live \cup {u}
    BY <2>1, <1>4, SlugAssumption DEF Live
  <2>3. profiles[u] = <<>> /\ \A t \in Tasks : taskAuthor[t] # u
    BY <1>4, <2>2 DEF RowInv
  <2>4. \A v : DocsOf(v)' = DocsOf(v)
    BY <1>1 DEF DocsOf
  <2>5. \A t \in Tasks : pc'[t] = "insert" /\ taskAuthor'[t] \in Live' =>
          DocsOf(taskAuthor[t])' # {}
    BY <1>1, <2>2, <2>3, <2>4 DEF DocInv
  <2>6. \A v \in Live' : HasProfile(v)' => DocsOf(v)' # {}
    BY <1>1, <2>2, <2>3, <2>4 DEF DocInv, HasProfile
  <2>7. \A d \in Docs : Stored(d)' => embedded'[d] > 0 \/ \E t \in Tasks : Working(t, d)'
    BY <1>1 DEF DocInv, Stored, Working
  <2>8. \A t \in Tasks :
          /\ pc'[t] \in {"chunk", "embed"} =>
               taskDoc'[t] \in Docs /\ owner'[taskDoc'[t]] \in {taskAuthor'[t], NoUuid}
          /\ pc'[t] \in {"chunk", "embed", "read", "insert"} => taskAuthor'[t] \in Uuids
    BY <1>1 DEF DocInv
  <2>9. \A t \in Tasks : taskAuthor'[t] = taskAuthor[t]
    BY <1>1
  <2> QED BY <1>1, <2>5, <2>6, <2>7, <2>8, <2>9 DEF DocInv
<1> QED BY <1>2, <1>3, <1>4

\* A new document has a task, and no task of before works on it.
LEMMA DocFinishUpload ==
  ASSUME TypeOK, DocInv, NEW r \in Reqs, FinishUpload(r) PROVE DocInv'
<1>1. /\ owner \in [Docs -> Uuids \cup {NoUuid}]
      /\ pc \in [Tasks -> Pcs]
      /\ taskAuthor \in [Tasks -> Uuids \cup {NoUuid}]
      /\ taskDoc \in [Tasks -> Docs \cup {NoDoc}]
  BY DEF TypeOK
<1>2. PICK d \in FreshDocs, t \in FreeTasks :
        owner' = [owner EXCEPT ![d] = req[r]] /\ Enqueue(t, "chunk", req[r], d)
  BY DEF FinishUpload
<1> DEFINE a == req[r]
<1>3. a \in Uuids /\ a # NoUuid /\ UNCHANGED <<author, chunks, embedded, profiles>>
  BY IdAssumption DEF FinishUpload, Live
<1>4. /\ d \in Docs /\ owner[d] = NoUuid /\ \A s \in Tasks : taskDoc[s] # d
      /\ t \in Tasks /\ pc[t] = "free"
  BY <1>2 DEF FreshDocs, Stored, FreeTasks
<1>5. owner'[d] = a /\ \A e \in Docs \ {d} : owner'[e] = owner[e]
  BY <1>1, <1>2, <1>4
<1>6. pc'[t] = "chunk" /\ taskAuthor'[t] = a /\ taskDoc'[t] = d
  BY <1>1, <1>2, <1>4 DEF Enqueue
<1>7. \A s \in Tasks \ {t} :
        pc'[s] = pc[s] /\ taskAuthor'[s] = taskAuthor[s] /\ taskDoc'[s] = taskDoc[s]
  BY <1>1, <1>2, <1>4 DEF Enqueue
<1> HIDE DEF a
<1>8. \A u \in Uuids : DocsOf(u) \subseteq DocsOf(u)'
  BY <1>1, <1>4, <1>5, IdAssumption DEF DocsOf
<1>9. ASSUME NEW e \in Docs, Stored(e)'
      PROVE  embedded'[e] > 0 \/ \E s \in Tasks : Working(s, e)'
  <2>1. CASE e = d
    BY <1>4, <1>5, <1>6, <2>1 DEF Working
  <2>2. CASE e # d
    <3>1. embedded[e] > 0 \/ \E s \in Tasks : Working(s, e)
      BY <1>5, <1>9, <2>2 DEF DocInv, Stored
    <3>2. \A s \in Tasks : Working(s, e) => Working(s, e)'
      BY <1>3, <1>4, <1>5, <1>7, <2>2 DEF Working
    <3> QED BY <1>3, <3>1, <3>2
  <2> QED BY <2>1, <2>2
<1>10. ASSUME NEW s \in Tasks, pc'[s] \in {"chunk", "embed"}
       PROVE  taskDoc'[s] \in Docs /\ owner'[taskDoc'[s]] \in {taskAuthor'[s], NoUuid}
  <2>1. CASE s = t
    BY <1>4, <1>5, <1>6, <2>1
  <2>2. CASE s # t
    BY <1>4, <1>5, <1>7, <1>10, <2>2 DEF DocInv
  <2> QED BY <2>1, <2>2
<1>11. \A s \in Tasks : pc'[s] \in BeforeFit => taskAuthor'[s] \in Uuids
  BY <1>3, <1>6, <1>7 DEF DocInv, BeforeFit
<1>12. ASSUME NEW s \in Tasks, pc'[s] = "insert", taskAuthor'[s] \in Live'
       PROVE  DocsOf(taskAuthor[s])' # {} /\ taskAuthor'[s] = taskAuthor[s]
  <2>1. s # t /\ pc[s] = "insert" /\ taskAuthor'[s] = taskAuthor[s]
    BY <1>6, <1>7, <1>12
  <2>2. taskAuthor[s] \in Live /\ taskAuthor[s] \in Uuids
    BY <1>3, <1>12, <2>1 DEF Live
  <2>3. DocsOf(taskAuthor[s]) # {}
    BY <2>1, <2>2 DEF DocInv
  <2>4. PICK e \in Docs : owner[e] = taskAuthor[s]
    BY <2>3 DEF DocsOf
  <2>5. owner'[e] = taskAuthor'[s]
    BY <1>4, <1>5, <2>1, <2>2, <2>4, IdAssumption
  <2> QED BY <2>1, <2>5 DEF DocsOf
<1>13. \A u \in Live' : HasProfile(u)' => DocsOf(u)' # {}
  BY <1>3, <1>8 DEF DocInv, Live, HasProfile
<1> QED BY <1>9, <1>10, <1>11, <1>12, <1>13 DEF DocInv, BeforeFit

\* Recomputing a profile works on no document.
LEMMA DocRecompute ==
  ASSUME TypeOK, DocInv, NEW slug \in Slugs, Recompute(slug) PROVE DocInv'
<1>1. /\ pc \in [Tasks -> Pcs]
      /\ taskAuthor \in [Tasks -> Uuids \cup {NoUuid}]
      /\ taskDoc \in [Tasks -> Docs \cup {NoDoc}]
  BY DEF TypeOK
<1>2. PICK u \in Uuids, t \in FreeTasks : Enqueue(t, "read", u, NoDoc)
  BY DEF Recompute
<1>3. UNCHANGED <<author, owner, chunks, embedded, profiles>>
  BY DEF Recompute, db
<1>4. t \in Tasks /\ pc[t] = "free" /\ pc'[t] = "read" /\ taskAuthor'[t] = u
  BY <1>1, <1>2 DEF Enqueue, FreeTasks
<1>5. \A s \in Tasks \ {t} :
        pc'[s] = pc[s] /\ taskAuthor'[s] = taskAuthor[s] /\ taskDoc'[s] = taskDoc[s]
  BY <1>1, <1>2, <1>4 DEF Enqueue
<1>6. /\ \A v : DocsOf(v)' = DocsOf(v)
      /\ Live' = Live
      /\ \A d : Stored(d)' <=> Stored(d)
  BY <1>3 DEF DocsOf, Live, Stored
<1>7. \A s \in Tasks, d \in Docs : Working(s, d) => Working(s, d)'
  BY <1>3, <1>4, <1>5 DEF Working
<1>8. \A d \in Docs : Stored(d)' => embedded'[d] > 0 \/ \E s \in Tasks : Working(s, d)'
  BY <1>3, <1>6, <1>7 DEF DocInv
<1>9. \A s \in Tasks : pc'[s] \in {"chunk", "embed"} =>
        taskDoc'[s] \in Docs /\ owner'[taskDoc'[s]] \in {taskAuthor'[s], NoUuid}
  BY <1>3, <1>4, <1>5 DEF DocInv
<1>10. \A s \in Tasks : pc'[s] \in BeforeFit => taskAuthor'[s] \in Uuids
  BY <1>4, <1>5 DEF DocInv, BeforeFit
<1>11. ASSUME NEW s \in Tasks, pc'[s] = "insert", taskAuthor'[s] \in Live'
       PROVE  DocsOf(taskAuthor[s])' # {}
  <2>1. s # t /\ pc[s] = "insert" /\ taskAuthor'[s] = taskAuthor[s]
    BY <1>4, <1>5, <1>11
  <2>2. DocsOf(taskAuthor[s]) # {}
    BY <1>6, <1>11, <2>1 DEF DocInv
  <2> QED BY <1>3, <2>1, <2>2 DEF DocsOf
<1>12. \A v \in Live' : HasProfile(v)' => DocsOf(v)' # {}
  BY <1>3, <1>6 DEF DocInv, HasProfile
<1> QED BY <1>8, <1>9, <1>10, <1>11, <1>12 DEF DocInv, BeforeFit

\* The cascade takes documents, profiles and author together.
LEMMA DocFinishDelete == ASSUME TypeOK, DocInv, FinishDelete PROVE DocInv'
<1>1. /\ author \in [Uuids -> Slugs \cup {Unused, Deleted}]
      /\ pc \in [Tasks -> Pcs]
      /\ taskAuthor \in [Tasks -> Uuids \cup {NoUuid}]
      /\ taskDoc \in [Tasks -> Docs \cup {NoDoc}]
      /\ profiles \in [Uuids -> Seq(Row)]
  BY DEF TypeOK
<1>2. PICK a \in Uuids : Cascade(a)
  BY DEF FinishDelete, TypeOK
<1>3. PICK t \in FreeTasks : Enqueue(t, UmapStart, NoUuid, NoDoc)
  BY DEF FinishDelete, EnqueueRecompute
<1>4. t \in Tasks /\ pc[t] = "free" /\ pc'[t] \notin BeforeFit
  BY <1>1, <1>3 DEF Enqueue, FreeTasks, UmapStart, BeforeFit
<1>5. \A s \in Tasks \ {t} :
        pc'[s] = pc[s] /\ taskAuthor'[s] = taskAuthor[s] /\ taskDoc'[s] = taskDoc[s]
  BY <1>1, <1>3, <1>4 DEF Enqueue
<1>6. Live' = Live \ {a}
  BY <1>1, <1>2, SlugAssumption DEF Cascade, Live
<1>7. \A d \in Docs :
        /\ owner'[d] = IF owner[d] = a THEN NoUuid ELSE owner[d]
        /\ owner[d] # a => embedded'[d] = embedded[d] /\ chunks'[d] = chunks[d]
  BY <1>2 DEF Cascade
<1>8. ASSUME NEW d \in Docs, Stored(d)'
      PROVE  embedded'[d] > 0 \/ \E s \in Tasks : Working(s, d)'
  <2>1. owner[d] # a /\ Stored(d)
    BY <1>7, <1>8 DEF Stored
  <2>2. embedded[d] > 0 \/ \E s \in Tasks : Working(s, d)
    BY <2>1 DEF DocInv
  <2>3. \A s \in Tasks : Working(s, d) => Working(s, d)'
    BY <1>4, <1>5, <1>7, <2>1 DEF Working
  <2> QED BY <1>7, <2>1, <2>2, <2>3
<1>9. ASSUME NEW s \in Tasks, pc'[s] \in {"chunk", "embed"}
      PROVE  taskDoc'[s] \in Docs /\ owner'[taskDoc'[s]] \in {taskAuthor'[s], NoUuid}
  <2>1. s # t
    BY <1>4, <1>9 DEF BeforeFit
  <2>2. taskDoc[s] \in Docs /\ owner[taskDoc[s]] \in {taskAuthor[s], NoUuid}
    BY <1>5, <1>9, <2>1 DEF DocInv
  <2> QED BY <1>5, <1>7, <2>1, <2>2
<1>10. \A s \in Tasks : pc'[s] \in BeforeFit => taskAuthor'[s] \in Uuids
  BY <1>4, <1>5 DEF DocInv, BeforeFit
<1>11. ASSUME NEW s \in Tasks, pc'[s] = "insert", taskAuthor'[s] \in Live'
       PROVE  DocsOf(taskAuthor[s])' # {}
  <2>1. /\ pc[s] = "insert" /\ taskAuthor'[s] = taskAuthor[s]
        /\ taskAuthor[s] \in Live /\ taskAuthor[s] # a
    BY <1>4, <1>5, <1>6, <1>11 DEF BeforeFit
  <2>2. PICK d \in Docs : owner[d] = taskAuthor[s]
    BY <2>1 DEF DocInv, DocsOf
  <2> QED BY <1>7, <2>1, <2>2 DEF DocsOf
<1>12. ASSUME NEW u \in Live', HasProfile(u)' PROVE DocsOf(u)' # {}
  <2>1. u \in Live /\ u # a /\ u \in Uuids
    BY <1>6, <1>12 DEF Live
  <2>2. HasProfile(u)
    BY <1>1, <1>2, <1>12, <2>1 DEF Cascade, HasProfile
  <2>3. PICK d \in Docs : owner[d] = u
    BY <2>1, <2>2 DEF DocInv, DocsOf
  <2> QED BY <1>7, <2>1, <2>3 DEF DocsOf
<1> QED BY <1>8, <1>9, <1>10, <1>11, <1>12 DEF DocInv, BeforeFit

\* Before the fit a task goes on from call to call with the document it was given.
LEMMA DocTask ==
  ASSUME TypeOK, DocInv, NEW t \in Tasks,
         ChunkDocument(t) \/ EmbedChunk(t) \/ ReadDocuments(t) \/ InsertProfile(t)
  PROVE  DocInv'
<1>1. /\ pc \in [Tasks -> Pcs]
      /\ chunks \in [Docs -> Nat] /\ embedded \in [Docs -> Nat]
      /\ \A d \in Docs : embedded[d] <= chunks[d] /\ chunks[d] <= ChunkCount[d]
      /\ profiles \in [Uuids -> Seq(Row)]
      /\ \A d \in Docs : ChunkCount[d] \in Nat \ {0}
  BY ChunkAssumption DEF TypeOK
<1>2. /\ UNCHANGED <<author, owner, taskAuthor, taskDoc>>
      /\ pc[t] \in BeforeFit
      /\ \A s \in Tasks \ {t} : pc'[s] = pc[s]
  BY <1>1 DEF ChunkDocument, EmbedChunk, ReadDocuments, InsertProfile, Goto, BeforeFit,
              db, corpus, locals
<1>3. /\ \A v : DocsOf(v)' = DocsOf(v)
      /\ Live' = Live
      /\ \A d : Stored(d)' <=> Stored(d)
  BY <1>2 DEF DocsOf, Live, Stored
<1>4. ASSUME NEW d \in Docs, Stored(d)
      PROVE  embedded'[d] > 0 \/ \E s \in Tasks : Working(s, d)'
  <2>1. embedded[d] > 0 \/ \E s \in Tasks : Working(s, d)
    BY <1>4 DEF DocInv
  <2>2. chunks'[d] >= chunks[d] /\ embedded'[d] >= embedded[d]
    <3>1. chunks[d] \in Nat /\ embedded[d] \in Nat /\ chunks[d] <= ChunkCount[d]
      BY <1>1
    <3>2. chunks'[d] \in {chunks[d], ChunkCount[d]}
      BY <1>1 DEF ChunkDocument, EmbedChunk, ReadDocuments, InsertProfile, db, corpus
    <3>3. embedded'[d] \in {embedded[d], embedded[d] + 1}
      BY <1>1 DEF ChunkDocument, EmbedChunk, ReadDocuments, InsertProfile, db, corpus
    <3> QED BY <1>1, <3>1, <3>2, <3>3
  <2>3. chunks[d] \in Nat /\ chunks'[d] \in Nat /\ embedded[d] \in Nat /\ embedded'[d] \in Nat
    BY <1>1 DEF ChunkDocument, EmbedChunk, ReadDocuments, InsertProfile, db, corpus
  <2>4. \A s \in Tasks \ {t} : Working(s, d) => Working(s, d)'
    BY <1>2, <2>2, <2>3 DEF Working
  <2>5. ASSUME Working(t, d), embedded[d] = 0 PROVE Working(t, d)' \/ embedded'[d] > 0
    <3>1. CASE ChunkDocument(t)
      <4>1. pc'[t] = "embed" /\ chunks'[d] = ChunkCount[d]
        BY <1>1, <1>4, <2>5, <3>1 DEF ChunkDocument, Goto, Working
      <4> QED BY <1>1, <1>2, <2>5, <4>1 DEF Working
    <3>2. CASE EmbedChunk(t)
      <4>1. chunks[d] > 0 /\ d = taskDoc[t]
        BY <2>5, <3>2 DEF EmbedChunk, Goto, Working
      <4>2. embedded'[d] = embedded[d] + 1
        BY <1>1, <2>5, <3>2, <4>1 DEF EmbedChunk
      <4> QED BY <2>5, <4>2
    <3>3. CASE ReadDocuments(t) \/ InsertProfile(t)
      BY <2>5, <3>3 DEF ReadDocuments, InsertProfile, Goto, Working
    <3> QED BY <3>1, <3>2, <3>3
  <2> QED BY <2>1, <2>2, <2>3, <2>4, <2>5
<1>5. ASSUME NEW s \in Tasks, pc'[s] \in {"chunk", "embed"}
      PROVE  taskDoc[s] \in Docs /\ owner[taskDoc[s]] \in {taskAuthor[s], NoUuid}
  <2>1. pc[s] \in {"chunk", "embed"}
    BY <1>1, <1>2, <1>5 DEF ChunkDocument, EmbedChunk, ReadDocuments, InsertProfile, Goto, UmapStart
  <2> QED BY <2>1 DEF DocInv
<1>6. ASSUME NEW s \in Tasks, pc'[s] \in BeforeFit PROVE taskAuthor[s] \in Uuids
  BY <1>2, <1>6 DEF DocInv, BeforeFit
<1>7. ASSUME NEW s \in Tasks, pc'[s] = "insert", taskAuthor[s] \in Live
      PROVE  DocsOf(taskAuthor[s]) # {}
  <2>1. CASE pc[s] = "insert"
    BY <1>7, <2>1 DEF DocInv
  <2>2. CASE pc[s] # "insert"
    <3>1. s = t
      BY <1>2, <1>7, <2>2
    <3>2. ReadDocuments(t)
      BY <1>1, <1>7, <2>2, <3>1 DEF ChunkDocument, EmbedChunk, InsertProfile, Goto, UmapStart
    <3> QED BY <1>1, <1>7, <3>1, <3>2 DEF ReadDocuments, Goto, Corpora
  <2> QED BY <2>1, <2>2
<1>8. ASSUME NEW u \in Live, HasProfile(u)' PROVE DocsOf(u) # {}
  <2>1. CASE HasProfile(u)
    BY <1>8, <2>1 DEF DocInv
  <2>2. CASE ~HasProfile(u)
    <3>1. InsertProfile(t) /\ taskAuthor[t] \in Live
      BY <1>8, <2>2 DEF ChunkDocument, EmbedChunk, ReadDocuments, InsertProfile, HasProfile, db
    <3>2. u = taskAuthor[t] /\ pc[t] = "insert"
      BY <1>1, <1>8, <2>2, <3>1 DEF InsertProfile, Goto, HasProfile, Live
    <3> QED BY <3>1, <3>2 DEF DocInv
  <2> QED BY <2>1, <2>2
<1>9. \A s \in Tasks : DocsOf(taskAuthor[s])' = DocsOf(taskAuthor[s])
  BY <1>2 DEF DocsOf
<1> QED BY <1>2, <1>3, <1>4, <1>5, <1>6, <1>7, <1>8, <1>9 DEF DocInv, BeforeFit

LEMMA DocNext == ASSUME TypeOK, RowInv, DocInv, [ReliableNext]_vars PROVE DocInv'
<1>1. pc \in [Tasks -> Pcs]
  BY DEF TypeOK
<1>2. ASSUME NEW r \in Reqs, RejectUpload(r) PROVE DocInv'
  BY <1>2, DocFrame DEF RejectUpload, NothingEnqueued, db, locals, HasProfile
<1>3. ASSUME NEW slug \in Slugs, BeginDelete(slug) PROVE DocInv'
  BY <1>3, DocFrame DEF BeginDelete, NothingEnqueued, corpus, locals, HasProfile
<1>4. ASSUME NEW t \in Tasks, FitStep(t) \/ AcquireLock(t) PROVE DocInv'
  <2>1. \A s \in Tasks : pc'[s] = pc[s] \/ {pc[s], pc'[s]} \cap BeforeFit = {}
    BY <1>1, <1>4 DEF FitStep, Fetches, SaveCoords, UpdateProfile, Commits, AcquireLock, Goto,
                      BeforeFit
  <2>2. CASE AcquireLock(t)
    BY <2>1, <2>2, DocFrame DEF AcquireLock, db, locals, HasProfile
  <2>3. CASE FitStep(t)
    BY <2>1, <2>3, FitStepCorpus, DocFrame
  <2> QED BY <1>4, <2>2, <2>3
<1>5. ASSUME NEW t \in Tasks, TaskStep(t) PROVE DocInv'
  BY <1>4, <1>5, ServerFits, DocTask
<1>6. CASE UNCHANGED vars
  BY <1>6, DocFrame DEF vars, db, locals, HasProfile
<1> QED
  BY <1>2, <1>3, <1>5, <1>6, DocBeginUpload, DocFinishUpload, DocRecompute, DocFinishDelete
  DEF ReliableNext, Request

-----------------------------------------------------------------------------
(* The server alone: its scatter. *)

\* An author with embedded chunks to come has a fit to come, too.
LEMMA AllEmbedded ==
  ASSUME DocInv, ~FitDue, NEW u \in Live, HasProfile(u) PROVE u \in EmbeddedAuthors
<1>1. PICK d \in Docs : owner[d] = u
  BY DEF DocInv, DocsOf
<1>2. u # NoUuid /\ u \in Uuids
  BY IdAssumption DEF Live
<1>3. \A t \in Tasks : ~Working(t, d)
  BY <1>1, <1>2 DEF FitDue, Due, Working, Stored
<1>4. embedded[d] > 0
  BY <1>1, <1>2, <1>3 DEF DocInv, Stored
<1> QED BY <1>1, <1>2, <1>4 DEF EmbeddedAuthors, DocsOf

\* A task that has a fit before it gets there.
LEMMA DueTask ==
  ASSUME HasDatabaseUrl, TypeOK, RowInv, DocInv, NEW t \in Tasks, TaskStep(t), ~Fetches(t),
         NEW s \in Tasks, Due(s)
  PROVE  Due(s)'
<1>1. pc \in [Tasks -> Pcs]
  BY DEF TypeOK
<1>2. UNCHANGED <<author, owner, taskAuthor, taskDoc>>
  BY DEF TaskStep, UmapStep, ChunkDocument, EmbedChunk, ReadDocuments, InsertProfile,
         AcquireLock, FetchEmbeddings, SaveCoords, UpdateProfile, CommitProfiles,
         db, corpus, locals
<1>3. Live' = Live /\ \A d : (Stored(d)' <=> Stored(d)) /\ DocsOf(d)' = DocsOf(d)
  BY <1>2 DEF Live, Stored, DocsOf
<1>4. CASE s # t
  <2>1. pc'[s] = pc[s]
    BY <1>1, <1>4 DEF TaskStep, UmapStep, ChunkDocument, EmbedChunk, ReadDocuments,
                      InsertProfile, AcquireLock, FetchEmbeddings, SaveCoords, UpdateProfile,
                      CommitProfiles, Goto
  <2>2. Corpora(s)' = Corpora(s) /\ (Stored(taskDoc[s])' <=> Stored(taskDoc[s]))
    BY <1>2 DEF Corpora, DocsOf, Stored
  <2> QED BY <1>2, <1>3, <2>1, <2>2 DEF Due
<1>5. CASE s = t
  <2>1. CASE ChunkDocument(t)
    <3>1. pc[t] = "chunk" /\ Stored(taskDoc[t])
      BY <1>5, <2>1 DEF ChunkDocument, Goto, Due
    <3>2. pc'[t] = "embed" /\ Stored(taskDoc[t])'
      BY <1>1, <1>2, <2>1, <3>1 DEF ChunkDocument, Goto, Stored
    <3> QED BY <1>5, <3>2 DEF Due
  <2>2. CASE EmbedChunk(t)
    <3>1. pc[t] = "embed" /\ Stored(taskDoc[t])
      BY <1>5, <2>2 DEF EmbedChunk, Goto, Due
    <3>2. taskDoc[t] \in Docs /\ owner[taskDoc[t]] = taskAuthor[t]
      BY <3>1 DEF DocInv, Stored
    <3>3. Stored(taskDoc[t])' /\ Corpora(t)' # {}
      BY <1>2, <3>1, <3>2 DEF Stored, Corpora, DocsOf
    <3>4. pc'[t] \in {"embed", "read"}
      BY <1>1, <2>2 DEF EmbedChunk, Goto
    <3> QED BY <1>5, <3>3, <3>4 DEF Due
  <2>3. CASE ReadDocuments(t)
    <3>1. pc[t] = "read" /\ Corpora(t) # {}
      BY <1>5, <2>3 DEF ReadDocuments, Goto, Due
    <3>2. pc'[t] = "insert"
      BY <1>1, <2>3, <3>1 DEF ReadDocuments, Goto
    <3>3. taskAuthor[t] \in Live
      BY <3>1 DEF DocInv, Corpora, RowInv
    <3> QED BY <1>2, <1>3, <1>5, <3>2, <3>3 DEF Due
  <2>4. CASE InsertProfile(t)
    <3>1. pc[t] = "insert" /\ taskAuthor[t] \in Live
      BY <1>5, <2>4 DEF InsertProfile, Goto, Due
    <3>2. pc'[t] = "lock"
      BY <1>1, <2>4, <3>1 DEF InsertProfile, Goto, UmapStart
    <3> QED BY <1>5, <3>2 DEF Due
  <2>5. CASE AcquireLock(t)
    <3>1. pc'[t] = "fetch"
      BY <1>1, <2>5 DEF AcquireLock, Goto
    <3> QED BY <1>5, <3>1 DEF Due
  <2>6. CASE FitStep(t)
    BY <1>5, <2>6 DEF FitStep, SaveCoords, UpdateProfile, Commits, Goto, Due
  <2> QED BY <2>1, <2>2, <2>3, <2>4, <2>5, <2>6, ServerFits
<1> QED BY <1>4, <1>5

\* A delete ends with a fit to come; and no handler takes another one away.
LEMMA DueRequest ==
  ASSUME HasDatabaseUrl, TypeOK, RowInv, DocInv, FitDue, Request PROVE FitDue'
<1>1. /\ author \in [Uuids -> Slugs \cup {Unused, Deleted}]
      /\ owner \in [Docs -> Uuids \cup {NoUuid}]
      /\ pc \in [Tasks -> Pcs]
      /\ taskAuthor \in [Tasks -> Uuids \cup {NoUuid}]
      /\ taskDoc \in [Tasks -> Docs \cup {NoDoc}]
  BY DEF TypeOK
<1>2. ASSUME FinishDelete PROVE FitDue'
  <2>1. PICK t \in FreeTasks : Enqueue(t, "lock", NoUuid, NoDoc)
    BY <1>2 DEF FinishDelete, EnqueueRecompute, UmapStart
  <2>2. t \in Tasks /\ pc'[t] = "lock"
    BY <1>1, <2>1 DEF Enqueue, FreeTasks
  <2> QED BY <2>2 DEF FitDue, Due
<1>3. ASSUME NEW slug \in Slugs, BeginDelete(slug) PROVE FitDue'
  BY <1>3, IdAssumption DEF BeginDelete, FitDue, LoopFree
<1>4. ASSUME ~FinishDelete, \A slug \in Slugs : ~BeginDelete(slug) PROVE FitDue'
  <2>1. LoopFree
    BY <1>4 DEF Request, BeginUpload, FinishUpload, RejectUpload, Recompute
  <2>2. PICK s \in Tasks : Due(s)
    BY <2>1 DEF FitDue
  <2>3. pc[s] # "free"
    BY <2>2 DEF Due
  <2>4. pc'[s] = pc[s] /\ taskAuthor'[s] = taskAuthor[s] /\ taskDoc'[s] = taskDoc[s]
    BY <1>1, <1>4, <2>3 DEF Request, BeginUpload, FinishUpload, RejectUpload, Recompute,
                            NothingEnqueued, Enqueue, FreeTasks, locals
  <2>5. \A u \in Live : u \in Live'
    <3>1. author' = author \/ \E u \in Uuids, slug \in Slugs : author' = [author EXCEPT ![u] = slug]
      BY <1>4 DEF Request, BeginUpload, FinishUpload, RejectUpload, Recompute, db
    <3> QED BY <1>1, <3>1 DEF Live
  <2>6. \A d \in Docs : owner[d] # NoUuid => owner'[d] = owner[d]
    <3>1. owner' = owner \/ \E d \in FreshDocs : \E u : owner' = [owner EXCEPT ![d] = u]
      BY <1>4 DEF Request, BeginUpload, FinishUpload, RejectUpload, Recompute, db
    <3> QED BY <1>1, <3>1 DEF FreshDocs, Stored
  <2>7. CASE pc[s] \in {"lock", "fetch"}
    BY <2>4, <2>7 DEF FitDue, Due
  <2>8. CASE pc[s] = "insert" /\ taskAuthor[s] \in Live
    BY <2>4, <2>5, <2>8 DEF FitDue, Due
  <2>9. CASE pc[s] = "read" /\ Corpora(s) # {}
    <3>1. PICK d \in Docs : owner[d] = taskAuthor[s]
      BY <2>9 DEF Corpora, DocsOf
    <3>2. taskAuthor[s] # NoUuid
      BY <2>9, IdAssumption DEF DocInv
    <3>3. Corpora(s)' # {}
      BY <2>4, <2>6, <3>1, <3>2 DEF Corpora, DocsOf
    <3> QED BY <2>4, <2>9, <3>3 DEF FitDue, Due
  <2>10. CASE pc[s] \in {"chunk", "embed"} /\ Stored(taskDoc[s])
    <3>1. taskDoc[s] \in Docs
      BY <2>10 DEF DocInv
    <3>2. Stored(taskDoc[s])'
      BY <2>4, <2>6, <2>10, <3>1 DEF Stored
    <3> QED BY <2>4, <2>10, <3>2 DEF FitDue, Due
  <2> QED BY <2>2, <2>7, <2>8, <2>9, <2>10 DEF Due
<1> QED BY <1>2, <1>3, <1>4

\* With nothing due, no step but a fit's touches what the scatter shows.
Quiet ==
  /\ UNCHANGED <<owner, embedded, profiles, coords>>
  /\ \A u \in Live' : HasProfile(u) => u \in Live
  /\ \A d \in Docs : (\A t \in Tasks : taskDoc[t] # d) => \A t \in Tasks : taskDoc'[t] # d
  /\ \A t \in Tasks : /\ pc'[t] \in UmapPcs \/ pc[t] \in UmapPcs => pc'[t] = pc[t]
                      /\ fitted'[t] = fitted[t] /\ todo'[t] = todo[t] /\ held'[t] = held[t]

LEMMA SettleQuiet == ASSUME SettleInv, ~FitDue, Quiet PROVE SettleInv'
<1>1. EmbeddedAuthors' = EmbeddedAuthors /\ (EnoughEmbedded' <=> EnoughEmbedded)
  BY DEF Quiet, EmbeddedAuthors, DocsOf, EnoughEmbedded, TotalEmbedded
<1>2. \A t : Placing(t)' = Placing(t)
  BY <1>1 DEF Placing
<1> SUFFICES ASSUME HasDatabaseUrl
             PROVE  /\ \A t \in Tasks : Covers(t)' /\ (pc'[t] = "update" => coords' = Placing(t))
                    /\ EnoughEmbedded /\ (\A t \in Tasks : pc'[t] \notin UmapPcs) =>
                         Settled' \/ Untouched'
  BY <1>1, <1>2 DEF SettleInv
<1>3. ASSUME NEW t \in Tasks PROVE Covers(t)' /\ (pc'[t] = "update" => coords' = Placing(t))
  <2>1. Covers(t) /\ (pc[t] = "update" => coords = Placing(t))
    BY DEF SettleInv
  <2>2. \A u \in Uuids : Len(profiles'[u]) = Len(profiles[u])
    BY DEF Quiet
  <2>3. pc'[t] \in {"save", "update"} =>
          /\ pc'[t] = pc[t] /\ fitted'[t] = fitted[t]
          /\ todo'[t] = todo[t] /\ held'[t] = held[t]
    BY DEF Quiet, UmapPcs
  <2>4. Covers(t)'
    BY <1>1, <2>1, <2>2, <2>3, CoversKept
  <2> QED BY <2>1, <2>3, <2>4 DEF Quiet
<1>4. ASSUME EnoughEmbedded, \A t \in Tasks : pc'[t] \notin UmapPcs
      PROVE  Settled' \/ Untouched'
  <2>1. Settled \/ Untouched
    BY <1>4 DEF SettleInv, Quiet
  <2>2. Untouched => Untouched'
    BY DEF Untouched, Quiet, Stored
  <2>3. Settled => Settled'
    BY <1>2 DEF Settled, Quiet, HasProfile, Current
  <2> QED BY <2>1, <2>2, <2>3
<1> QED BY <1>3, <1>4

\* The steps of a fit of the corpus as it stands; its commit settles the scatter.
LEMMA SettleFit ==
  ASSUME TypeOK, LockInv, ApartInv, DocInv, SettleInv, ~FitDue, HasDatabaseUrl,
         NEW t \in Tasks, FitStep(t), ~Fetches(t)
  PROVE  SettleInv'
<1>1. /\ pc \in [Tasks -> Pcs]
      /\ pc[t] \in {"save", "update"}
  BY DEF TypeOK, FitStep, SaveCoords, UpdateProfile, Commits, Goto
<1>2. \A s \in Tasks \ {t} : pc'[s] \notin UmapPcs /\ pc'[s] = pc[s]
  BY <1>1, FitStepOthers DEF LockInv, UmapPcs
<1>3. /\ EmbeddedAuthors' = EmbeddedAuthors /\ Live' = Live
      /\ \A u \in Uuids : HasProfile(u)' <=> HasProfile(u)
  BY FitStepCorpus
<1>4. \A s : Placing(s)' = Placing(s)
  BY <1>3 DEF Placing
<1>5. Covers(t) /\ (pc[t] = "update" => coords = Placing(t))
  BY DEF SettleInv
<1>6. \A s \in Tasks : Covers(s)'
  <2>1. Covers(t)'
    BY <1>5, CoversStep
  <2>2. \A s \in Tasks \ {t} : Covers(s)'
    BY <1>2 DEF Covers, UmapPcs
  <2> QED BY <2>1, <2>2
<1>7. CASE SaveCoords(t)
  <2>1. pc'[t] = "update" /\ fitted[t] = EmbeddedAuthors
    BY <1>1, <1>5, <1>7 DEF SaveCoords, Goto, Covers
  <2>2. coords' = Placing(t)
    BY <1>7, <2>1 DEF SaveCoords, Placing
  <2> QED BY <1>2, <1>4, <1>6, <2>1, <2>2 DEF SettleInv, UmapPcs
<1>8. CASE \E u \in Uuids : UpdateProfile(t, u)
  <2>1. pc'[t] = "update" /\ coords' = Placing(t)
    BY <1>5, <1>8 DEF UpdateProfile, db
  <2> QED BY <1>2, <1>4, <1>6, <2>1 DEF SettleInv, UmapPcs
<1>9. CASE Commits(t)
  <2>1. pc'[t] = "done" /\ coords' = Placing(t)
    BY <1>1, <1>5, <1>9 DEF Commits
  <2>2. ASSUME NEW u \in Live', HasProfile(u)' PROVE Current(u)'.json.fit = t
    <3>1. u \in Live /\ u \in Uuids /\ HasProfile(u)
      BY <1>3, <2>2 DEF Live
    <3>2. Current(u)'.json.fit = Placing(t)[u]
      BY <1>5, <1>9, <3>1, CoveringCommit
    <3>3. u \in EmbeddedAuthors
      BY <3>1, AllEmbedded
    <3> QED BY <3>1, <3>2, <3>3 DEF Placing
  <2>3. Settled'
    BY <1>4, <2>1, <2>2 DEF Settled
  <2> QED BY <1>2, <1>6, <2>1, <2>3 DEF SettleInv, UmapPcs
<1> QED BY <1>7, <1>8, <1>9 DEF FitStep

\* The fetch takes in the corpus as it stands.
LEMMA SettleFetch ==
  ASSUME TypeOK, LockInv, NEW t \in Tasks, Fetches(t) PROVE SettleInv'
<1>1. /\ pc \in [Tasks -> Pcs]
      /\ pc[t] = "fetch"
      /\ FitStep(t)
  BY DEF TypeOK, Fetches, FitStep
<1>2. \A s \in Tasks \ {t} : pc'[s] \notin UmapPcs
  BY <1>1, FitStepOthers DEF LockInv, UmapPcs
<1>3. Covers(t)'
  BY <1>1, CoversStep DEF Covers
<1>4. \A s \in Tasks : Covers(s)' /\ pc'[s] # "update"
  BY <1>1, <1>2, <1>3 DEF Covers, UmapPcs, Fetches
<1>5. pc'[t] = "save" \/ ~EnoughEmbedded'
  BY <1>1, FitStepCorpus DEF Fetches
<1> QED BY <1>4, <1>5 DEF SettleInv, UmapPcs

\* A task with nothing due ends without a trace.
LEMMA QuietTask ==
  ASSUME HasDatabaseUrl, TypeOK, RowInv, DocInv, ~FitDue, NEW t \in Tasks,
         \/ ChunkDocument(t) \/ EmbedChunk(t) \/ ReadDocuments(t) \/ InsertProfile(t)
         \/ AcquireLock(t)
  PROVE  Quiet \/ FitDue'
<1>1. /\ pc \in [Tasks -> Pcs]
      /\ \A d \in Docs : embedded[d] <= chunks[d] /\ embedded[d] \in Nat
      /\ ~Due(t)
  BY DEF TypeOK, FitDue
<1>2. /\ UNCHANGED <<author, owner, coords, taskDoc, fitted, todo, held>>
      /\ \A s \in Tasks : pc'[s] \in UmapPcs \/ pc[s] \in UmapPcs => pc'[s] = pc[s]
  BY <1>1 DEF ChunkDocument, EmbedChunk, ReadDocuments, InsertProfile, AcquireLock, Goto,
              UmapStart, UmapPcs, Due, db, corpus, locals, fitLocals
<1>3. UNCHANGED <<embedded, profiles>>
  <2>1. CASE EmbedChunk(t)
    <3>1. taskDoc[t] \in Docs /\ ~Stored(taskDoc[t])
      BY <1>1, <2>1 DEF EmbedChunk, DocInv, Due
    <3>2. chunks[taskDoc[t]] = 0
      BY <3>1 DEF RowInv
    <3>3. ~Pending(taskDoc[t])
      BY <1>1, <3>1, <3>2 DEF Pending
    <3> QED BY <2>1, <3>3 DEF EmbedChunk
  <2>2. CASE InsertProfile(t)
    <3>1. taskAuthor[t] \notin Live
      BY <1>1, <2>2 DEF InsertProfile, Goto, Due
    <3> QED BY <2>2, <3>1 DEF InsertProfile, corpus
  <2>3. CASE ChunkDocument(t) \/ ReadDocuments(t) \/ AcquireLock(t)
    BY <2>3 DEF ChunkDocument, ReadDocuments, AcquireLock, db
  <2> QED BY <2>1, <2>2, <2>3
<1> QED BY <1>2, <1>3 DEF Quiet, Live

\* A handler either enqueues what is due or adds nothing to the scatter.
LEMMA QuietRequest ==
  ASSUME HasDatabaseUrl, TypeOK, RowInv, ~FitDue, Request PROVE Quiet \/ FitDue'
<1>1. /\ author \in [Uuids -> Slugs \cup {Unused, Deleted}]
      /\ pc \in [Tasks -> Pcs]
      /\ taskDoc \in [Tasks -> Docs \cup {NoDoc}]
      /\ LoopFree
  BY DEF TypeOK, FitDue
<1>2. ASSUME NEW r \in Reqs, NEW slug \in Slugs, BeginUpload(r, slug) PROVE Quiet
  <2>1. UNCHANGED <<owner, embedded, profiles, coords, taskDoc, pc, fitted, todo, held>>
    BY <1>2 DEF BeginUpload, NothingEnqueued, locals
  <2>2. \A u \in Live' : HasProfile(u) => u \in Live
    BY DEF RowInv, HasProfile, Live
  <2> QED BY <2>1, <2>2 DEF Quiet
<1>3. ASSUME NEW r \in Reqs, FinishUpload(r) PROVE FitDue'
  <2>1. PICK d \in FreshDocs, t \in FreeTasks :
          owner' = [owner EXCEPT ![d] = req[r]] /\ Enqueue(t, "chunk", req[r], d)
    BY <1>3 DEF FinishUpload
  <2>2. t \in Tasks /\ pc'[t] = "chunk" /\ taskDoc'[t] = d
    BY <1>1, <2>1 DEF Enqueue, FreeTasks
  <2>3. owner'[d] # NoUuid
    BY <1>3, <2>1, IdAssumption DEF FinishUpload, Live, FreshDocs, TypeOK
  <2> QED BY <2>2, <2>3 DEF FitDue, Due, Stored
<1>4. ASSUME NEW r \in Reqs, RejectUpload(r) PROVE Quiet
  BY <1>4 DEF RejectUpload, NothingEnqueued, db, locals, Quiet, Live
<1>5. ASSUME NEW slug \in Slugs, Recompute(slug) PROVE Quiet
  <2>1. PICK u \in Uuids, t \in FreeTasks : Enqueue(t, "read", u, NoDoc)
    BY <1>5 DEF Recompute
  <2>2. /\ UNCHANGED <<author, owner, embedded, profiles, coords, fitted, todo, held>>
        /\ t \in Tasks /\ pc[t] = "free" /\ pc'[t] = "read" /\ taskDoc'[t] = NoDoc
        /\ \A s \in Tasks \ {t} : pc'[s] = pc[s] /\ taskDoc'[s] = taskDoc[s]
    BY <1>1, <1>5, <2>1 DEF Recompute, Enqueue, FreeTasks, db, fitLocals
  <2>3. \A s \in Tasks : pc'[s] \in UmapPcs \/ pc[s] \in UmapPcs => pc'[s] = pc[s]
    BY <2>2 DEF UmapPcs
  <2>4. \A d \in Docs : (\A s \in Tasks : taskDoc[s] # d) => \A s \in Tasks : taskDoc'[s] # d
    BY <2>2, IdAssumption
  <2> QED BY <2>2, <2>3, <2>4 DEF Quiet, Live
<1>6. ASSUME NEW slug \in Slugs, BeginDelete(slug) PROVE FitDue'
  BY <1>6, IdAssumption DEF BeginDelete, FitDue, LoopFree
<1>7. ~FinishDelete
  BY <1>1 DEF FinishDelete, LoopFree
<1> QED BY <1>2, <1>3, <1>4, <1>5, <1>6, <1>7 DEF Request

LEMMA SettleNext ==
  ASSUME TypeOK, LockInv, RowInv, ApartInv, DocInv, SettleInv, [ReliableNext]_vars
  PROVE  SettleInv'
<1> SUFFICES ASSUME HasDatabaseUrl, ~FitDue' PROVE SettleInv'
  BY DEF SettleInv
<1>1. CASE UNCHANGED vars
  BY <1>1 DEF vars, db, server, locals, SettleInv, FitDue, LoopFree, Due, Corpora, DocsOf, Live,
              Stored, Covers, EmbeddedAuthors, Placing, EnoughEmbedded, TotalEmbedded, Settled,
              Untouched, HasProfile, Current
<1>2. CASE Request
  <2>1. ~FitDue
    BY <1>2, DueRequest
  <2> QED BY <1>2, <2>1, QuietRequest, SettleQuiet
<1>3. ASSUME NEW t \in Tasks, TaskStep(t), ~Fetches(t) PROVE SettleInv'
  <2>1. ~FitDue
    <3>1. loop' = loop
      BY <1>3 DEF TaskStep, UmapStep, ChunkDocument, EmbedChunk, ReadDocuments, InsertProfile,
                  AcquireLock, FetchEmbeddings, SaveCoords, UpdateProfile, CommitProfiles, server
    <3> QED BY <1>3, <3>1, DueTask DEF FitDue, LoopFree
  <2> QED BY <1>3, <2>1, ServerFits, QuietTask, SettleQuiet, SettleFit
<1> QED BY <1>1, <1>2, <1>3, SettleFetch DEF ReliableNext

\* A script, once it has run, has run for good.
LEMMA ServerOnly ==
  ASSUME ScriptsTypeOK, [CliNext]_cvars, scripts' = {}
  PROVE  scripts = {} /\ [ReliableNext]_vars
<1>1. \A t \in Tasks : ~RunCli(t)
  BY DEF RunCli
<1>2. UNCHANGED scripts
  BY <1>1 DEF CliNext, Scripts, Script, CliDies, ServerTask, Server, cvars
<1>3. scripts = {}
  BY <1>2
<1>4. Server(Request) \/ (\E t \in Tasks : ServerTask(t)) \/ UNCHANGED cvars
  BY <1>1, <1>3 DEF CliNext, Scripts, Script
<1> QED BY <1>3, <1>4 DEF Server, ServerTask, ReliableNext, cvars

\* A seeded corpus is embedded to the last chunk, and untouched.
LEMMA CliInitSettle == CliInit => LockInv /\ DocInv /\ SettleInv
<1> SUFFICES ASSUME CliInit PROVE LockInv /\ DocInv /\ SettleInv
  OBVIOUS
<1>1. /\ \A t \in Tasks : pc[t] = "free" /\ taskDoc[t] = NoDoc
      /\ umapLock = NoTask
      /\ coords = [u \in Uuids |-> NoTask]
  BY DEF CliInit, ServerStarted
<1>2. LockInv
  BY <1>1, IdAssumption DEF LockInv, UmapPcs
<1>3. \A d \in Docs : embedded[d] = IF Stored(d) THEN ChunkCount[d] ELSE 0
  BY DEF CliInit
<1>4. \A u \in Uuids : HasProfile(u) => DocsOf(u) # {}
  BY DEF CliInit, HasProfile
<1>5. DocInv
  BY <1>1, <1>3, <1>4, ChunkAssumption DEF DocInv, Live
<1>6. Settled \/ Untouched
  <2>1. CASE \E d \in Docs : Stored(d)
    BY <1>1, <2>1, IdAssumption DEF Untouched
  <2>2. CASE \A d \in Docs : ~Stored(d)
    <3>1. \A u \in Uuids : DocsOf(u) = {}
      BY <2>2, IdAssumption DEF DocsOf, Stored
    <3>2. PICK t \in Tasks : TRUE
      BY FiniteAssumption
    <3>3. coords = Placing(t)
      BY <1>1, <3>1 DEF Placing, EmbeddedAuthors
    <3> QED BY <1>4, <3>1, <3>3 DEF Settled, Live
  <2> QED BY <2>1, <2>2
<1>7. SettleInv
  BY <1>1, <1>6 DEF SettleInv, Covers
<1> QED BY <1>2, <1>5, <1>7

\* The invariant of UmapCli, as the model states it.
THEOREM CliInvariant == CliSpec => []CliInv
<1>1. CliInit => CliInv
  BY CliInitType, CliInitRow, CliInitOrder, CliInitApart, CliInitSerial, CliInitSettle
  DEF CliInit, AloneInv, CliInv, ScriptsTypeOK
<1>2. CliInv /\ [CliNext]_cvars => CliInv'
  <2> SUFFICES ASSUME CliInv, [CliNext]_cvars PROVE CliInv'
    OBVIOUS
  <2>1. /\ TypeOK /\ ScriptsTypeOK /\ RowInv /\ OrderInv /\ ApartInv /\ SerialInv /\ AloneInv
        /\ scripts = {} => LockInv /\ DocInv /\ SettleInv
    BY DEF CliInv, ScriptsTypeOK
  <2>2. TypeOK' /\ ScriptsTypeOK' /\ RowInv' /\ OrderInv' /\ ApartInv' /\ SerialInv' /\ AloneInv'
    BY <2>1, CliNextType, CliRow, OrderNext, ApartNext, SerialNext, AloneNext
  <2>3. scripts' = {} => LockInv' /\ DocInv' /\ SettleInv'
    <3>1. SUFFICES ASSUME scripts' = {} PROVE LockInv' /\ DocInv' /\ SettleInv'
      OBVIOUS
    <3>2. LockInv /\ DocInv /\ SettleInv /\ [ReliableNext]_vars
      BY <2>1, <3>1, ServerOnly
    <3>3. [Next]_vars
      BY <3>2 DEF Next
    <3> QED BY <2>1, <3>2, <3>3, LockNext, DocNext, SettleNext
  <2> QED BY <2>2, <2>3 DEF CliInv, ScriptsTypeOK
<1> QED BY <1>1, <1>2, PTL DEF CliSpec

\* At rest nothing is due.
LEMMA NothingDue ==
  ASSUME AtRest PROVE ~FitDue /\ \A t \in Tasks : pc[t] \notin UmapPcs
<1> QED BY DEF AtRest, FitDue, Due, LoopFree, UmapPcs

\* Without the script, and without faults, the server keeps the scatter complete and
\* current: of a corpus that was uploaded always, of a seeded one from the first fit on.
THEOREM ServerSettles == CliSpec => []SettlesUnaided
<1>1. CliInv => SettlesUnaided
  <2>1. SUFFICES ASSUME CliInv, scripts = {}, AtRest, HasDatabaseUrl, EnoughEmbedded,
                        AllUploaded \/ \E u \in Uuids : coords[u] # NoTask
                 PROVE  Settled
    BY DEF SettlesUnaided, ScatterSettles
  <2>2. Settled \/ Untouched
    BY <2>1, NothingDue DEF CliInv, SettleInv
  <2> QED BY <2>1, <2>2 DEF Untouched, AllUploaded
<1> QED BY <1>1, CliInvariant, PTL

-----------------------------------------------------------------------------
(* The server from empty tables. *)

\* Every document was uploaded, and its task remembers it.
Uploaded == AllUploaded /\ \A t \in FreeTasks : taskDoc[t] = NoDoc

LEMMA UploadedNext == ASSUME TypeOK, Uploaded, [ReliableNext]_vars PROVE Uploaded'
<1>1. /\ owner \in [Docs -> Uuids \cup {NoUuid}]
      /\ pc \in [Tasks -> Pcs]
      /\ taskDoc \in [Tasks -> Docs \cup {NoDoc}]
  BY DEF TypeOK
<1>2. ASSUME UNCHANGED <<owner, taskDoc>>, \A t \in Tasks : pc'[t] = "free" => pc[t] = "free"
      PROVE  Uploaded'
  BY <1>2 DEF Uploaded, AllUploaded, Stored, FreeTasks
<1>3. ASSUME NEW t \in Tasks, TaskStep(t) PROVE Uploaded'
  <2>1. UNCHANGED <<owner, taskDoc>>
    BY <1>3 DEF TaskStep, UmapStep, ChunkDocument, EmbedChunk, ReadDocuments, InsertProfile,
           AcquireLock, FetchEmbeddings, SaveCoords, UpdateProfile, CommitProfiles, db, corpus, locals
  <2>2. \A s \in Tasks : pc'[s] = "free" => pc[s] = "free"
    BY <1>1, <1>3 DEF TaskStep, UmapStep, ChunkDocument, EmbedChunk, ReadDocuments,
           InsertProfile, AcquireLock, FetchEmbeddings, SaveCoords, UpdateProfile,
           CommitProfiles, Goto, UmapStart
  <2> QED BY <1>2, <2>1, <2>2
<1>4. ASSUME NEW t \in FreeTasks, NEW start \in Pcs \ {"free"}, NEW u, NEW d \in Docs \cup {NoDoc},
             Enqueue(t, start, u, d),
             \A e \in Docs : Stored(e)' => Stored(e) \/ e = d
      PROVE  Uploaded'
  <2>1. /\ pc[t] = "free" /\ taskDoc[t] = NoDoc /\ t \in Tasks
        /\ pc'[t] # "free" /\ taskDoc'[t] = d
        /\ \A s \in Tasks \ {t} : pc'[s] = pc[s] /\ taskDoc'[s] = taskDoc[s]
    BY <1>1, <1>4 DEF Enqueue, FreeTasks, Uploaded
  <2> QED BY <1>4, <2>1, IdAssumption DEF Uploaded, AllUploaded, FreeTasks
<1>5. ASSUME NEW r \in Reqs, FinishUpload(r) PROVE Uploaded'
  <2>1. PICK d \in FreshDocs, t \in FreeTasks :
          owner' = [owner EXCEPT ![d] = req[r]] /\ Enqueue(t, "chunk", req[r], d)
    BY <1>5 DEF FinishUpload
  <2> QED BY <1>1, <1>4, <2>1 DEF FreshDocs, Stored, Pcs
<1>6. ASSUME NEW slug \in Slugs, Recompute(slug) PROVE Uploaded'
  BY <1>4, <1>6 DEF Recompute, Stored, Pcs, db
<1>7. CASE FinishDelete
  <2>1. \A d \in Docs : Stored(d)' => Stored(d)
    BY <1>7 DEF FinishDelete, Cascade, Stored
  <2> QED BY <1>4, <1>7, <2>1 DEF FinishDelete, EnqueueRecompute, UmapStart, Pcs
<1>8. ASSUME \/ \E r \in Reqs, slug \in Slugs : BeginUpload(r, slug)
             \/ \E r \in Reqs : RejectUpload(r)
             \/ \E slug \in Slugs : BeginDelete(slug)
      PROVE  Uploaded'
  BY <1>2, <1>8 DEF BeginUpload, RejectUpload, BeginDelete, NothingEnqueued, db, corpus, locals
<1>9. CASE UNCHANGED vars
  BY <1>2, <1>9 DEF vars, db, locals
<1> QED
  BY <1>3, <1>5, <1>6, <1>7, <1>8, <1>9 DEF ReliableNext, Request

\* From empty tables, and without faults, the scatter is complete and current whenever
\* the server is idle, however uploads, recomputes and deletes have raced.
THEOREM ScatterKept == ReliableSpec => []ScatterSettles
<1> DEFINE I == IInv /\ DocInv /\ SettleInv /\ Uploaded
<1>1. Init => I
  <2> SUFFICES ASSUME Init PROVE DocInv /\ SettleInv /\ Uploaded
    BY InitType, InitRow, InitFit DEF IInv
  <2>1. /\ \A d \in Docs : ~Stored(d)
        /\ \A u \in Uuids : DocsOf(u) = {} /\ ~HasProfile(u) /\ coords[u] = NoTask
        /\ \A t \in Tasks : pc[t] = "free" /\ taskDoc[t] = NoDoc
    BY IdAssumption DEF Init, ServerStarted, Stored, DocsOf, HasProfile
  <2>2. PICK t \in Tasks : TRUE
    BY FiniteAssumption
  <2>3. coords = Placing(t)
    BY <2>1 DEF Init, Placing, EmbeddedAuthors
  <2>4. Settled
    BY <2>1, <2>3 DEF Settled, Live
  <2> QED BY <2>1, <2>4 DEF DocInv, SettleInv, Covers, Uploaded, AllUploaded, Live, FreeTasks
<1>2. I /\ [ReliableNext]_vars => I'
  <2> SUFFICES ASSUME I, [ReliableNext]_vars PROVE I'
    OBVIOUS
  <2>1. IInv'
    BY NextType, LockNext, RowNext, FitNext DEF IInv, Next
  <2>2. ApartInv
    BY DEF IInv, FitInv, ApartInv
  <2> QED BY <2>1, <2>2, DocNext, SettleNext, UploadedNext DEF IInv
<1>3. I => ScatterSettles
  <2>1. SUFFICES ASSUME I, AtRest, HasDatabaseUrl, EnoughEmbedded PROVE Settled
    BY DEF ScatterSettles
  <2> QED BY <2>1, NothingDue DEF SettleInv, Untouched, Uploaded, AllUploaded
<1> QED BY <1>1, <1>2, <1>3, PTL DEF ReliableSpec
=============================================================================
