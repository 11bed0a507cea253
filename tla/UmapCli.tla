------------------------------ MODULE UmapCli ------------------------------
(***************************************************************************)
(* scripts/precompute_umap.py beside the corpus service: a process of its  *)
(* own that runs the same recompute_umap.  _UMAP_LOCK belongs to the       *)
(* server's process, so the script never waits for it: its fit overlaps    *)
(* the server's and those of other runs, and they meet only at the row     *)
(* locks of style_profiles.                                                *)
(*                                                                         *)
(* It is the first thing to run on a corpus that the seeding script has    *)
(* loaded and embedded, whose profiles show no position yet.               *)
(***************************************************************************)
EXTENDS Corpus

CONSTANTS
  Seedings,  \* what seed_corpus.py has stored: functions document -> author or NoUuid
  SlugOf,    \* author of the seeded corpus -> its slug
  Place,     \* author uuid -> its place in ORDER BY d.author_id
  MaxRuns    \* how often the script is run

ASSUME SeedAssumption ==
  /\ Seedings \subseteq [Docs -> Uuids \cup {NoUuid}]
  /\ SlugOf \in [DOMAIN SlugOf -> Slugs] /\ IsInjective(SlugOf)
  /\ \A seeding \in Seedings : Range(seeding) \ {NoUuid} \subseteq DOMAIN SlugOf
ASSUME RunAssumption ==
  /\ Place \in [Uuids -> Nat] /\ IsInjective(Place)
  /\ MaxRuns \in Nat
ASSUME FiniteAssumption == IsFiniteSet(Uuids) /\ Tasks # {}   \* a uuid has 128 bits

VARIABLES
  scripts,  \* the slots that are runs of the script
  alone     \* the run that nothing else has stepped beside so far, or NoTask

cvars == <<vars, scripts, alone>>

\* seed_corpus.py --with-embeddings --with-profiles on empty tables, unless it stored
\* nothing yet.
SeededRow(u) ==
  LET profile == [docs |-> DocsOf(u), fit |-> NoTask]
  IN  [json |-> profile, hash |-> profile]

CliInit ==
  /\ owner \in Seedings
  /\ author = [u \in Uuids |-> IF DocsOf(u) # {} THEN SlugOf[u] ELSE Unused]
  /\ chunks = [d \in Docs |-> IF Stored(d) THEN ChunkCount[d] ELSE 0]
  /\ embedded = chunks
  /\ profiles = [u \in Uuids |-> IF DocsOf(u) # {} THEN <<SeededRow(u)>> ELSE <<>>]
  /\ coords = [u \in Uuids |-> NoTask]
  /\ ServerStarted
  /\ scripts = {}
  /\ alone = NoTask

-----------------------------------------------------------------------------
(* A run of the script. *)

\* run(): a connection of its own, and no lock.
RunCli(t) ==
  /\ t \in FreeTasks
  /\ Cardinality(scripts) < MaxRuns
  /\ LoopFree \/ FreeTasks # {t}          \* a bound: the last slot is the delete's
  /\ pc' = [pc EXCEPT ![t] = "fetch"]
  /\ scripts' = scripts \cup {t}
  /\ alone' = IF AtRest THEN t ELSE NoTask
  /\ UNCHANGED <<db, server, locals>>

\* fetch_embeddings; too few chunks and the script exits 1.
CliFetch(t) ==
  /\ \/ /\ EnoughEmbedded
        /\ Goto(t, "fetch", "save")
        /\ fitted' = [fitted EXCEPT ![t] = EmbeddedAuthors]
     \/ /\ ~EnoughEmbedded
        /\ Goto(t, "fetch", "done")
        /\ UNCHANGED fitted
  /\ UNCHANGED <<db, server, taskAuthor, taskDoc, read, todo, held>>

CliAppend(t) ==                                   \* mutant: no TRUNCATE
  /\ Goto(t, "save", "update")
  /\ coords' = [u \in Uuids |-> IF u \in fitted[t] THEN t ELSE coords[u]]
  /\ todo' = [todo EXCEPT ![t] = fitted[t]]
  /\ UNCHANGED <<corpus, profiles, server, taskAuthor, taskDoc, read, fitted, held>>

CliSave(t) == SaveCoords(t)

CliCommitEach(t) ==                               \* mutant: each UPDATE commits by itself
  /\ Goto(t, "update", IF todo[t] = {} THEN "done" ELSE "update")
  /\ profiles' = [u \in Uuids |-> Patch(profiles[u], held[t][u], t)]
  /\ held' = [held EXCEPT ![t] = NothingHeld]
  /\ UNCHANGED <<corpus, coords, server, taskAuthor, taskDoc, read, fitted, todo>>

\* The second commit: until then the rows stay locked and the updates invisible.
CliCommit(t) ==
  /\ todo[t] = {}
  /\ Goto(t, "update", "done")
  /\ profiles' = [u \in Uuids |-> Patch(profiles[u], held[t][u], t)]
  /\ EndFit(t)
  /\ UNCHANGED <<corpus, coords, server, taskAuthor, taskDoc, read>>

CliStep(t) ==
  \/ CliFetch(t)
  \/ CliSave(t)
  \/ \E u \in Uuids : UpdateProfile(t, u)
  \/ CliCommit(t)

\* The script is stopped or loses its connection: the open transaction rolls back.
CliDies(t) ==
  /\ pc[t] \in UmapPcs
  /\ pc' = [pc EXCEPT ![t] = "done"]
  /\ EndFit(t)
  /\ alone' = NoTask
  /\ UNCHANGED <<db, server, taskAuthor, taskDoc, read, scripts>>

\* update_style_profiles goes through the authors in the order of the rows, which
\* fetch_embeddings sorts by author: any two fits lock their common rows in one order.
Unsorted == TRUE                                  \* mutant: the rows come in any order
ByAuthorId ==
  \A t \in Tasks, u \in Uuids, v \in Uuids :
    u \in todo[t] \ todo'[t] /\ v \in todo'[t] => Place[u] < Place[v]

-----------------------------------------------------------------------------
(* Specifications. *)

Server(A) == A /\ alone' = NoTask /\ UNCHANGED scripts

Script(t) ==
  /\ t \in scripts
  /\ CliStep(t)
  /\ ByAuthorId
  /\ alone' = IF alone = t THEN t ELSE NoTask
  /\ UNCHANGED scripts

ServerTask(t) == t \notin scripts /\ Server(TaskStep(t)) /\ ByAuthorId

Scripts == \E t \in Tasks : RunCli(t) \/ Script(t)

CliNext == \/ Scripts
           \/ \E t \in scripts : CliDies(t)
           \/ \E t \in Tasks : ServerTask(t)
           \/ Server(Request)

\* Nothing fails but the script.
CliSpec == CliInit /\ [][CliNext]_cvars

-----------------------------------------------------------------------------
(* Properties. *)

\* Scripts alone, on a corpus that the server leaves as it is, may overlap and die at any
\* point: the rows that each of them keeps locked until its one commit, taken in one
\* order, put them one after the other, and the positions shown are still of one fit.
ScriptsOnly == \A t \in Tasks : pc[t] # "free" => t \in scripts
ScriptsSerialize == ScriptsOnly => OneFit

\* Fits of the script and the server hold row locks while they wait for further ones, and
\* a delete waits for both; they never wait in a circle: when fits are updating
\* profiles, at least one of them can go on.
Waits(t) ==
  /\ todo[t] # {}
  /\ \A u \in todo[t] : \E s \in Tasks \ {t} :
       held[s][u] = Len(profiles[u]) /\ held[s][u] # 0
NoCircularWait ==
  (\E t \in Tasks : pc[t] = "update") => \E t \in Tasks : pc[t] = "update" /\ ~Waits(t)

\* decision_log.md:59 puts the scatter right by running the script again.  Whatever
\* overlapping fits and scripts that died left behind, one run with nothing beside it
\* is enough: it places every author that has embedded chunks, takes away all other
\* positions, and leaves no coordinates of an earlier fit.
Repaired(t) ==
  /\ coords = Placing(t)
  /\ \A u \in Live : HasProfile(u) => Current(u).json.fit = Placing(t)[u]
RerunRepairs ==
  alone # NoTask /\ pc[alone] = "done" /\ EnoughEmbedded => Repaired(alone)

\* Without the script, the server itself keeps the scatter complete and current: always,
\* if every document was uploaded, and otherwise from the first fit on.
AllUploaded == \A d \in Docs : Stored(d) => \E t \in Tasks : taskDoc[t] = d
SettlesUnaided ==
  scripts = {} /\ (AllUploaded \/ \E u \in Uuids : coords[u] # NoTask) => ScatterSettles

-----------------------------------------------------------------------------
(* Why they hold: the invariant their proofs are by induction on. *)

\* A fit locks the rows of style_profiles in the order of their authors.
OrderInv ==
  \A t \in Tasks :
    /\ pc[t] # "update" => held[t] = NothingHeld
    /\ \A u, v \in Uuids : held[t][u] # 0 /\ v \in todo[t] => Place[u] < Place[v]

\* What is left of FitInv without the lock: only authors with embedded chunks are
\* placed, and fits, however they overlap, UPDATE rows of no other authors.
ApartInv ==
  /\ Placed \subseteq EmbeddedAuthors
  /\ \A t \in Tasks : pc[t] \in {"save", "update"} =>
       \A u \in fitted[t] : author[u] # Unused /\ (u \in Live => u \in EmbeddedAuthors)
  /\ \A t \in Tasks : pc[t] = "update" =>
       /\ todo[t] \subseteq fitted[t]
       /\ \A u \in Uuids :
            held[t][u] <= Len(profiles[u]) /\ (held[t][u] # 0 => u \in fitted[t])

\* A fit that nothing has overtaken since its fetch: it is of the corpus as it stands,
\* and the rows it has UPDATEd are still the latest.
Covers(t) ==
  pc[t] \in {"save", "update"} =>
    /\ fitted[t] = EmbeddedAuthors
    /\ pc[t] = "update" =>
         \A u \in EmbeddedAuthors \ todo[t] : held[t][u] = Len(profiles[u])

\* Scripts alone change neither the corpus nor which row is the latest.
SerialInv ==
  /\ scripts \cap FreeTasks = {}
  /\ ScriptsOnly => OneFit /\ \A t \in Tasks : Covers(t)

\* The run that nothing has stepped beside, from call to call.
AloneInv ==
  alone # NoTask =>
    /\ pc[alone] \in UmapPcs \cup {"done"}
    /\ Covers(alone)
    /\ pc[alone] = "update" => coords = Placing(alone)
    /\ pc[alone] = "done" /\ EnoughEmbedded => Repaired(alone)

\* A stored document has embedded chunks or a task that will embed them, a task works on
\* documents of its author alone, and nobody has a profile but of stored documents.
Working(t, d) ==
  /\ taskDoc[t] = d /\ owner[d] = taskAuthor[t]
  /\ pc[t] = "chunk" \/ (pc[t] = "embed" /\ chunks[d] > 0)
DocInv ==
  /\ \A d \in Docs : Stored(d) => embedded[d] > 0 \/ \E t \in Tasks : Working(t, d)
  /\ \A t \in Tasks : pc[t] \in {"chunk", "embed"} =>
       taskDoc[t] \in Docs /\ owner[taskDoc[t]] \in {taskAuthor[t], NoUuid}
  /\ \A t \in Tasks : pc[t] \in {"chunk", "embed", "read", "insert"} => taskAuthor[t] \in Uuids
  /\ \A t \in Tasks : pc[t] = "insert" /\ taskAuthor[t] \in Live => DocsOf(taskAuthor[t]) # {}
  /\ \A u \in Live : HasProfile(u) => DocsOf(u) # {}

\* A fit of the corpus as it is now is still to come: a delete will enqueue one, or a
\* task gets as far as its own.
Due(t) ==
  \/ pc[t] \in {"lock", "fetch"}
  \/ pc[t] = "insert" /\ taskAuthor[t] \in Live
  \/ pc[t] = "read" /\ Corpora(t) # {}
  \/ pc[t] \in {"chunk", "embed"} /\ Stored(taskDoc[t])
FitDue == LoopFree => \E t \in Tasks : Due(t)

\* Otherwise the fit in progress is of that corpus, and without one the scatter is settled,
\* but for a seeded corpus that no fit has reached yet.
Untouched ==
  /\ \A u \in Uuids : coords[u] = NoTask
  /\ \E d \in Docs : Stored(d) /\ \A t \in Tasks : taskDoc[t] # d
SettleInv ==
  HasDatabaseUrl /\ ~FitDue =>
    /\ \A t \in Tasks : Covers(t) /\ (pc[t] = "update" => coords = Placing(t))
    /\ EnoughEmbedded /\ (\A t \in Tasks : pc[t] \notin UmapPcs) =>
         Settled \/ Untouched

CliInv ==
  /\ TypeOK /\ scripts \subseteq Tasks /\ alone \in Tasks \cup {NoTask}
  /\ RowInv /\ OrderInv /\ ApartInv /\ SerialInv /\ AloneInv
  /\ scripts = {} => LockInv /\ DocInv /\ SettleInv
=============================================================================
