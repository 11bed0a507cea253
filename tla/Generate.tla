------------------------------ MODULE Generate ------------------------------
(***************************************************************************)
(* POST /api/generate: the route of backend/app/routes/generate.py around  *)
(* orchestrate() of autoria_ai/generator.py, which embeds the prompt,      *)
(* retrieves passages, makes two Watsonx calls at the same time (module    *)
(* Watsonx), signs a passport for the conditioned text and stores it.      *)
(*                                                                         *)
(* The route runs on the event loop and is atomic between its awaits.      *)
(* asyncio.to_thread hands the blocking work to the loop's one pool, whose *)
(* workers all requests share.  Meanwhile the author may be deleted or     *)
(* profiled again, and its passages indexed.  The browser may give up      *)
(* (api.ts): the server does not notice, and nothing here changes.         *)
(***************************************************************************)
EXTENDS Watsonx, FiniteSets

CONSTANTS
  Reqs,           \* requests
  Authors,        \* primary keys of public.authors
  Passages,       \* chunks
  PassageOf,      \* the author of each passage
  TopK,           \* k of retrieve_top_k
  Workers,        \* threads of the loop's default executor
  MaxProfiles     \* bound of the model: recomputes of one author

Branches == {"vanilla", "autoria"}
ASSUME CallAssumption == Calls = Reqs \X Branches
ASSUME PassageAssumption == PassageOf \in [Passages -> Authors]
ASSUME SizeAssumption == /\ TopK \in Nat \ {0} /\ Workers \in Nat \ {0}
                         /\ MaxProfiles \in Nat

VARIABLES
  alive,      \* authors with a row
  profile,    \* author -> number of style_profiles rows; the last one is current
  indexed,    \* passages with an embedding
  passports,  \* requests whose passport has a row in public.passports
  pc,         \* where the handler of a request awaits
  author,     \* author_uuid, resolved before the first await
  version,    \* the style profile read before the first await
  rag,        \* chunks: what retrieve_top_k returned
  prompted,   \* those of them in the system prompt
  response    \* what the server answered

db == <<alive, profile, indexed, passports>>
handler == <<pc, author, version, rag, prompted, response>>
vars == <<db, handler, wvars>>

\* A passport names the text it hashes, by the attempt that wrote it.
Passport == [text : Attempts, profile : 1 .. MaxProfiles, sources : SUBSET Passages]
None == [status |-> "none"]
Error(s) == [status |-> s]
Answer == [status : {"200"}, vanilla : 0 .. MaxAttempts, autoria : Attempts,
           passport : Passport]
Errors == {Error("404"), Error("500"), Error("503")}

TypeOK ==
  /\ WTypeOK
  /\ alive \subseteq Authors
  /\ profile \in [Authors -> 0 .. MaxProfiles]
  /\ indexed \subseteq Passages
  /\ passports \subseteq Reqs
  /\ pc \in [Reqs -> {"idle", "queued", "embedding", "retrieve", "branches", "done"}]
  /\ author \in [Reqs -> Authors]
  /\ version \in [Reqs -> 0 .. MaxProfiles]
  /\ rag \in [Reqs -> SUBSET Passages]
  /\ prompted \in [Reqs -> SUBSET Passages]
  /\ response \in [Reqs -> {None} \cup Errors \cup Answer]

Init ==
  /\ WInit
  /\ alive = {} /\ indexed = {} /\ passports = {}
  /\ profile = [u \in Authors |-> 0]
  /\ pc = [r \in Reqs |-> "idle"]
  /\ author \in [Reqs -> Authors]
  /\ version = [r \in Reqs |-> 0]
  /\ rag = [r \in Reqs |-> {}]
  /\ prompted = [r \in Reqs |-> {}]
  /\ response = [r \in Reqs |-> None]

-----------------------------------------------------------------------------
(* The pool. *)

Running(c) == phase[c] \notin {"idle"} \cup Returned

\* mutant: orchestrate itself occupies a worker while it waits for its two calls.
BusyNested == Cardinality({r \in Reqs : pc[r] \in {"embedding", "retrieve", "branches"}})
                + Cardinality({c \in Calls : Running(c)})

\* Workers in use: a Watsonx call keeps its own while it waits, sleeps and retries.
Busy == Cardinality({r \in Reqs : pc[r] = "embedding"})
          + Cardinality({c \in Calls : Running(c)})
WorkerFree == Busy < Workers

Goto(r, label) == pc' = [pc EXCEPT ![r] = label]
Respond(r, v) == /\ Goto(r, "done")
                 /\ response' = [response EXCEPT ![r] = v]

-----------------------------------------------------------------------------
(* The handler. *)

\* generate_text up to the first await: 404, 503 without the orchestrator, an
\* exception of _ensure_models, or the job that embeds the prompt.
Receive(r) ==
  /\ pc[r] = "idle"
  /\ IF author[r] \notin alive \/ profile[author[r]] = 0
     THEN Respond(r, Error("404")) /\ UNCHANGED version
     ELSE \/ /\ Goto(r, "queued")
             /\ version' = [version EXCEPT ![r] = profile[author[r]]]
             /\ UNCHANGED response
          \/ \E s \in {"500", "503"} : Respond(r, Error(s)) /\ UNCHANGED version
  /\ UNCHANGED <<db, author, rag, prompted, wvars>>

\* asyncio.to_thread(embedding_model.encode, prompt)
StartEmbedding(r) ==
  /\ pc[r] = "queued"
  /\ WorkerFree
  /\ Goto(r, "embedding")
  /\ UNCHANGED <<db, author, version, rag, prompted, response, wvars>>

EndEmbedding(r) ==
  /\ pc[r] = "embedding"
  /\ \/ Goto(r, "retrieve") /\ UNCHANGED response
     \/ Respond(r, Error("500"))
  /\ UNCHANGED <<db, author, version, rag, prompted, wvars>>

\* mutant: author_uuid is not passed on, so the search is over all authors.
RetrieveGlobally(r) ==
  /\ pc[r] = "retrieve"
  /\ \E found \in SUBSET indexed :
       /\ Cardinality(found) <= TopK
       /\ rag' = [rag EXCEPT ![r] = found]
       /\ prompted' = [prompted EXCEPT ![r] = {}]
  /\ Goto(r, "branches")
  /\ UNCHANGED <<db, author, version, response, wvars>>

\* retrieve_top_k over the author's embedded chunks, or none if it fails; then
\* build_system_prompt, which keeps those that fit into its budget of tokens.
Retrieve(r) ==
  LET own == {p \in indexed : PassageOf[p] = author[r]} IN
  /\ pc[r] = "retrieve"
  /\ \E found \in SUBSET own, kept \in SUBSET own :
       /\ found = {} \/ found = own \/ Cardinality(found) = TopK
       /\ Cardinality(found) <= TopK
       /\ kept \subseteq found
       /\ rag' = [rag EXCEPT ![r] = found]
       /\ prompted' = [prompted EXCEPT ![r] = kept]
  /\ Goto(r, "branches")
  /\ UNCHANGED <<db, author, version, response, wvars>>

\* One of the two asyncio.to_thread(wx, ...) of the gather gets a worker.
StartBranch(r, b) ==
  /\ pc[r] = "branches"
  /\ WorkerFree
  /\ Begin(<<r, b>>) \/ NotConfigured(<<r, b>>)
  /\ UNCHANGED <<db, handler, configured>>

Branch(c) == WProceed(c) /\ UNCHANGED <<db, handler, configured>>

ThreadEnd(c) == /\ \E a \in Attempts : ThreadEnds(c, a)
                /\ UNCHANGED <<db, handler, configured>>

\* gather has both results.
Joined(r) == pc[r] = "branches" /\ \A b \in Branches : phase[<<r, b>>] \in Returned

\* The conditioned branch is lost: WatsonxError, 503.
Unavailable(r) ==
  /\ Joined(r)
  /\ phase[<<r, "autoria">>] = "error"
  /\ Respond(r, Error("503"))
  /\ UNCHANGED <<db, author, version, rag, prompted, wvars>>

\* Scoring or signing raises: nothing in the route catches it.
SigningFails(r) ==
  /\ Joined(r)
  /\ phase[<<r, "autoria">>] = "text"
  /\ Respond(r, Error("500"))
  /\ UNCHANGED <<db, author, version, rag, prompted, wvars>>

\* mutant: the results of gather are unpacked in the other order.
SignSwapped(r) == outcome[<<r, "vanilla">>]

\* issue_passport(output_text=autoria_text, ...)
Sign(r) == outcome[<<r, "autoria">>]

\* Scores, passport, one attempt to store it, response: no await in between.  A
\* vanilla branch that failed is degraded (0), not an error.
Succeed(r) ==
  /\ Joined(r)
  /\ phase[<<r, "autoria">>] = "text"
  /\ Respond(r, [status |-> "200", vanilla |-> outcome[<<r, "vanilla">>],
                 autoria |-> outcome[<<r, "autoria">>],
                 passport |-> [text |-> Sign(r), profile |-> version[r],
                               sources |-> rag[r]]])
  /\ \/ passports' = passports \cup {r} /\ author[r] \in alive
     \/ UNCHANGED passports
  /\ UNCHANGED <<alive, profile, indexed, author, version, rag, prompted, wvars>>

-----------------------------------------------------------------------------
(* Around the handler. *)

CreateAuthor(u) ==
  /\ u \notin alive /\ profile[u] = 0
  /\ alive' = alive \cup {u}
  /\ UNCHANGED <<profile, indexed, passports, handler, wvars>>

\* _recompute_style_profile, on a background thread; the first follows the upload.
NewProfile(u) ==
  /\ u \in alive /\ profile[u] < MaxProfiles
  /\ profile' = [profile EXCEPT ![u] = @ + 1]
  /\ UNCHANGED <<alive, indexed, passports, handler, wvars>>

IndexPassage(p) ==
  /\ PassageOf[p] \in alive /\ p \notin indexed
  /\ indexed' = indexed \cup {p}
  /\ UNCHANGED <<alive, profile, passports, handler, wvars>>

\* mutant: passports outlive their author.
DeleteAuthorKeeps(u) ==
  /\ u \in alive
  /\ alive' = alive \ {u}
  /\ indexed' = {p \in indexed : PassageOf[p] # u}
  /\ UNCHANGED <<profile, passports, handler, wvars>>

\* delete_author; its profiles, chunks and passports go with the row.  A uuid is not
\* used again: its count of profiles stays above 0.
DeleteAuthor(u) ==
  /\ u \in alive
  /\ alive' = alive \ {u}
  /\ indexed' = {p \in indexed : PassageOf[p] # u}
  /\ passports' = {r \in passports : author[r] # u}
  /\ UNCHANGED <<profile, handler, wvars>>

-----------------------------------------------------------------------------
(* Specifications. *)

\* The event loop and the workers.
Serve(r) ==
  \/ StartEmbedding(r) \/ EndEmbedding(r) \/ Retrieve(r)
  \/ \E b \in Branches : StartBranch(r, b) \/ Branch(<<r, b>>)
  \/ Unavailable(r) \/ SigningFails(r) \/ Succeed(r)

Environment ==
  \/ \E u \in Authors : CreateAuthor(u) \/ NewProfile(u) \/ DeleteAuthor(u)
  \/ \E p \in Passages : IndexPassage(p)
  \/ \E c \in Calls : ThreadEnd(c)

Next == Environment \/ \E r \in Reqs : Receive(r) \/ Serve(r)

Spec == Init /\ [][Next]_vars

\* A worker that becomes free takes the oldest job and a job that runs goes on, so
\* each request is served again and again; strongly, as it competes for workers.
FairSpec ==
  /\ Spec
  /\ \A r \in Reqs :
       /\ WF_vars(EndEmbedding(r) \/ Retrieve(r) \/ Unavailable(r) \/ Succeed(r))
       /\ SF_vars(StartEmbedding(r))
       /\ \A b \in Branches : SF_vars(StartBranch(r, b)) /\ WF_vars(Branch(<<r, b>>))

-----------------------------------------------------------------------------
(* Properties. *)

OK(r) == response[r].status = "200"

\* A request is answered once, with a passport that signs the very text returned as
\* the conditioned one, or with an error: no text without a passport.
Once == INSTANCE Exchange WITH
  Clients <- Reqs, Failure <- Error("503"), NoAnswer <- None,
  Proper <- {v \in Answer : v.passport.text = v.autoria},
  asked <- {r \in Reqs : pc[r] # "idle"},
  answer <- [r \in Reqs |-> IF response[r] \in Errors THEN Error("503") ELSE response[r]]
AnswersWithPassport == Once!Spec

\* What is returned and signed is what the branches of this request answered, with
\* only the author's own passages as sources, none of the prompt's left out, and a
\* profile the author had.
AnswersTrue ==
  \A r \in Reqs : OK(r) =>
    /\ phase[<<r, "autoria">>] = "text"
    /\ response[r].autoria = outcome[<<r, "autoria">>]
    /\ response[r].vanilla = outcome[<<r, "vanilla">>]
    /\ \A p \in response[r].passport.sources : PassageOf[p] = author[r]
    /\ prompted[r] \subseteq response[r].passport.sources
    /\ response[r].passport.profile \in 1 .. profile[author[r]]

\* Stored passports are issued ones, of authors that live (on delete cascade).
RowsIssued == \A r \in passports : OK(r) /\ author[r] \in alive

\* Every request is answered, however many compete for the pool, and though the
\* threads of Watsonx may hang.
RequestsAnswered == \A r \in Reqs : pc[r] # "idle" ~> pc[r] = "done"
=============================================================================
