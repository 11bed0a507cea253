--------------------------- MODULE GenerateProofs ---------------------------
(***************************************************************************)
(* For any number of requests, authors, passages and workers: the route    *)
(* answers each request once, with a passport for the very text returned,  *)
(* whatever becomes of its two calls and of the author meanwhile.          *)
(*                                                                         *)
(* Every step of Generate is a step of Watsonx or leaves it alone          *)
(* (Composed), so the results about generate() hold of the calls of every  *)
(* request.  ReqInv then relates a handler's place to what it has read,    *)
(* and its response to the two calls, whose answers are final (Final).     *)
(***************************************************************************)
EXTENDS Generate, WatsonxProofs

ReqInv(r) ==
  /\ pc[r] # "done" => response[r] = None
  /\ pc[r] = "done" => response[r] # None
  /\ pc[r] \in {"queued", "embedding", "retrieve", "branches"} =>
       version[r] \in 1 .. profile[author[r]]
  /\ rag[r] \subseteq {p \in Passages : PassageOf[p] = author[r]}
  /\ prompted[r] \subseteq rag[r]
  /\ OK(r) =>
       /\ phase[<<r, "autoria">>] = "text"
       /\ phase[<<r, "vanilla">>] \in Returned
       /\ response[r].autoria = outcome[<<r, "autoria">>]
       /\ response[r].vanilla = outcome[<<r, "vanilla">>]
       /\ response[r].passport.text = response[r].autoria
       /\ response[r].passport.sources = rag[r]
       /\ response[r].passport.profile \in 1 .. profile[author[r]]
  /\ r \in passports => OK(r) /\ author[r] \in alive

GInv == TypeOK /\ \A r \in Reqs : ReqInv(r)

-----------------------------------------------------------------------------
(* The composition with Watsonx. *)

LEMMA CallOf == \A r \in Reqs, b \in Branches : <<r, b>> \in Calls
BY CallAssumption

LEMMA CallSteps == [Next]_vars => [WNext]_wvars
<1> SUFFICES ASSUME [Next]_vars PROVE [WNext]_wvars
  OBVIOUS
<1>1. CASE UNCHANGED vars
  BY <1>1 DEF vars
<1>2. CASE Environment
  <2>1. ASSUME NEW c \in Calls, ThreadEnd(c) PROVE WNext
    BY <2>1 DEF ThreadEnd, WNext
  <2> QED
    BY <1>2, <2>1 DEF Environment, CreateAuthor, NewProfile, DeleteAuthor, IndexPassage
<1>3. ASSUME NEW r \in Reqs, Receive(r) PROVE UNCHANGED wvars
  BY <1>3 DEF Receive
<1>4. ASSUME NEW r \in Reqs, Serve(r) PROVE [WNext]_wvars
  <2>1. ASSUME NEW b \in Branches, StartBranch(r, b) \/ Branch(<<r, b>>) PROVE WNext
    BY <2>1, CallOf DEF StartBranch, Branch, WNext
  <2> QED
    BY <1>4, <2>1 DEF Serve, StartEmbedding, EndEmbedding, Retrieve, Unavailable,
       SigningFails, Succeed
<1> QED BY <1>1, <1>2, <1>3, <1>4 DEF Next

\* The calls of all requests behave as Watsonx says.
LEMMA Composed == Spec => WSpec
<1>1. Init => WInit
  BY DEF Init
<1> QED BY <1>1, CallSteps, PTL DEF Spec, WSpec

LEMMA CallInvariant == Spec => []IInv
BY Composed, Invariant, PTL

\* The answer of a call is final.
LEMMA Final ==
  ASSUME IInv, [WNext]_wvars, NEW c \in Calls, phase[c] \in Returned
  PROVE  phase'[c] = phase[c] /\ outcome'[c] = outcome[c]
<1>1. CASE UNCHANGED wvars
  BY <1>1 DEF wvars
<1>2. CASE WNext
  <2> PICK d \in Calls : \/ Begin(d) \/ NotConfigured(d) \/ WProceed(d)
                         \/ \E a \in Attempts : ThreadEnds(d, a)
    BY <1>2 DEF WNext
  <2> QED
    BY DEF IInv, WTypeOK, Begin, NotConfigured, WProceed, Collect, Fails, TimesOut, Retry,
       Submit, GiveUp, ThreadEnds, Returned
<1> QED BY <1>1, <1>2

-----------------------------------------------------------------------------
(* The invariant. *)

LEMMA GInitInv == Init => GInv
<1> SUFFICES ASSUME Init PROVE GInv
  OBVIOUS
<1>1. TypeOK
  BY InitInv, SizeAssumption DEF Init, TypeOK, IInv
<1>2. \A r \in Reqs : ReqInv(r)
  BY DEF Init, ReqInv, OK, None
<1> QED BY <1>1, <1>2 DEF GInv

\* A step of the calls alone.
LEMMA CallsOnly ==
  ASSUME GInv, IInv, IInv', [WNext]_wvars, UNCHANGED <<db, handler>>
  PROVE  GInv'
<1> USE DEF db, handler
<1>1. TypeOK'
  BY DEF GInv, TypeOK, IInv
<1>2. ASSUME NEW r \in Reqs PROVE ReqInv(r)'
  <2>1. /\ <<r, "autoria">> \in Calls /\ <<r, "vanilla">> \in Calls
    BY CallOf DEF Branches
  <2>2. OK(r) => /\ phase'[<<r, "autoria">>] = "text" /\ phase'[<<r, "vanilla">>] \in Returned
                 /\ outcome'[<<r, "autoria">>] = outcome[<<r, "autoria">>]
                 /\ outcome'[<<r, "vanilla">>] = outcome[<<r, "vanilla">>]
    BY <2>1, Final DEF GInv, ReqInv, Returned
  <2> QED BY <2>2 DEF GInv, ReqInv, OK
<1> QED BY <1>1, <1>2 DEF GInv

\* What a handler does concerns its own request.
LEMMA Locally ==
  ASSUME GInv, TypeOK', NEW r \in Reqs, ReqInv(r)',
         UNCHANGED <<alive, profile, author, wvars>>,
         \A q \in Reqs \ {r} :
           /\ pc'[q] = pc[q] /\ version'[q] = version[q] /\ rag'[q] = rag[q]
           /\ prompted'[q] = prompted[q] /\ response'[q] = response[q]
           /\ q \in passports' <=> q \in passports
  PROVE  GInv'
<1>1. ASSUME NEW q \in Reqs \ {r} PROVE ReqInv(q)'
  BY <1>1 DEF GInv, ReqInv, OK, wvars
<1> QED BY <1>1 DEF GInv

\* Errors are told from answers, and from no response, by their status.
LEMMA Statuses ==
  /\ None.status # "200" /\ None \notin Errors /\ None \notin Answer
  /\ \A e \in Errors : e.status # "200" /\ e \notin Answer
  /\ \A v \in Answer : v.status = "200"
  /\ Error("404") \in Errors /\ Error("500") \in Errors /\ Error("503") \in Errors
<1>1. \A v \in Answer : v.status = "200"
  BY DEF Answer
<1>2. None.status = "none"
  BY DEF None
<1>3. \A e \in Errors : e.status \in {"404", "500", "503"}
  BY DEF Errors, Error
<1> QED BY <1>1, <1>2, <1>3 DEF Errors

\* A handler that answers with an error.
LEMMA RespondsError ==
  ASSUME GInv, NEW r \in Reqs, NEW e \in Errors, Respond(r, e), pc[r] # "done",
         UNCHANGED <<db, author, version, rag, prompted, wvars>>
  PROVE  GInv'
<1>1. r \notin passports
  BY Statuses DEF GInv, ReqInv, OK
<1>2. pc'[r] = "done" /\ response'[r] = e
  BY DEF GInv, TypeOK, Respond, Goto
<1>3. TypeOK'
  BY DEF GInv, TypeOK, Respond, Goto, WTypeOK, db, wvars
<1>4. ReqInv(r)'
  BY <1>1, <1>2, Statuses DEF GInv, ReqInv, OK, db
<1> QED BY <1>3, <1>4, Locally DEF GInv, TypeOK, Respond, Goto, db

\* A handler that goes on to its next await.
LEMMA GoesOn ==
  ASSUME GInv, NEW r \in Reqs, pc[r] # "done",
         NEW label \in {"queued", "embedding", "retrieve", "branches"}, Goto(r, label),
         UNCHANGED <<db, author, rag, prompted, response, wvars>>,
         version' = [version EXCEPT ![r] = version'[r]],
         version'[r] \in 1 .. profile[author[r]]
  PROVE  GInv'
<1> USE SizeAssumption
<1>1. profile[author[r]] \in 0 .. MaxProfiles
  BY DEF GInv, TypeOK
<1>2. version'[r] \in 0 .. MaxProfiles
  BY <1>1
<1>3. TypeOK'
  BY <1>2 DEF GInv, TypeOK, Goto, WTypeOK, db, wvars
<1>4. pc'[r] = label
  BY DEF GInv, TypeOK, Goto
<1>5. response[r] = None /\ ~OK(r) /\ r \notin passports
  BY Statuses DEF GInv, ReqInv, OK
<1>6. ReqInv(r)'
  BY <1>4, <1>5 DEF GInv, ReqInv, OK, db, wvars
<1> QED BY <1>3, <1>6, Locally DEF GInv, TypeOK, Goto, db

LEMMA Receives ==
  ASSUME GInv, NEW r \in Reqs, Receive(r)
  PROVE  GInv'
<1>1. CASE \E s \in {"404", "500", "503"} : Respond(r, Error(s)) /\ UNCHANGED version
  BY <1>1, RespondsError, Statuses DEF Receive
<1>2. CASE /\ author[r] \in alive /\ profile[author[r]] # 0
           /\ Goto(r, "queued") /\ UNCHANGED response
           /\ version' = [version EXCEPT ![r] = profile[author[r]]]
  <2>1. profile[author[r]] \in 1 .. profile[author[r]] /\ version'[r] = profile[author[r]]
    BY <1>2, SizeAssumption DEF GInv, TypeOK
  <2> QED BY <1>2, <2>1, GoesOn DEF Receive
<1> QED BY <1>1, <1>2 DEF Receive

LEMMA Embeds ==
  ASSUME GInv, NEW r \in Reqs, StartEmbedding(r) \/ EndEmbedding(r)
  PROVE  GInv'
<1>1. version[r] \in 1 .. profile[author[r]] /\ pc[r] # "done"
  BY DEF GInv, ReqInv, StartEmbedding, EndEmbedding
<1>2. UNCHANGED version /\ version = [version EXCEPT ![r] = version[r]]
  BY DEF GInv, TypeOK, StartEmbedding, EndEmbedding
<1>3. CASE Respond(r, Error("500")) /\ EndEmbedding(r)
  BY <1>1, <1>3, RespondsError, Statuses DEF EndEmbedding
<1>4. CASE Goto(r, "retrieve") /\ UNCHANGED response /\ EndEmbedding(r)
  BY <1>1, <1>2, <1>4, GoesOn DEF EndEmbedding
<1>5. CASE StartEmbedding(r)
  BY <1>1, <1>2, <1>5, GoesOn DEF StartEmbedding
<1> QED BY <1>3, <1>4, <1>5 DEF EndEmbedding

\* The search is limited to the author, and the prompt to what was found.
LEMMA Retrieves ==
  ASSUME GInv, NEW r \in Reqs, Retrieve(r)
  PROVE  GInv'
<1> DEFINE own == {p \in indexed : PassageOf[p] = author[r]}
<1>1. PICK found \in SUBSET own, kept \in SUBSET own :
        /\ kept \subseteq found
        /\ rag' = [rag EXCEPT ![r] = found]
        /\ prompted' = [prompted EXCEPT ![r] = kept]
  BY DEF Retrieve
<1>2. own \subseteq {p \in Passages : PassageOf[p] = author[r]}
  BY DEF GInv, TypeOK
<1>3. rag'[r] = found /\ prompted'[r] = kept /\ pc'[r] = "branches" /\ pc[r] = "retrieve"
  BY <1>1 DEF GInv, TypeOK, Retrieve, Goto
<1>4. TypeOK'
  BY <1>1, <1>2 DEF GInv, TypeOK, Retrieve, Goto, WTypeOK, db, wvars
<1>5. r \notin passports /\ ~OK(r)
  BY <1>3, Statuses DEF GInv, ReqInv, OK
<1>6. ReqInv(r)'
  BY <1>1, <1>2, <1>3, <1>5 DEF GInv, ReqInv, OK, Retrieve, db
<1> QED BY <1>1, <1>4, <1>6, Locally DEF GInv, TypeOK, Retrieve, Goto, db

\* The answer carries what the two calls said, and the passport of the second.
LEMMA Succeeds ==
  ASSUME GInv, IInv, NEW r \in Reqs, Succeed(r)
  PROVE  GInv'
<1> DEFINE passport == [text |-> Sign(r), profile |-> version[r], sources |-> rag[r]]
           answer == [status |-> "200", vanilla |-> outcome[<<r, "vanilla">>],
                      autoria |-> outcome[<<r, "autoria">>], passport |-> passport]
<1>1. /\ pc[r] = "branches" /\ phase[<<r, "autoria">>] = "text"
      /\ phase[<<r, "vanilla">>] \in Returned
  BY DEF Succeed, Joined, Branches
<1>2. <<r, "autoria">> \in Calls /\ <<r, "vanilla">> \in Calls
  BY CallOf DEF Branches
<1>3. outcome[<<r, "autoria">>] \in Attempts /\ outcome[<<r, "vanilla">>] \in 0 .. MaxAttempts
  BY <1>1, <1>2 DEF IInv, CallInv, WTypeOK
<1>4. version[r] \in 1 .. profile[author[r]] /\ version[r] \in 1 .. MaxProfiles
  BY <1>1, SizeAssumption DEF GInv, TypeOK, ReqInv
<1>5. passport \in Passport
  BY <1>3, <1>4 DEF GInv, TypeOK, Passport, Sign
<1>6. answer \in Answer
  BY <1>3, <1>5 DEF Answer
<1>7. pc' = [pc EXCEPT ![r] = "done"] /\ response' = [response EXCEPT ![r] = answer]
  BY DEF Succeed, Respond, Goto
<1>8. pc'[r] = "done" /\ response'[r] = answer
  BY <1>7 DEF GInv, TypeOK
<1>9. \/ passports' = passports \cup {r} /\ author[r] \in alive
      \/ passports' = passports
  BY DEF Succeed
<1>10. UNCHANGED <<alive, profile, indexed, author, version, rag, prompted, wvars>>
  BY DEF Succeed
<1>11. TypeOK'
  BY <1>6, <1>7, <1>9, <1>10 DEF GInv, TypeOK, WTypeOK, wvars
<1>12. r \notin passports
  BY <1>1, Statuses DEF GInv, ReqInv, OK
<1>13. ReqInv(r)'
  <2>1. response'[r] # None
    BY <1>6, <1>8, Statuses
  <2> QED
    BY <1>1, <1>4, <1>8, <1>9, <1>10, <1>12, <2>1 DEF GInv, ReqInv, OK, Sign, wvars
<1> QED BY <1>7, <1>9, <1>10, <1>11, <1>13, Locally DEF GInv, TypeOK

\* The corpus around the handler: profiles only grow in number, and the passports of
\* a deleted author go with it.
LEMMA Surroundings ==
  ASSUME GInv, \E u \in Authors : CreateAuthor(u) \/ NewProfile(u) \/ DeleteAuthor(u)
  PROVE  GInv'
<1> PICK u \in Authors : CreateAuthor(u) \/ NewProfile(u) \/ DeleteAuthor(u)
  OBVIOUS
<1> USE SizeAssumption
<1>1. TypeOK'
  BY DEF GInv, TypeOK, CreateAuthor, NewProfile, DeleteAuthor, handler, wvars, WTypeOK
<1>2. \A w \in Authors : /\ profile[w] \in Nat /\ profile'[w] \in Nat
                         /\ profile[w] <= profile'[w]
  BY DEF GInv, TypeOK, CreateAuthor, NewProfile, DeleteAuthor
<1>3. ASSUME NEW r \in Reqs PROVE ReqInv(r)'
  <2>1. author[r] \in Authors /\ UNCHANGED <<handler, wvars>>
    BY DEF GInv, TypeOK, CreateAuthor, NewProfile, DeleteAuthor
  <2>2. \A n : n \in 1 .. profile[author[r]] => n \in 1 .. profile'[author[r]]
    BY <1>2, <2>1
  <2>3. r \in passports' => r \in passports /\ author[r] \in alive'
    BY <2>1 DEF GInv, ReqInv, CreateAuthor, NewProfile, DeleteAuthor
  <2> QED BY <2>1, <2>2, <2>3 DEF GInv, ReqInv, OK, handler, wvars
<1> QED BY <1>1, <1>3 DEF GInv

LEMMA GNextInv == GInv /\ IInv /\ IInv' /\ [Next]_vars => GInv'
<1> SUFFICES ASSUME GInv, IInv, IInv', [Next]_vars PROVE GInv'
  OBVIOUS
<1>1. CASE UNCHANGED vars
  BY <1>1, CallsOnly DEF vars
<1>2. CASE \E c \in Calls : ThreadEnd(c)
  BY <1>2, CallSteps, CallsOnly DEF ThreadEnd
<1>3. CASE \E p \in Passages : IndexPassage(p)
  <2>1. UNCHANGED <<alive, profile, passports, handler, wvars>>
    BY <1>3 DEF IndexPassage
  <2>2. TypeOK'
    BY <1>3 DEF GInv, TypeOK, IndexPassage, handler, wvars, WTypeOK
  <2> QED BY <2>1, <2>2 DEF GInv, ReqInv, OK, handler, wvars
<1>4. CASE \E u \in Authors : CreateAuthor(u) \/ NewProfile(u) \/ DeleteAuthor(u)
  BY <1>4, Surroundings
<1>5. ASSUME NEW r \in Reqs, Receive(r) \/ Serve(r) PROVE GInv'
  <2>1. CASE \E b \in Branches : StartBranch(r, b) \/ Branch(<<r, b>>)
    BY <2>1, CallSteps, CallsOnly DEF StartBranch, Branch
  <2>2. CASE Unavailable(r) \/ SigningFails(r)
    BY <2>2, RespondsError, Statuses DEF Unavailable, SigningFails, Joined
  <2> QED BY <1>5, <2>1, <2>2, Receives, Embeds, Retrieves, Succeeds DEF Serve
<1> QED BY <1>1, <1>2, <1>3, <1>4, <1>5 DEF Next, Environment

LEMMA GInvariant == Spec => []GInv
BY GInitInv, GNextInv, CallInvariant, PTL DEF Spec

-----------------------------------------------------------------------------
(* The refinement. *)

\* What the client of r is shown: all errors are one.
Shown(r) == IF response[r] \in Errors THEN Error("503") ELSE response[r]
ShownAll == [r \in Reqs |-> Shown(r)]
Asked == {r \in Reqs : pc[r] # "idle"}
Proper == {v \in Answer : v.passport.text = v.autoria}

\* A step of the handler of r shows nothing but of r.
LEMMA OneRequest ==
  ASSUME NEW r \in Reqs,
         \A q \in Reqs \ {r} : pc'[q] = pc[q] /\ response'[q] = response[q]
  PROVE  /\ ShownAll' = [ShownAll EXCEPT ![r] = Shown(r)']
         /\ Asked' = IF pc'[r] = "idle" THEN Asked \ {r} ELSE Asked \cup {r}
<1>1. \A q \in Reqs \ {r} : Shown(q)' = Shown(q)
  BY DEF Shown
<1> QED BY <1>1 DEF ShownAll, Asked

\* A handler that answers after its first await.
LEMMA RequestReplies ==
  ASSUME GInv, NEW r \in Reqs, pc[r] \notin {"idle", "done"}, NEW v \in Errors \cup Proper,
         Respond(r, v)
  PROVE  Once!Reply(r, IF v \in Errors THEN Error("503") ELSE v)
<1> DEFINE w == IF v \in Errors THEN Error("503") ELSE v
<1>1. /\ pc' = [pc EXCEPT ![r] = "done"] /\ response' = [response EXCEPT ![r] = v]
      /\ pc'[r] = "done" /\ response'[r] = v /\ response[r] = None
      /\ \A q \in Reqs \ {r} : pc'[q] = pc[q] /\ response'[q] = response[q]
  BY DEF GInv, TypeOK, ReqInv, Respond, Goto
<1>2. r \in Asked /\ ShownAll[r] = None /\ Shown(r)' = w
  BY <1>1, Statuses DEF Asked, ShownAll, Shown
<1>3. ShownAll' = [ShownAll EXCEPT ![r] = w] /\ Asked' = Asked
  BY <1>1, <1>2, OneRequest
<1>4. w \in Proper \cup {Error("503")}
  OBVIOUS
<1> QED BY <1>2, <1>3, <1>4 DEF Once!Reply, ShownAll, Shown, Asked, Proper

\* A request that is only taken up, and one that is refused at once.
LEMMA RequestAsks ==
  ASSUME GInv, NEW r \in Reqs, pc[r] = "idle", Goto(r, "queued"), UNCHANGED response
  PROVE  Once!Ask(r)
<1>1. /\ pc'[r] = "queued" /\ \A q \in Reqs \ {r} : pc'[q] = pc[q]
  BY DEF GInv, TypeOK, Goto
<1>2. r \notin Asked /\ Asked' = Asked \cup {r}
  BY <1>1, OneRequest DEF Asked
<1>3. ShownAll' = ShownAll
  BY DEF ShownAll, Shown
<1> QED BY <1>2, <1>3 DEF Once!Ask, ShownAll, Shown, Asked

LEMMA RequestRefused ==
  ASSUME GInv, NEW r \in Reqs, pc[r] = "idle", NEW e \in Errors, Respond(r, e)
  PROVE  Once!Refuse(r)
<1>1. /\ pc'[r] = "done" /\ response'[r] = e
      /\ \A q \in Reqs \ {r} : pc'[q] = pc[q] /\ response'[q] = response[q]
  BY DEF GInv, TypeOK, Respond, Goto
<1>2. r \notin Asked /\ Asked' = Asked \cup {r} /\ Shown(r)' = Error("503")
  BY <1>1, OneRequest DEF Asked, Shown
<1>3. ShownAll' = [ShownAll EXCEPT ![r] = Error("503")]
  BY <1>1, <1>2, OneRequest
<1> QED BY <1>2, <1>3 DEF Once!Refuse, ShownAll, Shown, Asked

\* A handler that goes on, or a step of anything else.
LEMMA RequestUnseen ==
  ASSUME GInv, UNCHANGED response,
         \/ UNCHANGED pc
         \/ \E r \in Reqs : pc[r] # "idle" /\ \E l \in {"embedding", "retrieve", "branches"} :
              Goto(r, l)
  PROVE  UNCHANGED <<Asked, ShownAll>>
<1>1. UNCHANGED ShownAll
  BY DEF ShownAll, Shown
<1>2. CASE UNCHANGED pc
  BY <1>1, <1>2 DEF Asked
<1>3. ASSUME NEW r \in Reqs, pc[r] # "idle",
             NEW l \in {"embedding", "retrieve", "branches"}, Goto(r, l)
      PROVE  UNCHANGED Asked
  BY <1>3 DEF GInv, TypeOK, Goto, Asked
<1> QED BY <1>1, <1>2, <1>3

LEMMA RequestRefines ==
  ASSUME GInv, IInv, [Next]_vars
  PROVE  Once!Next \/ UNCHANGED <<Asked, ShownAll>>
<1>1. CASE UNCHANGED vars
  BY <1>1, RequestUnseen DEF vars, handler
<1>2. CASE Environment
  <2>1. UNCHANGED <<pc, response>>
    BY <1>2 DEF Environment, CreateAuthor, NewProfile, DeleteAuthor, IndexPassage,
       ThreadEnd, handler
  <2> QED BY <2>1, RequestUnseen
<1>3. ASSUME NEW r \in Reqs, Receive(r) PROVE Once!Next
  <2>1. CASE \E s \in {"404", "500", "503"} : Respond(r, Error(s))
    BY <1>3, <2>1, RequestRefused, Statuses DEF Receive, Once!Next
  <2>2. CASE Goto(r, "queued") /\ UNCHANGED response
    BY <1>3, <2>2, RequestAsks DEF Receive, Once!Next
  <2> QED BY <1>3, <2>1, <2>2 DEF Receive
<1>4. ASSUME NEW r \in Reqs, Serve(r) PROVE Once!Next \/ UNCHANGED <<Asked, ShownAll>>
  <2>1. CASE StartEmbedding(r) \/ Retrieve(r) \/ (EndEmbedding(r) /\ Goto(r, "retrieve") /\ UNCHANGED response)
    BY <2>1, RequestUnseen DEF StartEmbedding, Retrieve, EndEmbedding
  <2>2. CASE \E b \in Branches : StartBranch(r, b) \/ Branch(<<r, b>>)
    BY <2>2, RequestUnseen DEF StartBranch, Branch, handler
  <2>3. CASE \/ Unavailable(r) \/ SigningFails(r)
             \/ EndEmbedding(r) /\ Respond(r, Error("500"))
    <3>1. pc[r] \notin {"idle", "done"} /\ \E e \in Errors : Respond(r, e)
      BY <2>3, Statuses DEF Unavailable, SigningFails, EndEmbedding, Joined
    <3>2. Once!Reply(r, Error("503"))
      BY <3>1, RequestReplies
    <3> QED BY <3>2 DEF Once!Next
  <2>4. CASE Succeed(r)
    <3> DEFINE v == [status |-> "200", vanilla |-> outcome[<<r, "vanilla">>],
                     autoria |-> outcome[<<r, "autoria">>],
                     passport |-> [text |-> Sign(r), profile |-> version[r],
                                   sources |-> rag[r]]]
    <3>1. pc[r] = "branches" /\ Respond(r, v)
      BY <2>4 DEF Succeed, Joined
    <3>2. response'[r] = v /\ TypeOK' /\ GInv'
      BY <2>4, <3>1, Succeeds DEF GInv, TypeOK, Respond
    <3>3. v \in Answer
      <4>1. v \in {None} \cup Errors \cup Answer
        BY <3>2 DEF TypeOK
      <4>2. v.status = "200"
        OBVIOUS
      <4> HIDE DEF v
      <4> QED BY <4>1, <4>2, Statuses
    <3>4. v \in Proper
      <4>1. v.passport.text = v.autoria
        BY DEF Sign
      <4> HIDE DEF v
      <4> QED BY <3>3, <4>1 DEF Proper
    <3> HIDE DEF v
    <3>5. PICK w \in Proper : Respond(r, w)
      BY <3>1, <3>4 DEF Respond
    <3>6. pc[r] \notin {"idle", "done"} /\ w \notin Errors
      BY <3>1, <3>5, Statuses DEF Proper
    <3>7. Once!Reply(r, w)
      BY <3>5, <3>6, RequestReplies
    <3> QED BY <3>5, <3>7 DEF Once!Next, Proper
  <2> QED BY <1>4, <2>1, <2>2, <2>3, <2>4 DEF Serve, EndEmbedding
<1> QED BY <1>1, <1>2, <1>3, <1>4 DEF Next

-----------------------------------------------------------------------------
(* Results. *)

\* Requests, responses and tables keep their types.
THEOREM RouteTypeCorrect == Spec => []TypeOK
<1>1. GInv => TypeOK
  BY DEF GInv
<1> QED BY <1>1, GInvariant, PTL

\* A response tells what the calls of its own request answered, from passages and a
\* profile of its own author (generate.py:129, generator.py:224).
THEOREM AnswersAreTrue == Spec => []AnswersTrue
<1>1. GInv => AnswersTrue
  BY DEF GInv, ReqInv, AnswersTrue
<1> QED BY <1>1, GInvariant, PTL

\* No row of public.passports is without an issued passport or a living author.
THEOREM RowsAreIssued == Spec => []RowsIssued
<1>1. GInv => RowsIssued
  BY DEF GInv, TypeOK, ReqInv, RowsIssued
<1> QED BY <1>1, GInvariant, PTL

\* POST /api/generate answers once: an error, or an answer whose passport signs the
\* text it returns.
THEOREM RouteImplementsExchange == Spec => AnswersWithPassport
<1>1. Init => Once!Init
  BY Statuses DEF Init, Once!Init
<1>2. GInv /\ IInv /\ [Next]_vars =>
        [Once!Next]_<<{r \in Reqs : pc[r] # "idle"},
                      [r \in Reqs |-> IF response[r] \in Errors
                                      THEN Error("503") ELSE response[r]]>>
  BY RequestRefines DEF Asked, ShownAll, Shown
<1> QED BY <1>1, <1>2, GInvariant, CallInvariant, PTL DEF Spec, AnswersWithPassport, Once!Spec

\* The calls of all requests return the text of their last attempt or an error, once, and
\* within their budget of time.
THEOREM CallsComposed == Spec => []LateTextsIgnored /\ []WithinBudget /\ AnswersOnce
BY Composed, LateIgnored, BudgetKept, ImplementsExchange, PTL
=============================================================================
