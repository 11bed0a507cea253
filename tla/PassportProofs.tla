--------------------------- MODULE PassportProofs ---------------------------
(***************************************************************************)
(* For any keys, months, verifiers and number of deployments: a passport   *)
(* verifies while its process runs, and the verifiers agree.               *)
(*                                                                         *)
(* With PEM values the tokens and the key set of a process are of the two  *)
(* pairs it was given.  With paths the files may be replaced under it, but *)
(* a pair that went never returns, so if the files are the ones it booted  *)
(* with, they were when it signed (TokenInv) and published (CacheInv).     *)
(***************************************************************************)
EXTENDS Passport, TLAPS

\* No pair is written twice: what the files and a process hold was drawn, and what is
\* about to be written was never found by a process.
FileInv ==
  /\ priv \in drawn \cup {NoKey} /\ pub \in drawn \cup {NoKey}
  /\ booted[1] \in drawn \cup {NoKey} /\ booted[2] \in drawn \cup {NoKey}
  /\ writing # NoKey /\ writing # pub => writing # booted[2]

\* PEM values come in two; before the first start there is nothing.
EnvInv ==
  /\ env.priv = NoKey <=> env.pub = NoKey
  /\ deploy = 0 => env = [priv |-> NoKey, pub |-> NoKey, path |-> FALSE, kid |-> NoKid]

TokenInv ==
  \A t \in issued :
    /\ t.deploy <= deploy
    /\ t.deploy = deploy =>
         /\ t.kid = env.kid
         /\ env.priv # NoKey => t.key = env.priv
         /\ env.priv = NoKey =>
              env.path /\ (priv = booted[1] /\ priv # NoKey => t.key = priv)

CacheInv ==
  \A v \in Verifiers : cache[v] # NoJwk =>
    /\ cache[v].deploy <= deploy
    /\ cache[v].deploy = deploy =>
         /\ cache[v].kid = IF env.kid = NoKid THEN "autoria" ELSE env.kid
         /\ env.pub # NoKey => cache[v].key = env.pub
         /\ env.pub = NoKey => env.path /\ (pub = booted[2] => cache[v].key = pub)

IInv == TypeOK /\ FileInv /\ EnvInv /\ TokenInv /\ CacheInv

\* No process is given both a PEM value and a path.
OneSource == \A mode \in Modes : ~("pem" \in mode /\ "path" \in mode)
Single == env.pub = NoKey \/ ~env.path

-----------------------------------------------------------------------------
(* The invariant. *)

LEMMA InitInv == Init => IInv
<1> SUFFICES ASSUME Init PROVE IInv
  OBVIOUS
<1>1. TypeOK
  BY DeployAssumption DEF Init, TypeOK
<1>2. FileInv /\ EnvInv /\ TokenInv /\ CacheInv
  BY DEF Init, FileInv, EnvInv, TokenInv, CacheInv
<1> QED BY <1>1, <1>2 DEF IInv

\* Two steps change the private key, one the public key: none brings back a pair.
LEMMA KeyFiles ==
  ASSUME IInv,
         \/ \E k \in Keys : BeginGenerate(k)
         \/ WritePublic \/ EndGenerate \/ GenerateDies \/ DeletePrivateKey
  PROVE  IInv'
<1> USE KeyAssumption, DeployAssumption
<1>1. CASE \E k \in Keys : BeginGenerate(k)
  <2> PICK k \in Keys : BeginGenerate(k)
    BY <1>1
  <2> USE DEF BeginGenerate, server
  <2>1. TypeOK'
    BY DEF IInv, TypeOK
  <2>2. FileInv' /\ EnvInv'
    BY DEF IInv, TypeOK, FileInv, EnvInv
  <2>3. TokenInv'
    BY DEF IInv, TypeOK, FileInv, TokenInv
  <2>4. CacheInv'
    BY DEF IInv, CacheInv
  <2> QED BY <2>1, <2>2, <2>3, <2>4 DEF IInv
<1>2. CASE WritePublic
  <2> USE <1>2 DEF WritePublic, server
  <2>1. TypeOK'
    BY DEF IInv, TypeOK
  <2>2. FileInv' /\ EnvInv'
    BY DEF IInv, TypeOK, FileInv, EnvInv
  <2>3. TokenInv'
    BY DEF IInv, TokenInv
  <2>4. CacheInv'
    BY DEF IInv, FileInv, CacheInv
  <2> QED BY <2>1, <2>2, <2>3, <2>4 DEF IInv
<1>3. CASE EndGenerate
  BY <1>3 DEF EndGenerate, server, IInv, TypeOK, FileInv, EnvInv, TokenInv, CacheInv
<1>4. CASE GenerateDies
  BY <1>4 DEF GenerateDies, server, IInv, TypeOK, FileInv, EnvInv, TokenInv, CacheInv
<1>5. CASE DeletePrivateKey
  BY <1>5 DEF DeletePrivateKey, server, IInv, TypeOK, FileInv, EnvInv, TokenInv, CacheInv
<1> QED BY <1>1, <1>2, <1>3, <1>4, <1>5

\* A new process, with a new environment or the old one: no token and no key set is of
\* it yet.
LEMMA Begins ==
  ASSUME IInv, (\E mode \in Modes : Deploy(mode)) \/ Restart
  PROVE  IInv'
<1> USE KeyAssumption, DeployAssumption
<1>1. Starts
  BY DEF Deploy, Restart
<1>2. /\ deploy \in Nat /\ deploy' = deploy + 1 /\ deploy' \in 1 .. MaxDeploys
      /\ booted' = <<priv, pub>>
      /\ UNCHANGED <<priv, pub, drawn, writing, issued, cache>>
  BY <1>1 DEF Starts, keyfiles, IInv, TypeOK
<1> DEFINE Filled(e) ==
      /\ e \in [priv : Keys \cup {NoKey}, pub : Keys \cup {NoKey},
               path : BOOLEAN, kid : Kids \cup {NoKid}]
      /\ e.priv = NoKey <=> e.pub = NoKey
<1>3. Filled(env')
  <2>1. ASSUME NEW mode \in Modes, Deploy(mode)
        PROVE  Filled(env')
    <3>1. PICK kid \in {KidOf[k] : k \in drawn} \cup {TemplateKid, NoKid} :
            env' = [priv |-> IF "pem" \in mode THEN priv ELSE NoKey,
                    pub |-> IF "pem" \in mode THEN pub ELSE NoKey,
                    path |-> "path" \in mode, kid |-> kid]
      BY <2>1 DEF Deploy
    <3>2. kid \in Kids \cup {NoKid} /\ priv \in Keys \cup {NoKey} /\ pub \in Keys \cup {NoKey}
      BY DEF IInv, TypeOK, Kids
    <3>3. "pem" \in mode => priv # NoKey /\ pub # NoKey
      BY <2>1 DEF Deploy
    <3> QED BY <3>1, <3>2, <3>3
  <2>2. CASE Restart
    BY <2>2 DEF Restart, IInv, TypeOK, EnvInv
  <2> QED BY <2>1, <2>2
<1>4. TypeOK'
  BY <1>2, <1>3 DEF IInv, TypeOK
<1>5. FileInv'
  BY <1>2 DEF IInv, FileInv
<1>6. EnvInv'
  BY <1>2, <1>3 DEF EnvInv
<1>7. TokenInv'
  <2> SUFFICES ASSUME NEW t \in issued
               PROVE  t.deploy <= deploy' /\ t.deploy # deploy'
    BY <1>2 DEF TokenInv
  <2>1. t.deploy \in Nat /\ t.deploy <= deploy
    BY DEF IInv, TypeOK, Token, TokenInv
  <2> QED BY <1>2, <2>1
<1>8. CacheInv'
  <2> SUFFICES ASSUME NEW v \in Verifiers, cache[v] # NoJwk
               PROVE  cache[v].deploy <= deploy' /\ cache[v].deploy # deploy'
    BY <1>2 DEF CacheInv
  <2>1. cache[v].deploy \in Nat /\ cache[v].deploy <= deploy
    BY DEF IInv, TypeOK, Jwk, CacheInv
  <2> QED BY <1>2, <2>1
<1> QED BY <1>4, <1>5, <1>6, <1>7, <1>8 DEF IInv

\* The server signs only once it was deployed.
LEMMA Issues ==
  ASSUME IInv, Issue
  PROVE  IInv'
<1> DEFINE new == [kid |-> env.kid, key |-> SigningKey, deploy |-> deploy]
<1> USE KeyAssumption, DeployAssumption
<1>1. issued' = issued \cup {new} /\ env.kid # NoKid /\ SigningKey # NoKey
  BY DEF Issue
<1>2. UNCHANGED <<priv, pub, drawn, writing, env, deploy, booted, cache>>
  BY DEF Issue, keyfiles, server
<1>3. deploy \in 1 .. MaxDeploys
  BY <1>1 DEF IInv, TypeOK, EnvInv
<1>4. /\ env.priv # NoKey => SigningKey = env.priv
      /\ env.priv = NoKey => env.path /\ SigningKey = priv
  BY <1>1 DEF SigningKey, Resolve
<1>5. env.kid \in Kids /\ SigningKey \in Keys
  BY <1>1, <1>4 DEF IInv, TypeOK
<1>6. TypeOK'
  BY <1>1, <1>2, <1>3, <1>5 DEF IInv, TypeOK, Token
<1>7. FileInv' /\ EnvInv' /\ CacheInv'
  BY <1>2 DEF IInv, FileInv, EnvInv, CacheInv
<1>8. TokenInv'
  BY <1>1, <1>2, <1>3, <1>4 DEF IInv, TokenInv
<1> QED BY <1>6, <1>7, <1>8 DEF IInv

\* The key set is published with the kid and the key of the moment.
LEMMA Caches ==
  ASSUME IInv, NEW v \in Verifiers, FetchJwks(v) \/ ExpireJwks(v)
  PROVE  IInv'
<1> USE KeyAssumption, DeployAssumption
<1>1. UNCHANGED <<priv, pub, drawn, writing, env, deploy, booted, issued>>
  BY DEF FetchJwks, ExpireJwks, keyfiles, server
<1>2. FileInv' /\ EnvInv' /\ TokenInv'
  BY <1>1 DEF IInv, FileInv, EnvInv, TokenInv
<1>3. CASE FetchJwks(v)
  <2>1. /\ deploy > 0 /\ PublishedJwk.key # NoKey
        /\ cache' = [cache EXCEPT ![v] = PublishedJwk]
    BY <1>3 DEF FetchJwks
  <2>2. /\ PublishedJwk.kid = IF env.kid = NoKid THEN "autoria" ELSE env.kid
        /\ PublishedJwk.deploy = deploy
        /\ env.pub # NoKey => PublishedJwk.key = env.pub
        /\ env.pub = NoKey => env.path /\ PublishedJwk.key = pub
    BY <2>1 DEF PublishedJwk, JwkOf, Resolve
  <2>3. PublishedJwk \in Jwk
    BY <2>1, <2>2 DEF IInv, TypeOK, Jwk, PublishedJwk, JwkOf, Resolve
  <2>4. TypeOK'
    BY <1>1, <2>1, <2>3 DEF IInv, TypeOK
  <2>5. CacheInv'
    BY <1>1, <2>1, <2>2 DEF IInv, TypeOK, CacheInv
  <2> QED BY <1>2, <2>4, <2>5 DEF IInv
<1>4. CASE ExpireJwks(v)
  <2>1. cache' = [cache EXCEPT ![v] = NoJwk]
    BY <1>4 DEF ExpireJwks
  <2>2. TypeOK' /\ CacheInv'
    BY <1>1, <2>1 DEF IInv, TypeOK, CacheInv
  <2> QED BY <1>2, <2>2 DEF IInv
<1> QED BY <1>3, <1>4

LEMMA NextInv == IInv /\ [Next]_vars => IInv'
<1> SUFFICES ASSUME IInv, [Next]_vars PROVE IInv'
  OBVIOUS
<1>1. CASE UNCHANGED vars
  BY <1>1 DEF vars, keyfiles, server, IInv, TypeOK, FileInv, EnvInv, TokenInv, CacheInv
<1>2. CASE Next
  BY <1>2, KeyFiles, Begins, Issues, Caches DEF Next
<1> QED BY <1>1, <1>2

LEMMA Invariant == Spec => []IInv
BY InitInv, NextInv, PTL DEF Spec

LEMMA SingleInv ==
  ASSUME OneSource
  PROVE  Spec => []Single
<1>1. Init => Single
  BY DEF Init, Single
<1>2. Single /\ [Next]_vars => Single'
  <2> SUFFICES ASSUME Single, [Next]_vars PROVE Single'
    OBVIOUS
  <2>1. CASE UNCHANGED env
    BY <2>1 DEF Single
  <2>2. ASSUME NEW mode \in Modes, Deploy(mode) PROVE Single'
    <3>1. PICK kid \in {KidOf[k] : k \in drawn} \cup {TemplateKid, NoKid} :
            env' = [priv |-> IF "pem" \in mode THEN priv ELSE NoKey,
                    pub |-> IF "pem" \in mode THEN pub ELSE NoKey,
                    path |-> "path" \in mode, kid |-> kid]
      BY <2>2 DEF Deploy
    <3>2. env'.pub = (IF "pem" \in mode THEN pub ELSE NoKey) /\ env'.path = ("path" \in mode)
      BY <3>1
    <3>3. CASE "path" \in mode
      BY <3>2, <3>3 DEF OneSource, Single
    <3>4. CASE "path" \notin mode
      BY <3>2, <3>4 DEF Single
    <3> QED BY <3>3, <3>4
  <2> QED
    BY <2>1, <2>2 DEF Next, vars, keyfiles, server, BeginGenerate, WritePublic,
       EndGenerate, GenerateDies, Restart, DeletePrivateKey, Issue, FetchJwks, ExpireJwks
<1> QED BY <1>1, <1>2, PTL DEF Spec

-----------------------------------------------------------------------------
(* Its consequences. *)

\* A key set of the running process holds the key that the verify route resolves, unless
\* the public key file was replaced.
LEMMA OneSet ==
  ASSUME IInv, Single, PublicKept, NEW v \in Verifiers, cache[v] # NoJwk,
         cache[v].deploy = deploy
  PROVE  cache[v].key = RouteKey /\ RouteKey # NoKey
<1>1. cache[v].key # NoKey
  BY KeyAssumption DEF IInv, TypeOK, Jwk
<1>2. cache[v].key = RouteKey
  BY DEF Single, PublicKept, RouteKey, Resolve, IInv, CacheInv
<1> QED BY <1>1, <1>2

\* In a settled server the token is of the pair that the route resolves.
LEMMA OnePair ==
  ASSUME IInv, Single, Settled, NEW t \in issued, t.deploy = deploy
  PROVE  t.key = RouteKey /\ RouteKey # NoKey /\ PublicKept
<1>1. t.key # NoKey
  BY KeyAssumption DEF IInv, TypeOK, Token
<1>2. CASE env.pub # NoKey
  BY <1>1, <1>2 DEF Single, Settled, PublicKept, RouteKey, Resolve, IInv, EnvInv, TokenInv
<1>3. CASE env.pub = NoKey
  BY <1>1, <1>3 DEF Settled, PublicKept, RouteKey, Resolve, IInv, EnvInv, TokenInv
<1> QED BY <1>2, <1>3

LEMMA Verifies == IInv /\ Single => IssuedVerifies
<1> SUFFICES ASSUME IInv, Single, Settled, NEW t \in issued, t.deploy = deploy
             PROVE  /\ Verify(t, "none") = "valid"
                    /\ \A v \in Verifiers :
                         cache[v] # NoJwk /\ cache[v].deploy = deploy => Accepts(v, t, "none")
  BY DEF IssuedVerifies
<1>1. t.kid = env.kid /\ env.kid # NoKid
  BY KeyAssumption DEF IInv, TypeOK, Token, TokenInv
<1>2. t.key = RouteKey /\ RouteKey # NoKey /\ PublicKept
  BY OnePair
<1>3. Verify(t, "none") = "valid"
  BY <1>1, <1>2 DEF Verify
<1>4. ASSUME NEW v \in Verifiers, cache[v] # NoJwk, cache[v].deploy = deploy
      PROVE  Accepts(v, t, "none")
  <2>1. cache[v].key = RouteKey
    BY <1>2, <1>4, OneSet
  <2>2. cache[v].kid = env.kid
    BY <1>1, <1>4 DEF IInv, CacheInv
  <2> QED BY <1>1, <1>2, <1>4, <2>1, <2>2 DEF Accepts
<1> QED BY <1>3, <1>4

LEMMA Agree == IInv /\ Single => VerifiersAgree
<1> SUFFICES ASSUME IInv, Single, PublicKept, NEW t \in issued, NEW v \in Verifiers,
                    NEW damage \in Damages, cache[v] # NoJwk, cache[v].deploy = deploy
             PROVE  /\ Accepts(v, t, damage) <=> Verify(t, damage) = "valid"
                    /\ Accepts(v, t, damage) => damage = "none"
  BY DEF VerifiersAgree
<1>1. cache[v].key = RouteKey /\ RouteKey # NoKey
  BY OneSet
<1>2. cache[v].kid = IF env.kid = NoKid THEN "autoria" ELSE env.kid
  BY DEF IInv, CacheInv
<1>3. t.kid \in Kids /\ t.kid # "autoria"
  BY KeyAssumption DEF IInv, TypeOK, Token
<1> QED BY <1>1, <1>2, <1>3 DEF Accepts, Verify, Damages

-----------------------------------------------------------------------------

\* Every variable of the passport's life keeps its type.
THEOREM TypeCorrect == Spec => []TypeOK
<1>1. IInv => TypeOK
  BY DEF IInv
<1> QED BY <1>1, Invariant, PTL

\* What /api/generate returns verifies, at the route and outside, while its process
\* runs and keeps its keys, one pair's, if no process is given both a PEM value and a path.
THEOREM IssuedVerify ==
  ASSUME OneSource
  PROVE  Spec => []IssuedVerifies
BY Invariant, SingleInv, Verifies, PTL

\* The verify route and outside verifiers with the present key set agree on every
\* passport, altered or not, unless the public key file was replaced under the server,
\* under the same condition.
THEOREM Agreement ==
  ASSUME OneSource
  PROVE  Spec => []VerifiersAgree
BY Invariant, SingleInv, Agree, PTL
=============================================================================
