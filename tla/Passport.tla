------------------------------ MODULE Passport ------------------------------
(***************************************************************************)
(* The life of the keys that sign and verify Authorship Passports:         *)
(* scripts/generate_keys.py writes a pair under keys/, the operator fills  *)
(* the environment of a deployment, /api/generate signs with it,           *)
(* /api/passports/verify and the published key set verify, and outside     *)
(* verifiers cache that set.                                               *)
(*                                                                         *)
(* PEM values and the kid are read from the environment, which a process   *)
(* keeps for life and a restart does not change; key files are read again  *)
(* for every passport.  Nothing keeps the halves that a server is given of *)
(* one pair, or its kid the one of that pair.  A key is named by its pair, *)
(* and a token by the pair that signed it.                                 *)
(***************************************************************************)
EXTENDS Naturals

CONSTANTS
  Keys,       \* pairs that generate_keys may draw, each once
  KidOf,      \* the kid it prints for a pair: autoria-YYYY-MM, shared within a month
  TemplateKid, \* the kid in .env.example
  NoKey, NoKid, NoJwk,
  Modes,      \* what the operator sets, subsets of {"pem", "path"}
  Verifiers,  \* outside verifiers
  MaxDeploys  \* bound of the model

Kids == {KidOf[k] : k \in Keys} \cup {TemplateKid}
ASSUME KeyAssumption ==
  /\ NoKey \notin Keys
  /\ NoKid \notin Kids /\ "autoria" \notin Kids
  /\ NoJwk \notin [kid : Kids \cup {"autoria"}, key : Keys, deploy : 1 .. MaxDeploys]
ASSUME ModeAssumption == Modes \subseteq SUBSET {"pem", "path"}
ASSUME DeployAssumption == MaxDeploys \in Nat

VARIABLES
  priv,     \* the pair whose private key is in keys/passport.priv.pem, or NoKey
  pub,      \* the same for keys/passport.pub.pem
  drawn,    \* pairs generate_keys has drawn
  writing,  \* the pair it is writing, or NoKey
  env,      \* environment of the running server
  deploy,   \* how many times a server was started
  booted,   \* the key files it found
  issued,   \* the tokens returned by /api/generate
  cache     \* verifier -> the key set it holds

keyfiles == <<priv, pub, drawn, writing>>
server == <<env, deploy, booted>>
vars == <<keyfiles, server, issued, cache>>

Token == [kid : Kids, key : Keys, deploy : 1 .. MaxDeploys]
Jwk == [kid : Kids \cup {"autoria"}, key : Keys, deploy : 1 .. MaxDeploys]

TypeOK ==
  /\ priv \in Keys \cup {NoKey} /\ pub \in Keys \cup {NoKey}
  /\ drawn \subseteq Keys
  /\ writing \in drawn \cup {NoKey}
  /\ env \in [priv : Keys \cup {NoKey}, pub : Keys \cup {NoKey},
             path : BOOLEAN, kid : Kids \cup {NoKid}]
  /\ deploy \in 0 .. MaxDeploys
  /\ booted \in (Keys \cup {NoKey}) \X (Keys \cup {NoKey})
  /\ issued \subseteq Token
  /\ cache \in [Verifiers -> Jwk \cup {NoJwk}]

Init ==
  /\ priv = NoKey /\ pub = NoKey /\ drawn = {} /\ writing = NoKey
  /\ env = [priv |-> NoKey, pub |-> NoKey, path |-> FALSE, kid |-> NoKid]
  /\ deploy = 0 /\ booted = <<NoKey, NoKey>>
  /\ issued = {}
  /\ cache = [v \in Verifiers |-> NoJwk]

-----------------------------------------------------------------------------
(* Keys. *)

\* resolve_pem: an explicit path, else the PEM variable, else the file the path
\* variable names.  NoKey is a RuntimeError.
Resolve(explicit, pem, file) ==
  IF explicit THEN file
  ELSE IF pem # NoKey THEN pem
  ELSE IF env.path THEN file ELSE NoKey

SigningKey == Resolve(FALSE, env.priv, priv)

\* The verify route passes settings.passport_public_key_path on as an explicit path.
RouteKey == Resolve(env.path, env.pub, pub)

\* The set of one key that the server publishes.
JwkOf(kid, key) == [kid |-> kid, key |-> key, deploy |-> deploy]

\* mutant: every key set is published under the default kid.
DefaultJwk == JwkOf("autoria", Resolve(FALSE, env.pub, pub))

\* mutant: the key set is made from the key that signs.
SignersJwk == JwkOf(IF env.kid = NoKid THEN "autoria" ELSE env.kid, SigningKey)

\* _load_public_jwk.
PublishedJwk ==
  JwkOf(IF env.kid = NoKid THEN "autoria" ELSE env.kid, Resolve(FALSE, env.pub, pub))

-----------------------------------------------------------------------------
(* Verification. *)

\* What may have become of a token on its way.
Damages == {"none", "segments", "alg", "payload"}

\* verify_passport as the route calls it, its checks in their order.
Verify(t, damage) ==
  IF damage = "segments" THEN "invalid_token"
  ELSE IF damage = "alg" THEN "unsupported_algorithm"
  ELSE IF env.kid = NoKid \/ t.kid # env.kid THEN "unknown_kid"
  ELSE IF RouteKey = NoKey THEN "jwks_unavailable"
  ELSE IF t.key # RouteKey \/ damage = "payload" THEN "invalid_signature"
  ELSE "valid"

\* An outside verifier takes the steps the specification of passports lists, and the
\* key from the set it holds.
Accepts(v, t, damage) ==
  /\ damage \notin {"segments", "alg"}
  /\ cache[v] # NoJwk /\ cache[v].kid = t.kid
  /\ cache[v].key = t.key /\ damage # "payload"

-----------------------------------------------------------------------------
(* generate_keys.py: one file after the other. *)

\* main refuses if there is a private key; generate writes it first.
BeginGenerate(k) ==
  /\ priv = NoKey
  /\ writing = NoKey /\ k \notin drawn
  /\ drawn' = drawn \cup {k} /\ writing' = k
  /\ priv' = k
  /\ UNCHANGED <<pub, server, issued, cache>>

WritePublic ==
  /\ writing # NoKey /\ pub # writing
  /\ pub' = writing
  /\ UNCHANGED <<priv, drawn, writing, server, issued, cache>>

\* The JWKS copy, which no code reads, and the kid, printed for the operator.
EndGenerate ==
  /\ writing # NoKey /\ pub = writing
  /\ writing' = NoKey
  /\ UNCHANGED <<priv, pub, drawn, server, issued, cache>>

GenerateDies ==
  /\ writing # NoKey
  /\ writing' = NoKey
  /\ UNCHANGED <<priv, pub, drawn, server, issued, cache>>

\* "Delete it first if you intend to rotate."
DeletePrivateKey ==
  /\ priv # NoKey /\ writing = NoKey
  /\ priv' = NoKey
  /\ UNCHANGED <<pub, drawn, writing, server, issued, cache>>

-----------------------------------------------------------------------------
(* The server and its clients. *)

\* A process starts.  It finds the key files as they are.
Starts ==
  /\ deploy < MaxDeploys
  /\ deploy' = deploy + 1
  /\ booted' = <<priv, pub>>
  /\ UNCHANGED <<keyfiles, issued, cache>>

\* The operator fills the environment: PEM values are pasted from the two files, whatever
\* pairs they are of; the kid is that of any month with a pair, the template's, or none.
Deploy(mode) ==
  /\ Starts
  /\ "pem" \in mode => priv # NoKey /\ pub # NoKey
  /\ \E kid \in {KidOf[k] : k \in drawn} \cup {TemplateKid, NoKid} :
       env' = [priv |-> IF "pem" \in mode THEN priv ELSE NoKey,
               pub |-> IF "pem" \in mode THEN pub ELSE NoKey,
               path |-> "path" \in mode, kid |-> kid]

\* The environment outlives the process, and the files it was filled from.
Restart == deploy > 0 /\ Starts /\ UNCHANGED env

\* sign_passport, which refuses without a kid or a key.
Issue ==
  /\ env.kid # NoKid /\ SigningKey # NoKey
  /\ issued' = issued \cup {[kid |-> env.kid, key |-> SigningKey, deploy |-> deploy]}
  /\ UNCHANGED <<keyfiles, server, cache>>

\* GET /.well-known/jwks.json; 500 without a key.
FetchJwks(v) ==
  /\ deploy > 0 /\ cache[v] = NoJwk
  /\ PublishedJwk.key # NoKey
  /\ cache' = [cache EXCEPT ![v] = PublishedJwk]
  /\ UNCHANGED <<keyfiles, server, issued>>

\* max-age=3600 is over.
ExpireJwks(v) ==
  /\ cache[v] # NoJwk
  /\ cache' = [cache EXCEPT ![v] = NoJwk]
  /\ UNCHANGED <<keyfiles, server, issued>>

Next ==
  \/ \E k \in Keys : BeginGenerate(k)
  \/ WritePublic \/ EndGenerate \/ GenerateDies \/ DeletePrivateKey
  \/ \E mode \in Modes : Deploy(mode)
  \/ Restart
  \/ Issue
  \/ \E v \in Verifiers : FetchJwks(v) \/ ExpireJwks(v)

Spec == Init /\ [][Next]_vars

\* Verifiers come back, and keep a key set no longer than they were told to.
FairSpec ==
  Spec /\ \A v \in Verifiers : WF_vars(FetchJwks(v)) /\ WF_vars(ExpireJwks(v))

-----------------------------------------------------------------------------
(* Properties. *)

\* The running server signs and verifies with one pair: its PEM values are one, or the
\* files are, and are those it started with.
Settled ==
  IF env.pub # NoKey THEN env.priv = env.pub
  ELSE priv = pub /\ priv # NoKey /\ <<priv, pub>> = booted

\* A passport verifies as long as the process that issued it runs, at the route and with
\* the key set it publishes, unless it was given halves of two pairs or somebody replaces
\* its key files.
IssuedVerifies ==
  Settled => \A t \in issued : t.deploy = deploy =>
    /\ Verify(t, "none") = "valid"
    /\ \A v \in Verifiers :
         cache[v] # NoJwk /\ cache[v].deploy = deploy => Accepts(v, t, "none")

\* The public key file was not replaced since the server started, or is not read.
PublicKept == env.pub # NoKey \/ pub = booted[2]

\* The route and an outside verifier with the present key set, who resolve the key each
\* in its own way, give one verdict on every passport ever issued, altered or not, also
\* if the server signs with a key of another pair; and neither takes an altered one.
VerifiersAgree ==
  PublicKept => \A t \in issued, v \in Verifiers, damage \in Damages :
    cache[v] # NoJwk /\ cache[v].deploy = deploy =>
      /\ Accepts(v, t, damage) <=> Verify(t, damage) = "valid"
      /\ Accepts(v, t, damage) => damage = "none"

\* After a rotation outside verifiers catch up: a passport of the running process is
\* accepted by each of them at some time, unless that process or its keys go first.
CachesCatchUp ==
  \A v \in Verifiers, t \in Token :
    t \in issued /\ t.deploy = deploy ~>
      Accepts(v, t, "none") \/ t.deploy # deploy \/ ~Settled

\* keys.py:17: "an image that happens to ship a stale key file must not silently outrank
\* the key the operator set in the dashboard", where passports are verified too.
DashboardKeyWins ==
  env.pub # NoKey /\ env.priv = env.pub =>
    \A t \in issued : t.deploy = deploy => Verify(t, "none") = "valid"
=============================================================================
