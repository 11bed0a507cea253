------------------------------ MODULE Builder -------------------------------
(***************************************************************************)
(* build_passport, and the schema that the verifier holds a payload to.    *)
(*                                                                         *)
(* A string of the request is a [raw |-> x], its digest a [sha256 |-> x]:  *)
(* what must not leave the builder is told from what may.  An argument the *)
(* caller leaves out is Absent.                                            *)
(***************************************************************************)
EXTENDS Integers, Sequences

CONSTANTS Absent, Rejected

Sha256(s) == [sha256 |-> s.raw]

\* passport_id: a version 4 UUID with its hyphens, another spelling of one that
\* uuid.UUID parses ("urn:uuid:...", no hyphens), or neither.
IdForms == {"hyphenated", "respelled", "other"}
\* generated_at: an RFC 3339 timestamp ending in Z, one with another offset, another form
\* ending in Z that datetime.fromisoformat parses ("2026-07-15T10:00Z"), or neither.
TimeForms == {"utc", "offset", "shortened", "other"}
\* verifier_url: with a scheme, without one, or an empty string.
UrlForms == {"uri", "other", "empty"}

ASSUME AbsentAssumption == Absent \notin IdForms \cup TimeForms \cup UrlForms

\* The ValueErrors, in the arguments a of a call.
Refused(a) ==
  \/ a.fit \notin 0 .. 100
  \/ a.tokens < 0
  \/ (a.profile = Absent) <=> (a.profileHash = Absent)
  \/ a.profileHash # Absent /\ ~("sha256" \in DOMAIN a.profileHash)
  \/ a.id # Absent /\ a.id = "other"
  \/ a.at # Absent /\ a.at \notin {"utc", "shortened"}

\* mutant: the sources are listed with their text.
HashedSourcesRaw(sources) ==
  [i \in DOMAIN sources |->
     [doc |-> sources[i].doc, chunk |-> sources[i].chunk, snippet |-> sources[i].text]]

HashedSources(sources) ==
  [i \in DOMAIN sources |->
     [doc |-> sources[i].doc, chunk |-> sources[i].chunk, snippet |-> Sha256(sources[i].text)]]

\* An argument or, when the caller leaves it out, its default.
Or(value, default) == IF value = Absent THEN default ELSE value

\* What is given first of two, where an empty string is nothing given.
OrElse(url, other) == IF url \in {Absent, "empty"} THEN other ELSE url

\* The payload, or Rejected.  Optional fields are Absent when the code leaves them out.
BuildPassport(a, envUrl) ==
  IF Refused(a) THEN Rejected
  ELSE [id |-> Or(a.id, "hyphenated"),
        at |-> Or(a.at, "utc"),
        profile |-> IF a.profile # Absent THEN Sha256(a.profile) ELSE a.profileHash,
        prompt |-> Sha256(a.prompt),
        output |-> Sha256(a.output),
        tokens |-> a.tokens,
        sources |-> HashedSources(a.sources),
        note |-> a.note,
        fit |-> a.fit,
        url |-> OrElse(a.url, envUrl)]

\* The arguments orchestrate calls it with, the database and the score having done their
\* part: the profile itself, a url in any case, and no other override.
AsOrchestrated(a, envUrl) ==
  /\ a.profile # Absent /\ a.profileHash = Absent /\ a.id = Absent /\ a.at = Absent
  /\ a.fit \in 0 .. 100 /\ a.tokens >= 0
  /\ \A i \in DOMAIN a.sources : a.sources[i].chunk >= 0
  /\ a.url = OrElse(envUrl, "uri")

\* passport.json, with the format checks the verifier turns on.
Digest(d) == "sha256" \in DOMAIN d
Conforms(p) ==
  /\ p.id = "hyphenated"
  /\ p.at \in {"utc", "offset"}
  /\ Digest(p.profile) /\ Digest(p.prompt) /\ Digest(p.output)
  /\ p.tokens >= 0
  /\ \A i \in DOMAIN p.sources : Digest(p.sources[i].snippet) /\ p.sources[i].chunk >= 0
  /\ p.fit \in 0 .. 100
  /\ p.url \in {Absent, "uri"}
=============================================================================
