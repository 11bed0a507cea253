------------------------------- MODULE MCSeed -------------------------------
(* An instance of Seed for TLC: two authors, the first with two files. *)
EXTENDS Seed, TLC

CONSTANTS a1, a2, x, f1, f2, f3, u1

MCFilesOf == a1 :> <<f1, f2>> @@ a2 :> <<f3>>
MCUploadBy == [u \in Uploads |-> x]

\* The second author's file cleans to nothing: seed_chunks has no windows for it.
MCChunkCount == [d \in AllDocs |-> IF d = f3 THEN 0 ELSE 1]

Call(authors, embed, profiles, missing) ==
  [entry |-> "run", authors |-> authors, embed |-> embed, profiles |-> profiles,
   missing |-> missing]

\* One author with all stages; two authors in one order and the other, the second
\* time with a file missing; the wrapper.
Overlapping ==
  {Call(<<a1>>, TRUE, TRUE, {}), Call(<<a1, a2>>, FALSE, FALSE, {}),
   Call(<<a2, a1>>, FALSE, FALSE, {f2}),
   [entry |-> "seed", authors |-> <<a2, a1>>, embed |-> TRUE, profiles |-> FALSE,
    missing |-> {}]}

OneAuthor == {Call(<<a1>>, FALSE, FALSE, {})}
=============================================================================
