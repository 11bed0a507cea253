------------------------------- MODULE Client -------------------------------
(***************************************************************************)
(* generateText of frontend/src/lib/api.ts, which the page asks for a      *)
(* text: POST /api/generate (module Generate), given up after              *)
(* ClientTimeout seconds.                                                  *)
(*                                                                         *)
(* The seconds are those of the slower Watsonx call; the server needs more *)
(* to embed, score and sign.  It does not learn of an abort.               *)
(***************************************************************************)
EXTENDS Generate

CONSTANT ClientTimeout   \* the 20 s of api.ts

VARIABLE page   \* request -> what the page shows of it

ClientInit == Init /\ page = [r \in Reqs |-> "nothing"]

Turn(r, state) == page' = [page EXCEPT ![r] = state]

\* More seconds than the client waits for have gone by.
Late(r) == \E b \in Branches : elapsed[<<r, b>>] > ClientTimeout

Ask(r) == page[r] = "nothing" /\ Turn(r, "spinner") /\ Receive(r)

\* fetch resolves: the answer, or an error with its status.
Show(r) ==
  /\ page[r] = "spinner" /\ pc[r] = "done" /\ ~Late(r)
  /\ Turn(r, IF OK(r) THEN "answer" ELSE "error")
  /\ UNCHANGED vars

\* The timer fires and the controller aborts the fetch.
Abort(r) ==
  /\ page[r] = "spinner" /\ Late(r)
  /\ Turn(r, "timeout")
  /\ UNCHANGED vars

ClientNext ==
  \/ \E r \in Reqs : Ask(r) \/ Show(r) \/ Abort(r)
  \/ (Environment \/ \E r \in Reqs : Serve(r)) /\ UNCHANGED page

ClientSpec == ClientInit /\ [][ClientNext]_<<vars, page>>

-----------------------------------------------------------------------------

\* api.ts:202: the timeout is 20 s "so the client outlives the server", and nobody sees
\* "a timeout for a generation that actually succeeded".
ClientOutlivesServer == \A r \in Reqs : OK(r) => page[r] # "timeout"
=============================================================================
