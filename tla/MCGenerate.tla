----------------------------- MODULE MCGenerate -----------------------------
(* An instance of Generate for TLC: one request, which two authors compete for, *)
(* whose two calls compete for one worker, with one retry each.                 *)
EXTENDS Generate

CONSTANTS u1, u2, p

MCCalls == Reqs \X {"vanilla", "autoria"}
MCPassageOf == [q \in Passages |-> u2]
OneRetry == <<1>>
=============================================================================
