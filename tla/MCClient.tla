------------------------------ MODULE MCClient ------------------------------
(* An instance of Client for TLC: one request, with the delays of the code. *)
EXTENDS Client

CONSTANT u

MCCalls == Reqs \X {"vanilla", "autoria"}
MCPassageOf == [q \in Passages |-> u]
RetryDelays == <<1, 2, 4>>
=============================================================================
