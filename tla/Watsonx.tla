------------------------------ MODULE Watsonx -------------------------------
(***************************************************************************)
(* generate() of backend/app/services/watsonx_client.py: up to four        *)
(* attempts, each on a thread of its own with a hard timeout, and a sleep  *)
(* between two attempts.  A thread that timed out cannot be stopped: it    *)
(* goes on and may answer when a later attempt is under way, or when the   *)
(* call has long returned.                                                 *)
(***************************************************************************)
EXTENDS Naturals, Sequences

CONSTANTS
  Calls,       \* invocations of generate()
  Delays,      \* _RETRY_DELAYS_SECONDS
  Timeout,     \* HARD_TIMEOUT_SECONDS
  Durations    \* how long an attempt that ends in time may take

MaxAttempts == 1 + Len(Delays)
Attempts == 1 .. MaxAttempts

ASSUME TimeAssumption == /\ Timeout \in Nat
                         /\ Delays \in Seq(Nat)
                         /\ Durations \subseteq 0 .. Timeout

VARIABLES
  configured, \* WATSONX_API_KEY and WATSONX_PROJECT_ID are set for the process
  phase,     \* what generate() is doing
  attempt,   \* the attempt it is making, 0 before the first
  thread,    \* the thread of each attempt: _call_watsonx
  outcome,   \* the attempt whose text was returned, 0 for a WatsonxError
  elapsed    \* seconds since the call began

wvars == <<configured, phase, attempt, thread, outcome, elapsed>>

Returned == {"text", "error"}

WTypeOK ==
  /\ configured \in BOOLEAN
  /\ phase \in [Calls -> {"idle", "waiting", "sleeping"} \cup Returned]
  /\ attempt \in [Calls -> 0 .. MaxAttempts]
  /\ thread \in [Calls -> [Attempts -> {"none", "running", "text", "error"}]]
  /\ outcome \in [Calls -> 0 .. MaxAttempts]
  /\ elapsed \in [Calls -> Nat]

WInit ==
  /\ configured \in BOOLEAN
  /\ phase = [c \in Calls |-> "idle"]
  /\ attempt = [c \in Calls |-> 0]
  /\ thread = [c \in Calls |-> [a \in Attempts |-> "none"]]
  /\ outcome = [c \in Calls |-> 0]
  /\ elapsed = [c \in Calls |-> 0]

-----------------------------------------------------------------------------

\* pool.submit of the next attempt, seconds after the previous one.
Submit(c, seconds) ==
  /\ attempt' = [attempt EXCEPT ![c] = @ + 1]
  /\ thread' = [thread EXCEPT ![c][attempt[c] + 1] = "running"]
  /\ phase' = [phase EXCEPT ![c] = "waiting"]
  /\ elapsed' = [elapsed EXCEPT ![c] = @ + seconds]
  /\ UNCHANGED outcome

Begin(c) == configured /\ phase[c] = "idle" /\ Submit(c, 0)

\* _require_credentials: no key or no project, so no attempt is made.
NotConfigured(c) ==
  /\ ~configured
  /\ phase[c] = "idle"
  /\ phase' = [phase EXCEPT ![c] = "error"]
  /\ UNCHANGED <<attempt, thread, outcome, elapsed>>

\* _call_watsonx ends on its thread, awaited or not: a text, or any exception
\* (the network, the status, a response without text).
ThreadEnds(c, a) ==
  /\ thread[c][a] = "running"
  /\ \E how \in {"text", "error"} : thread' = [thread EXCEPT ![c][a] = how]
  /\ UNCHANGED <<phase, attempt, outcome, elapsed>>

\* mutant: the futures of all attempts so far are waited for together.
CollectAny(c) ==
  /\ phase[c] = "waiting"
  /\ \E a \in Attempts, s \in Durations :
       /\ thread[c][a] = "text"
       /\ outcome' = [outcome EXCEPT ![c] = a]
       /\ elapsed' = [elapsed EXCEPT ![c] = @ + s]
  /\ phase' = [phase EXCEPT ![c] = "text"]
  /\ UNCHANGED <<attempt, thread>>

\* mutant: the result arrives by callback, whatever became of the call.
CollectLate(c) ==
  /\ phase[c] \in {"waiting", "error"}
  /\ attempt[c] > 0
  /\ thread[c][attempt[c]] = "text"
  /\ outcome' = [outcome EXCEPT ![c] = attempt[c]]
  /\ phase' = [phase EXCEPT ![c] = "text"]
  /\ UNCHANGED <<attempt, thread, elapsed>>

\* return future.result(timeout=...), the future of this attempt.
Collect(c) ==
  /\ phase[c] = "waiting"
  /\ thread[c][attempt[c]] = "text"
  /\ outcome' = [outcome EXCEPT ![c] = attempt[c]]
  /\ \E s \in Durations : elapsed' = [elapsed EXCEPT ![c] = @ + s]
  /\ phase' = [phase EXCEPT ![c] = "text"]
  /\ UNCHANGED <<attempt, thread>>

\* An attempt is lost: sleep before the next one, or raise after the last.
GiveUp(c, seconds) ==
  /\ phase' = [phase EXCEPT ![c] = IF attempt[c] < MaxAttempts THEN "sleeping" ELSE "error"]
  /\ elapsed' = [elapsed EXCEPT ![c] = @ + seconds]
  /\ UNCHANGED <<attempt, thread, outcome>>

Fails(c) ==
  /\ phase[c] = "waiting"
  /\ thread[c][attempt[c]] = "error"
  /\ \E s \in Durations : GiveUp(c, s)

\* mutant: the timeout is only taken for an attempt that is not the last.
TimesOutBut(c) ==
  /\ phase[c] = "waiting"
  /\ thread[c][attempt[c]] = "running"
  /\ attempt[c] < MaxAttempts
  /\ GiveUp(c, Timeout)

\* mutant: the pool is a context manager, whose exit joins the thread.
TimesOutJoined(c) ==
  /\ phase[c] = "waiting"
  /\ thread[c][attempt[c]] # "none"
  /\ GiveUp(c, Timeout + Timeout)

\* FuturesTimeoutError; pool.shutdown(wait=False) leaves the thread running.
TimesOut(c) ==
  /\ phase[c] = "waiting"
  /\ thread[c][attempt[c]] = "running"
  /\ GiveUp(c, Timeout)

\* time.sleep(_RETRY_DELAYS_SECONDS[attempt]), then the next attempt.
Retry(c) == phase[c] = "sleeping" /\ Submit(c, Delays[attempt[c]])

\* What the thread that called generate() does on its own.
WProceed(c) == Collect(c) \/ Fails(c) \/ TimesOut(c) \/ Retry(c)

WNext == /\ \E c \in Calls : \/ Begin(c) \/ NotConfigured(c) \/ WProceed(c)
                             \/ \E a \in Attempts : ThreadEnds(c, a)
         /\ UNCHANGED configured

WSpec == WInit /\ [][WNext]_wvars

\* The threads of Watsonx may hang for ever; the caller's thread is scheduled.
WFairSpec == WSpec /\ \A c \in Calls : WF_wvars(WProceed(c) /\ UNCHANGED configured)

-----------------------------------------------------------------------------
(* Properties. *)

\* generate() returns what its last attempt answered, never the late text of an
\* attempt it had given up ("correctness is unaffected", watsonx_client.py:143).
LateTextsIgnored ==
  \A c \in Calls :
    /\ phase[c] = "text" => outcome[c] = attempt[c] /\ thread[c][attempt[c]] = "text"
    /\ phase[c] = "error" => attempt[c] \in {0, MaxAttempts}

\* Seconds slept before attempt n + 1.
Slept[n \in 0 .. Len(Delays)] == IF n = 0 THEN 0 ELSE Slept[n - 1] + Delays[n]

\* The longest a caller is kept: every attempt up to its timeout, and the sleeps
\* between them, 67 s with the constants of the code.
WithinBudget ==
  \A c \in Calls : attempt[c] > 0 =>
    elapsed[c] <= attempt[c] * Timeout + Slept[attempt[c] - 1]

\* generate() answers once, with the text of one attempt or a WatsonxError.
Pending == MaxAttempts + 1
OnceAnswered == INSTANCE Exchange WITH
  Clients <- Calls, Proper <- Attempts, Failure <- 0, NoAnswer <- Pending,
  asked <- {c \in Calls : phase[c] # "idle"},
  answer <- [c \in Calls |-> IF phase[c] \in Returned THEN outcome[c] ELSE Pending]
AnswersOnce == OnceAnswered!Spec

\* No call is kept for ever, even if Watsonx never answers.
CallsReturn == \A c \in Calls : phase[c] # "idle" ~> phase[c] \in Returned
=============================================================================
