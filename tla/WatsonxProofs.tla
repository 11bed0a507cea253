---------------------------- MODULE WatsonxProofs ----------------------------
(***************************************************************************)
(* For any number of calls and any delays: generate() never returns the    *)
(* late text of an attempt it had given up, it keeps its caller no longer  *)
(* than the timeouts and the sleeps add up to, and it implements Exchange. *)
(*                                                                         *)
(* All rest on CallInv: what each phase of a call says of its attempt, of  *)
(* that attempt's thread, and of its outcome; the second also on TimeInv:  *)
(* while an attempt is waited for, its own timeout is not yet spent.       *)
(***************************************************************************)
EXTENDS Watsonx, FiniteSetTheorems, TLAPS

CallInv(c) ==
  /\ phase[c] \in {"idle", "waiting", "sleeping"} => outcome[c] = 0
  /\ phase[c] = "idle" => attempt[c] = 0
  /\ phase[c] = "waiting" => attempt[c] \in Attempts
  /\ phase[c] = "sleeping" => attempt[c] \in Attempts /\ attempt[c] < MaxAttempts
  /\ phase[c] = "text" => /\ attempt[c] \in Attempts /\ outcome[c] = attempt[c]
                          /\ thread[c][attempt[c]] = "text"
  /\ phase[c] = "error" => attempt[c] \in {0, MaxAttempts} /\ outcome[c] = 0

IInv == WTypeOK /\ \A c \in Calls : CallInv(c)

-----------------------------------------------------------------------------
(* The invariant. *)

LEMMA Bounds ==
  /\ MaxAttempts \in Nat /\ MaxAttempts > 0
  /\ Timeout \in Nat /\ Durations \subseteq Nat
  /\ \A n \in Attempts : n < MaxAttempts => Delays[n] \in Nat
<1>1. Len(Delays) \in Nat /\ \A n \in 1 .. Len(Delays) : Delays[n] \in Nat
  BY TimeAssumption
<1> QED BY <1>1, TimeAssumption DEF MaxAttempts, Attempts

LEMMA InitInv == WInit => IInv
BY Bounds DEF WInit, IInv, WTypeOK, CallInv

\* A call's own step leaves the others as they are.
LEMMA Others ==
  ASSUME IInv, WTypeOK', NEW c \in Calls, CallInv(c)',
         \A d \in Calls \ {c} : /\ phase'[d] = phase[d] /\ attempt'[d] = attempt[d]
                                /\ thread'[d] = thread[d] /\ outcome'[d] = outcome[d]
  PROVE  IInv'
<1>1. ASSUME NEW d \in Calls \ {c} PROVE CallInv(d)'
  BY <1>1 DEF IInv, CallInv
<1> QED BY <1>1 DEF IInv

LEMMA Submits ==
  ASSUME IInv, NEW c \in Calls, NEW s \in Nat, Submit(c, s), UNCHANGED configured,
         phase[c] \in {"idle", "sleeping"}
  PROVE  IInv'
<1> USE Bounds
<1>1. attempt[c] \in Nat /\ attempt[c] < MaxAttempts /\ outcome[c] = 0
  BY DEF IInv, WTypeOK, CallInv, Attempts
<1>2. attempt[c] + 1 \in Attempts /\ elapsed[c] + s \in Nat
  BY <1>1 DEF IInv, WTypeOK, Attempts
<1>3. WTypeOK'
  BY <1>2 DEF IInv, WTypeOK, Submit, Attempts
<1>4. phase'[c] = "waiting" /\ attempt'[c] = attempt[c] + 1 /\ outcome'[c] = 0
  BY <1>1 DEF IInv, WTypeOK, Submit
<1>5. CallInv(c)'
  BY <1>2, <1>4 DEF CallInv
<1> QED BY <1>3, <1>5, Others DEF IInv, WTypeOK, Submit

LEMMA GivesUp ==
  ASSUME IInv, NEW c \in Calls, NEW s \in Nat, GiveUp(c, s), UNCHANGED configured,
         phase[c] = "waiting"
  PROVE  IInv'
<1> USE Bounds
<1>1. attempt[c] \in Attempts /\ outcome[c] = 0 /\ elapsed[c] + s \in Nat
  BY DEF IInv, WTypeOK, CallInv
<1>2. WTypeOK'
  BY <1>1 DEF IInv, WTypeOK, GiveUp, Returned
<1>3. /\ phase'[c] = IF attempt[c] < MaxAttempts THEN "sleeping" ELSE "error"
      /\ attempt'[c] = attempt[c] /\ outcome'[c] = 0
  BY <1>1 DEF IInv, WTypeOK, GiveUp
<1>4. CallInv(c)'
  BY <1>1, <1>3 DEF CallInv, Attempts
<1> QED BY <1>2, <1>4, Others DEF IInv, WTypeOK, GiveUp

LEMMA Collects ==
  ASSUME IInv, NEW c \in Calls, Collect(c), UNCHANGED configured
  PROVE  IInv'
<1> USE Bounds
<1>1. PICK s \in Durations : elapsed' = [elapsed EXCEPT ![c] = @ + s]
  BY DEF Collect
<1>2. attempt[c] \in Attempts /\ elapsed[c] + s \in Nat
  BY DEF IInv, WTypeOK, CallInv, Collect
<1>3. WTypeOK'
  BY <1>1, <1>2 DEF IInv, WTypeOK, Collect, Attempts, Returned
<1>4. /\ phase'[c] = "text" /\ attempt'[c] = attempt[c] /\ outcome'[c] = attempt[c]
      /\ thread'[c] = thread[c] /\ thread[c][attempt[c]] = "text"
  BY DEF IInv, WTypeOK, Collect
<1>5. CallInv(c)'
  BY <1>2, <1>4 DEF CallInv
<1> QED BY <1>3, <1>5, Others DEF IInv, WTypeOK, Collect

\* A thread that ends was running, so it is not the one whose text was returned.
LEMMA Threads ==
  ASSUME IInv, NEW c \in Calls, NEW a \in Attempts, ThreadEnds(c, a), UNCHANGED configured
  PROVE  IInv'
<1> USE Bounds
<1>1. PICK how \in {"text", "error"} : thread' = [thread EXCEPT ![c][a] = how]
  BY DEF ThreadEnds
<1>2. WTypeOK'
  BY <1>1 DEF IInv, WTypeOK, ThreadEnds
<1>3. \A b \in Attempts : thread[c][b] = "text" => thread'[c][b] = "text"
  BY <1>1 DEF IInv, WTypeOK, ThreadEnds
<1>4. CallInv(c)'
  BY <1>3 DEF IInv, WTypeOK, ThreadEnds, CallInv
<1> QED BY <1>1, <1>2, <1>4, Others DEF IInv, WTypeOK, ThreadEnds

LEMMA Refuses ==
  ASSUME IInv, NEW c \in Calls, NotConfigured(c), UNCHANGED configured
  PROVE  IInv'
<1> USE Bounds
<1>1. WTypeOK'
  BY DEF IInv, WTypeOK, NotConfigured, Returned
<1>2. CallInv(c)'
  BY DEF IInv, WTypeOK, NotConfigured, CallInv
<1> QED BY <1>1, <1>2, Others DEF IInv, WTypeOK, NotConfigured

LEMMA NextInv == IInv /\ [WNext]_wvars => IInv'
<1> SUFFICES ASSUME IInv, [WNext]_wvars PROVE IInv'
  OBVIOUS
<1>1. CASE UNCHANGED wvars
  BY <1>1 DEF wvars, IInv, WTypeOK, CallInv
<1>2. CASE WNext
  <2> PICK c \in Calls : \/ Begin(c) \/ NotConfigured(c) \/ WProceed(c)
                         \/ \E a \in Attempts : ThreadEnds(c, a)
    BY <1>2 DEF WNext
  <2> UNCHANGED configured
    BY <1>2 DEF WNext
  <2>1. CASE Begin(c)
    BY <2>1, Submits DEF Begin
  <2>2. CASE Retry(c)
    <3>1. phase[c] = "sleeping" /\ attempt[c] \in Attempts /\ attempt[c] < MaxAttempts
      BY <2>2 DEF Retry, IInv, CallInv
    <3>2. Delays[attempt[c]] \in Nat
      BY <3>1, Bounds
    <3> QED BY <2>2, <3>1, <3>2, Submits DEF Retry
  <2>3. CASE Fails(c)
    BY <2>3, GivesUp, Bounds DEF Fails
  <2>4. CASE TimesOut(c)
    BY <2>4, GivesUp, Bounds DEF TimesOut
  <2>5. CASE Collect(c)
    BY <2>5, Collects
  <2>6. CASE NotConfigured(c)
    BY <2>6, Refuses
  <2>7. CASE \E a \in Attempts : ThreadEnds(c, a)
    BY <2>7, Threads
  <2> QED BY <2>1, <2>2, <2>3, <2>4, <2>5, <2>6, <2>7 DEF WProceed
<1> QED BY <1>1, <1>2

LEMMA Invariant == WSpec => []IInv
BY InitInv, NextInv, PTL DEF WSpec

-----------------------------------------------------------------------------
(* Results. *)

\* Calls, attempts and threads keep their types.
THEOREM TypeCorrect == WSpec => []WTypeOK
<1>1. IInv => WTypeOK
  BY DEF IInv
<1> QED BY <1>1, Invariant, PTL

\* generate() returns the text of its last attempt, whatever earlier threads answer
\* late (watsonx_client.py:137).
THEOREM LateIgnored == WSpec => []LateTextsIgnored
<1>1. IInv => LateTextsIgnored
  BY DEF IInv, CallInv, LateTextsIgnored
<1> QED BY <1>1, Invariant, PTL

-----------------------------------------------------------------------------
(* Time. *)

\* Induction up to n.
LEMMA UpTo ==
  ASSUME NEW n \in Nat, NEW S, 0 \in S, \A i \in 0 .. n - 1 : i \in S => i + 1 \in S
  PROVE  0 .. n \subseteq S
<1> DEFINE Out == (0 .. n) \ S
           R == OpToRel(<, Nat)
<1>1. SUFFICES ASSUME Out # {} PROVE FALSE
  OBVIOUS
<1>2. IsWellFoundedOn(R, Nat)
  BY NatLessThanWellFounded
<1>3. \A x, y \in Nat : x < y => <<x, y>> \in R
  BY DEF OpToRel
<1>4. PICK m \in Out : \A k \in Out : ~(<<k, m>> \in R)
  <2>1. Out \subseteq Nat
    OBVIOUS
  <2> HIDE DEF Out, R
  <2> QED BY <1>1, <1>2, <2>1, WFMin
<1> HIDE DEF R
<1>5. m \in Nat /\ m # 0 /\ m - 1 \in 0 .. n - 1 /\ m = (m - 1) + 1
  BY <1>4
<1>6. m - 1 \notin Out
  <2>1. <<m - 1, m>> \in R
    BY <1>3, <1>5
  <2> QED BY <1>4, <2>1
<1> QED BY <1>4, <1>5, <1>6

\* The sums up to m.
Sums(f, m) ==
  /\ f \in [0 .. m -> Nat]
  /\ \A i \in 0 .. m : f[i] = IF i = 0 THEN 0 ELSE f[i - 1] + Delays[i]

\* Slept exists and adds up.
LEMMA SleptAdds ==
  /\ Slept \in [0 .. Len(Delays) -> Nat]
  /\ \A n \in 0 .. Len(Delays) : Slept[n] = IF n = 0 THEN 0 ELSE Slept[n - 1] + Delays[n]
<1> DEFINE N == Len(Delays)
           Summed == {m \in 0 .. N : \E f : Sums(f, m)}
           Typed == {m \in 0 .. N : Slept[m] \in Nat}
<1>1. N \in Nat /\ \A n \in 1 .. N : Delays[n] \in Nat
  BY TimeAssumption
<1>2. 0 \in Summed
  <2>1. Sums([i \in 0 .. 0 |-> 0], 0)
    BY DEF Sums
  <2> QED BY <1>1, <2>1
<1>3. ASSUME NEW m \in 0 .. N - 1, m \in Summed PROVE m + 1 \in Summed
  <2>1. PICK f : Sums(f, m)
    BY <1>3
  <2> DEFINE g == [i \in 0 .. m + 1 |-> IF i <= m THEN f[i] ELSE f[m] + Delays[m + 1]]
  <2>2. m \in Nat /\ m + 1 \in 1 .. N
    BY <1>1
  <2>3. g \in [0 .. m + 1 -> Nat]
    BY <1>1, <2>1, <2>2 DEF Sums
  <2>4. \A i \in 0 .. m + 1 : g[i] = IF i = 0 THEN 0 ELSE g[i - 1] + Delays[i]
    BY <1>1, <2>1, <2>2 DEF Sums
  <2> HIDE DEF g
  <2>5. Sums(g, m + 1)
    BY <2>3, <2>4 DEF Sums
  <2> QED BY <2>2, <2>5
<1>4. N \in Summed
  <2> HIDE DEF Summed
  <2>1. 0 .. N \subseteq Summed
    BY <1>1, <1>2, <1>3, UpTo
  <2> QED BY <1>1, <2>1
<1>5. PICK f : Sums(f, N)
  BY <1>4
<1>6. f = [n \in 0 .. N |-> IF n = 0 THEN 0 ELSE f[n - 1] + Delays[n]]
  BY <1>5 DEF Sums
<1>7. Slept = [n \in 0 .. N |-> IF n = 0 THEN 0 ELSE Slept[n - 1] + Delays[n]]
  BY <1>6 DEF Slept
<1>8. 0 .. N \subseteq Typed
  <2>1. 0 \in Typed
    BY <1>1, <1>7
  <2>2. ASSUME NEW m \in 0 .. N - 1, m \in Typed PROVE m + 1 \in Typed
    <3>1. m + 1 \in 1 .. N /\ m + 1 \in 0 .. N /\ (m + 1) - 1 = m
      BY <1>1
    <3>2. Slept[m + 1] = Slept[m] + Delays[m + 1]
      BY <1>7, <3>1
    <3> QED BY <1>1, <2>2, <3>1, <3>2
  <2> HIDE DEF Typed
  <2> QED BY <1>1, <2>1, <2>2, UpTo
<1> QED BY <1>7, <1>8

\* The seconds that attempt n may end at, its own timeout not included.
Before(n) == (n - 1) * Timeout + Slept[n - 1]

LEMMA BeforeType == \A n \in Attempts : Before(n) \in Nat
<1>1. ASSUME NEW n \in Attempts PROVE Before(n) \in Nat
  <2>1. n - 1 \in 0 .. Len(Delays) /\ n - 1 \in Nat
    BY TimeAssumption DEF Attempts, MaxAttempts
  <2>2. (n - 1) * Timeout \in Nat /\ Slept[n - 1] \in Nat
    BY <2>1, Bounds, SleptAdds
  <2> QED BY <2>2 DEF Before
<1> QED BY <1>1

\* Each attempt adds its timeout, and each sleep its delay.
LEMMA BeforeNext ==
  ASSUME NEW n \in Attempts, n < MaxAttempts
  PROVE  Before(n + 1) = Before(n) + Timeout + Delays[n]
<1>1. n \in Nat /\ n \in 1 .. Len(Delays) /\ n - 1 \in 0 .. Len(Delays)
  BY TimeAssumption DEF Attempts, MaxAttempts
<1>2. Slept[n] = Slept[n - 1] + Delays[n] /\ Slept[n - 1] \in Nat /\ Delays[n] \in Nat
  <2>1. n \in 0 .. Len(Delays) /\ n # 0
    BY <1>1
  <2>2. Delays[n] \in Nat
    BY Bounds
  <2> QED BY <1>1, <2>1, <2>2, SleptAdds
<1>3. n * Timeout = (n - 1) * Timeout + Timeout /\ (n - 1) * Timeout \in Nat
  BY <1>1, Bounds
<1>4. (n + 1) - 1 = n
  BY <1>1
<1> QED BY <1>2, <1>3, <1>4, Bounds DEF Before

TimeInv(c) ==
  /\ phase[c] = "idle" => elapsed[c] = 0
  /\ phase[c] = "waiting" => elapsed[c] <= Before(attempt[c])
  /\ attempt[c] > 0 => elapsed[c] <= Before(attempt[c]) + Timeout

TInv == IInv /\ \A c \in Calls : TimeInv(c)

LEMMA TimeOthers ==
  ASSUME NEW c \in Calls, NEW d \in Calls \ {c}, IInv, TimeInv(d),
         Begin(c) \/ NotConfigured(c) \/ WProceed(c) \/ \E a \in Attempts : ThreadEnds(c, a)
  PROVE  TimeInv(d)'
<1>1. phase'[d] = phase[d] /\ attempt'[d] = attempt[d] /\ elapsed'[d] = elapsed[d]
  BY DEF IInv, WTypeOK, Begin, NotConfigured, WProceed, Collect, Fails, TimesOut, GiveUp, Retry,
         Submit, ThreadEnds
<1> QED BY <1>1 DEF TimeInv

LEMMA TimeSubmit ==
  ASSUME NEW c \in Calls, IInv, TimeInv(c), Begin(c) \/ Retry(c) PROVE TimeInv(c)'
<1> USE Bounds
<1>1. attempt[c] \in Nat /\ elapsed[c] \in Nat /\ phase'[c] = "waiting"
  BY DEF IInv, WTypeOK, Begin, Retry, Submit
<1>2. CASE Begin(c)
  <2>1. attempt'[c] = 1 /\ elapsed'[c] = 0
    BY <1>2 DEF IInv, WTypeOK, CallInv, TimeInv, Begin, Submit
  <2>2. Before(1) \in Nat
    BY BeforeType DEF Attempts
  <2> QED BY <1>1, <2>1, <2>2 DEF TimeInv
<1>3. CASE Retry(c)
  <2>1. attempt[c] \in Attempts /\ attempt[c] < MaxAttempts
    BY <1>3 DEF Retry, IInv, CallInv
  <2>2. attempt'[c] = attempt[c] + 1 /\ elapsed'[c] = elapsed[c] + Delays[attempt[c]]
    BY <1>3 DEF IInv, WTypeOK, Retry, Submit
  <2>3. Before(attempt[c] + 1) = Before(attempt[c]) + Timeout + Delays[attempt[c]]
    BY <2>1, BeforeNext
  <2>4. elapsed[c] <= Before(attempt[c]) + Timeout
    BY <2>1 DEF TimeInv, Attempts
  <2> QED BY <1>1, <2>1, <2>2, <2>3, <2>4, BeforeType DEF TimeInv
<1> QED BY <1>2, <1>3

\* An attempt takes its timeout at most.
LEMMA TimeEnds ==
  ASSUME NEW c \in Calls, IInv, TimeInv(c), Collect(c) \/ Fails(c) \/ TimesOut(c)
  PROVE  TimeInv(c)'
<1>1. PICK s \in 0 .. Timeout : elapsed' = [elapsed EXCEPT ![c] = @ + s]
  <2>1. Timeout \in 0 .. Timeout
    BY TimeAssumption
  <2>2. CASE Collect(c)
    BY <2>2, TimeAssumption DEF Collect
  <2>3. CASE Fails(c)
    BY <2>3, TimeAssumption DEF Fails, GiveUp
  <2>4. CASE TimesOut(c)
    BY <2>1, <2>4 DEF TimesOut, GiveUp
  <2> QED BY <2>2, <2>3, <2>4
<1>2. /\ attempt[c] \in Attempts /\ attempt'[c] = attempt[c]
      /\ phase[c] = "waiting" /\ phase'[c] \in {"sleeping", "text", "error"}
  BY DEF Collect, Fails, TimesOut, GiveUp, IInv, WTypeOK, CallInv
<1>3. elapsed'[c] = elapsed[c] + s /\ elapsed[c] \in Nat
  BY <1>1 DEF IInv, WTypeOK
<1>4. elapsed[c] <= Before(attempt[c]) /\ Before(attempt[c]) \in Nat
  BY <1>2, BeforeType DEF TimeInv
<1> QED BY <1>2, <1>3, <1>4, Bounds DEF TimeInv

LEMMA TimeNext == TInv /\ [WNext]_wvars => TInv'
<1> SUFFICES ASSUME TInv, [WNext]_wvars PROVE \A c \in Calls : TimeInv(c)'
  BY NextInv DEF TInv
<1>1. CASE UNCHANGED wvars
  BY <1>1 DEF wvars, TInv, TimeInv
<1>2. CASE WNext
  <2> PICK c \in Calls : \/ Begin(c) \/ NotConfigured(c) \/ WProceed(c)
                         \/ \E a \in Attempts : ThreadEnds(c, a)
    BY <1>2 DEF WNext
  <2>1. \A d \in Calls \ {c} : TimeInv(d)'
    BY TimeOthers DEF TInv
  <2>2. CASE NotConfigured(c) \/ \E a \in Attempts : ThreadEnds(c, a)
    <3>1. /\ elapsed'[c] = elapsed[c] /\ attempt'[c] = attempt[c]
          /\ phase'[c] \in {phase[c], "error"}
      BY <2>2 DEF TInv, IInv, WTypeOK, NotConfigured, ThreadEnds
    <3> QED BY <2>1, <3>1 DEF TInv, TimeInv
  <2> QED BY <2>1, <2>2, TimeSubmit, TimeEnds DEF TInv, WProceed
<1> QED BY <1>1, <1>2

\* A caller of generate() is kept no longer than every attempt up to its timeout and the
\* sleeps between them take, for any timeout, delays and number of attempts.
THEOREM BudgetKept == WSpec => []WithinBudget
<1>1. WInit => TInv
  BY InitInv DEF WInit, TInv, TimeInv
<1>2. TInv => WithinBudget
  <2>1. SUFFICES ASSUME TInv, NEW c \in Calls, attempt[c] > 0
                 PROVE  elapsed[c] <= attempt[c] * Timeout + Slept[attempt[c] - 1]
    BY DEF WithinBudget
  <2>2. attempt[c] \in Attempts /\ attempt[c] \in Nat /\ attempt[c] - 1 \in 0 .. Len(Delays)
    BY <2>1, TimeAssumption DEF TInv, IInv, WTypeOK, Attempts, MaxAttempts
  <2>3. elapsed[c] <= Before(attempt[c]) + Timeout
    BY <2>1 DEF TInv, TimeInv
  <2>4. attempt[c] * Timeout = (attempt[c] - 1) * Timeout + Timeout
    BY <2>2, Bounds
  <2>5. (attempt[c] - 1) * Timeout \in Nat /\ Slept[attempt[c] - 1] \in Nat
    BY <2>2, Bounds, SleptAdds
  <2> QED BY <2>3, <2>4, <2>5, Bounds DEF Before
<1> QED BY <1>1, <1>2, TimeNext, PTL DEF WSpec

-----------------------------------------------------------------------------
(* The refinement. *)

\* What the caller of c has been told.
Told(c) == IF phase[c] \in Returned THEN outcome[c] ELSE Pending
ToldAll == [c \in Calls |-> Told(c)]
Started == {c \in Calls : phase[c] # "idle"}

\* A step of call c shows nothing but of c.
LEMMA OneCall ==
  ASSUME NEW c \in Calls,
         \A d \in Calls \ {c} : phase'[d] = phase[d] /\ outcome'[d] = outcome[d]
  PROVE  /\ ToldAll' = [ToldAll EXCEPT ![c] = Told(c)']
         /\ Started' = IF phase'[c] = "idle" THEN Started \ {c} ELSE Started \cup {c}
<1>1. \A d \in Calls \ {c} : Told(d)' = Told(d)
  BY DEF Told
<1> QED BY <1>1 DEF ToldAll, Started

\* The attempt, retry or thread of a call that goes on is not seen.
LEMMA Unseen ==
  ASSUME NEW c \in Calls, phase[c] \notin {"idle"} \cup Returned,
         phase'[c] \notin {"idle"} \cup Returned,
         \A d \in Calls \ {c} : phase'[d] = phase[d] /\ outcome'[d] = outcome[d]
  PROVE  UNCHANGED <<Started, ToldAll>>
<1>1. Told(c)' = Told(c) /\ Told(c) = ToldAll[c] /\ c \in Started
  BY DEF Told, ToldAll, Started
<1>2. ToldAll' = [ToldAll EXCEPT ![c] = ToldAll[c]] /\ Started' = Started \cup {c}
  BY <1>1, OneCall
<1> QED BY <1>1, <1>2 DEF ToldAll

LEMMA Replies ==
  ASSUME NEW c \in Calls, phase[c] = "waiting", phase'[c] \in Returned,
         outcome'[c] \in Attempts \cup {0},
         \A d \in Calls \ {c} : phase'[d] = phase[d] /\ outcome'[d] = outcome[d]
  PROVE  \E v \in Attempts \cup {0} : OnceAnswered!Reply(c, v)
<1>1. ToldAll[c] = Pending /\ c \in Started /\ Told(c)' = outcome'[c]
  BY DEF Told, ToldAll, Started, Returned
<1>2. ToldAll' = [ToldAll EXCEPT ![c] = outcome'[c]] /\ Started' = Started
  BY <1>1, OneCall DEF Returned
<1> QED BY <1>1, <1>2 DEF OnceAnswered!Reply, ToldAll, Told, Started

LEMMA Asks ==
  ASSUME NEW c \in Calls, phase[c] = "idle", phase'[c] = "waiting",
         \A d \in Calls \ {c} : phase'[d] = phase[d] /\ outcome'[d] = outcome[d]
  PROVE  OnceAnswered!Ask(c)
<1>1. c \notin Started /\ Told(c)' = Told(c) /\ Told(c) = ToldAll[c]
  BY DEF Told, ToldAll, Started, Returned
<1>2. ToldAll' = [ToldAll EXCEPT ![c] = ToldAll[c]] /\ Started' = Started \cup {c}
  BY <1>1, OneCall
<1>3. ToldAll' = ToldAll
  BY <1>2 DEF ToldAll
<1> QED BY <1>1, <1>2, <1>3 DEF OnceAnswered!Ask, ToldAll, Told, Started

LEMMA Refusals ==
  ASSUME NEW c \in Calls, phase[c] = "idle", phase'[c] = "error", outcome'[c] = 0,
         \A d \in Calls \ {c} : phase'[d] = phase[d] /\ outcome'[d] = outcome[d]
  PROVE  OnceAnswered!Refuse(c)
<1>1. c \notin Started /\ Told(c)' = 0
  BY DEF Told, Started, Returned
<1>2. ToldAll' = [ToldAll EXCEPT ![c] = 0] /\ Started' = Started \cup {c}
  BY <1>1, OneCall
<1> QED BY <1>1, <1>2 DEF OnceAnswered!Refuse, ToldAll, Told, Started

LEMMA Refines ==
  ASSUME IInv, [WNext]_wvars
  PROVE  OnceAnswered!Next \/ UNCHANGED <<Started, ToldAll>>
<1>1. CASE UNCHANGED wvars
  BY <1>1 DEF wvars, Started, ToldAll, Told
<1>2. CASE WNext
  <2> PICK c \in Calls : \/ Begin(c) \/ NotConfigured(c) \/ WProceed(c)
                         \/ \E a \in Attempts : ThreadEnds(c, a)
    BY <1>2 DEF WNext
  <2> USE DEF IInv, WTypeOK
  <2>1. CASE Begin(c)
    BY <2>1, Asks DEF Begin, Submit, OnceAnswered!Next
  <2>2. CASE Retry(c)
    <3>1. /\ phase[c] = "sleeping" /\ phase'[c] = "waiting"
          /\ \A d \in Calls \ {c} : phase'[d] = phase[d] /\ outcome'[d] = outcome[d]
      BY <2>2 DEF Retry, Submit
    <3> QED BY <3>1, Unseen DEF Returned
  <2>3. CASE Fails(c) \/ TimesOut(c)
    <3>1. /\ phase[c] = "waiting" /\ phase'[c] \in {"sleeping", "error"} /\ outcome'[c] = 0
          /\ \A d \in Calls \ {c} : phase'[d] = phase[d] /\ outcome'[d] = outcome[d]
      BY <2>3 DEF Fails, TimesOut, GiveUp, CallInv
    <3>2. CASE phase'[c] = "sleeping"
      BY <3>1, <3>2, Unseen DEF Returned
    <3>3. CASE phase'[c] = "error"
      BY <3>1, <3>3, Replies DEF Returned, OnceAnswered!Next
    <3> QED BY <3>1, <3>2, <3>3
  <2>4. CASE Collect(c)
    <3>1. /\ phase[c] = "waiting" /\ phase'[c] = "text" /\ outcome'[c] \in Attempts
          /\ \A d \in Calls \ {c} : phase'[d] = phase[d] /\ outcome'[d] = outcome[d]
      BY <2>4 DEF Collect, CallInv
    <3> QED BY <3>1, Replies DEF Returned, OnceAnswered!Next
  <2>5. CASE NotConfigured(c)
    <3>1. /\ phase[c] = "idle" /\ phase'[c] = "error" /\ outcome'[c] = 0
          /\ \A d \in Calls \ {c} : phase'[d] = phase[d] /\ outcome'[d] = outcome[d]
      BY <2>5 DEF NotConfigured, CallInv
    <3> QED BY <3>1, Refusals DEF OnceAnswered!Next
  <2>6. CASE \E a \in Attempts : ThreadEnds(c, a)
    BY <2>6 DEF ThreadEnds, Started, ToldAll, Told
  <2> QED BY <2>1, <2>2, <2>3, <2>4, <2>5, <2>6 DEF WProceed
<1> QED BY <1>1, <1>2

\* generate() answers once, with the text of one of its attempts or a WatsonxError.
THEOREM ImplementsExchange == WSpec => AnswersOnce
<1>1. WInit => OnceAnswered!Init
  BY DEF WInit, OnceAnswered!Init, Returned
<1>2. IInv /\ [WNext]_wvars =>
        [OnceAnswered!Next]_<<{c \in Calls : phase[c] # "idle"},
                              [c \in Calls |-> IF phase[c] \in Returned
                                               THEN outcome[c] ELSE Pending]>>
  BY Refines DEF Started, ToldAll, Told
<1> QED BY <1>1, <1>2, Invariant, PTL DEF WSpec, AnswersOnce, OnceAnswered!Spec
=============================================================================
