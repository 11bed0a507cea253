-------------------------- MODULE AlgorithmsProofs --------------------------
(***************************************************************************)
(* The windows of the chunking loops for every text, and what the pure     *)
(* functions of the pipeline return for every argument.                    *)
(*                                                                         *)
(* The three actions of Chunking store the same window at the same place   *)
(* (Stores), so that one invariant describes a loop by its windows alone:  *)
(* each starts one step after the one before (Chain), and pos is where the *)
(* next one would start.  Two loops are then compared window by window.    *)
(*                                                                         *)
(* The functions are reduced to what they are built from: sums over finite *)
(* sets, which any element may start (SumTake), quotients rounded half to  *)
(* even (RoundNear, RoundEven), and the packer, whose state after i        *)
(* passages is described by Packed, the best of finitely many terms        *)
(* (BestTerms), folds over a text, described letter by letter (Runs), and  *)
(* the passes that order the samples (SpreadSoFar).                        *)
(* Sums, packer and folds are recursive functions: that they exist, and    *)
(* what holds of them step by step, is shown by an induction over a set of *)
(* numbers (UpTo), of sets (BySize) or of texts (Along).                   *)
(***************************************************************************)
EXTENDS Algorithms, FiniteSetTheorems, WellFoundedInduction, NaturalsInduction, TLAPS

-----------------------------------------------------------------------------
(* The chunking loops. *)

\* The window that starts at s.
At(s) == [start |-> s, end |-> Least(s + text.size, text.total)]

Chain(l) ==
  LET w == win[l] n == Len(win[l]) IN
  /\ \A i \in 1 .. n : w[i] = At(w[i].start) /\ w[i].start < text.total
  /\ n > 0 => w[1].start = 0
  /\ \A i \in 1 .. n : i > 1 => w[i].start = w[i - 1].start + Step
  /\ \A i \in 1 .. n : i < n => w[i].start + text.size < text.total
  /\ n = 0 => pos[l] = 0
  /\ ~over[l] /\ n > 0 => /\ w[n].start + text.size < text.total
                          /\ pos[l] = w[n].start + Step
  /\ over[l] /\ n > 0 => w[n].start + text.size >= text.total
  /\ over[l] /\ n = 0 => text.total = 0

Same ==
  \A l, m \in Loops : \A i \in 1 .. Len(win[l]) : i <= Len(win[m]) => win[l][i] = win[m][i]

IInv == ChunkTypeOK /\ (\A l \in Loops : Chain(l)) /\ Same

-----------------------------------------------------------------------------

\* Sizes are numbers, and a step is positive.
LEMMA Sizes ==
  ASSUME ChunkTypeOK
  PROVE  /\ text.total \in Nat /\ text.size \in Nat /\ text.overlap \in Nat
         /\ text.overlap < text.size
         /\ Step \in Nat /\ Step > 0
  BY TextAssumption DEF ChunkTypeOK, Step

\* What the type says of one loop.
LEMMA Windows ==
  ASSUME NEW w \in Seq(Window)
  PROVE  /\ Len(w) \in Nat /\ (w = <<>> <=> Len(w) = 0)
         /\ \A i \in 1 .. Len(w) : w[i].start \in Nat /\ w[i].end \in Nat
<1>1. \A i \in 1 .. Len(w) : w[i] \in Window
  OBVIOUS
<1>2. \A x \in Window : x.start \in Nat /\ x.end \in Nat
  BY DEF Window
<1>3. Len(w) \in Nat /\ (w = <<>> <=> Len(w) = 0)
  OBVIOUS
<1> QED BY <1>1, <1>2, <1>3

LEMMA LoopTypes ==
  ASSUME ChunkTypeOK, NEW l \in Loops
  PROVE  /\ win[l] \in Seq(Window) /\ Len(win[l]) \in Nat
         /\ (win[l] = <<>> <=> Len(win[l]) = 0)
         /\ pos[l] \in Nat /\ over[l] \in BOOLEAN
         /\ \A i \in 1 .. Len(win[l]) : win[l][i].start \in Nat /\ win[l][i].end \in Nat
<1>1. win[l] \in Seq(Window) /\ pos[l] \in Nat /\ over[l] \in BOOLEAN
  BY DEF ChunkTypeOK
<1> QED BY <1>1, Windows

\* A step of loop l that stores a window.
Stores(l) ==
  \E last \in BOOLEAN :
    /\ last <=> pos[l] + text.size >= text.total
    /\ ~over[l] /\ pos[l] < text.total
    /\ Store(l, Least(pos[l] + text.size, text.total), last)

\* Every step of a loop stores the window at pos or finds the text empty.
LEMMA LoopsStore ==
  ASSUME ChunkTypeOK, ChunkNext
  PROVE  \E l \in Loops : Stores(l) \/ NoWindow(l)
<1>0. \A p \in Nat : (Least(p + text.size, text.total) = text.total)
                       <=> (p + text.size >= text.total)
  BY Sizes DEF Least
<1>1. CASE ChunkText
  <2> DEFINE l == "chunk_text"
  <2>1. l \in Loops
    BY DEF Loops
  <2>2. pos[l] \in Nat /\ text.size \in Nat /\ text.total \in Nat
    BY <2>1, Sizes DEF ChunkTypeOK
  <2>3. ~over[l] /\ pos[l] < text.total
    BY <1>1 DEF ChunkText
  <2>4. CASE pos[l] + text.size >= text.total
    <3>1. Least(pos[l] + text.size, text.total) = text.total
      BY <1>0, <2>2, <2>4
    <3>2. Store(l, Least(pos[l] + text.size, text.total), TRUE)
      BY <1>1, <2>4, <3>1 DEF ChunkText
    <3> QED BY <2>1, <2>3, <2>4, <3>2 DEF Stores
  <2>5. CASE ~(pos[l] + text.size >= text.total)
    <3>1. Least(pos[l] + text.size, text.total) = pos[l] + text.size
      BY <2>2, <2>5 DEF Least
    <3>2. Store(l, Least(pos[l] + text.size, text.total), FALSE)
      BY <1>1, <2>5, <3>1 DEF ChunkText
    <3> QED BY <2>1, <2>3, <2>5, <3>2 DEF Stores
  <2> QED BY <2>4, <2>5, <2>1
<1>2. CASE ChunkAndInsert
  <2> DEFINE l == "_chunk_and_insert"
  <2>1. l \in Loops /\ pos[l] \in Nat
    BY DEF ChunkTypeOK, Loops
  <2>2. (Least(pos[l] + text.size, text.total) = text.total)
          <=> (pos[l] + text.size >= text.total)
    BY <1>0, <2>1
  <2>3. ~over[l] /\ pos[l] < text.total
    BY <1>2 DEF ChunkAndInsert
  <2>4. Store(l, Least(pos[l] + text.size, text.total),
              Least(pos[l] + text.size, text.total) = text.total)
    BY <1>2 DEF ChunkAndInsert
  <2>5. Stores(l)
    BY <2>2, <2>3, <2>4 DEF Stores
  <2> QED BY <2>1, <2>5
<1>3. CASE ChunkDocument
  <2> DEFINE l == "_chunk_document"
  <2>1. l \in Loops /\ pos[l] \in Nat
    BY DEF ChunkTypeOK, Loops
  <2>2. (Least(pos[l] + text.size, text.total) = text.total)
          <=> (pos[l] + text.size >= text.total)
    BY <1>0, <2>1
  <2>3. ~over[l] /\ pos[l] < text.total
    BY <1>3 DEF ChunkDocument
  <2>4. Store(l, Least(pos[l] + text.size, text.total),
              Least(pos[l] + text.size, text.total) = text.total)
    BY <1>3 DEF ChunkDocument
  <2>5. Stores(l)
    BY <2>2, <2>3, <2>4 DEF Stores
  <2> QED BY <2>1, <2>5
<1>4. CASE \E l \in Loops : NoWindow(l)
  BY <1>4
<1> QED BY <1>1, <1>2, <1>3, <1>4 DEF ChunkNext

LEMMA InitInv == ChunkInit => IInv
<1> SUFFICES ASSUME ChunkInit PROVE IInv
  OBVIOUS
<1>1. ChunkTypeOK
  BY DEF ChunkInit, ChunkTypeOK
<1>2. \A l \in Loops : Len(win[l]) = 0
  BY DEF ChunkInit
<1> QED BY <1>1, <1>2 DEF ChunkInit, IInv, Chain, Same

\* What such a step does to the loop and to the others.
LEMMA Stored ==
  ASSUME ChunkTypeOK, NEW l \in Loops, Stores(l)
  PROVE  /\ ~over[l] /\ pos[l] < text.total
         /\ win' = [win EXCEPT ![l] = Append(@, At(pos[l]))]
         /\ win'[l] = Append(win[l], At(pos[l]))
         /\ over' \in [Loops -> BOOLEAN]
         /\ over'[l] <=> pos[l] + text.size >= text.total
         /\ pos' \in [Loops -> Nat]
         /\ ~over'[l] => pos'[l] = pos[l] + Step
         /\ \A m \in Loops : m # l => /\ win'[m] = win[m]
                                     /\ pos'[m] = pos[m] /\ over'[m] = over[m]
         /\ text' = text
<1>1. PICK last \in BOOLEAN :
        /\ last <=> pos[l] + text.size >= text.total
        /\ ~over[l] /\ pos[l] < text.total
        /\ Store(l, Least(pos[l] + text.size, text.total), last)
  BY DEF Stores
<1>2. /\ win' = [win EXCEPT ![l] = Append(@, At(pos[l]))]
      /\ over' = [over EXCEPT ![l] = last]
      /\ pos' = [pos EXCEPT ![l] = IF last THEN @ ELSE @ + Step]
      /\ text' = text
  BY <1>1 DEF Store, At
<1>3. Step \in Nat
  BY Sizes
<1>4. over'[l] = last /\ over' \in [Loops -> BOOLEAN]
  BY <1>2 DEF ChunkTypeOK
<1>5. pos' \in [Loops -> Nat] /\ (~last => pos'[l] = pos[l] + Step)
  BY <1>2, <1>3 DEF ChunkTypeOK
<1>6. /\ win'[l] = Append(win[l], At(pos[l]))
      /\ \A m \in Loops : m # l => /\ win'[m] = win[m]
                                  /\ pos'[m] = pos[m] /\ over'[m] = over[m]
  BY <1>2 DEF ChunkTypeOK
<1> QED BY <1>1, <1>2, <1>4, <1>5, <1>6

LEMMA StoresType ==
  ASSUME ChunkTypeOK, NEW l \in Loops, Stores(l)
  PROVE  ChunkTypeOK'
<1>1. At(pos[l]) \in Window
  BY Sizes, LoopTypes DEF At, Window, Least
<1>2. Append(win[l], At(pos[l])) \in Seq(Window)
  BY <1>1, LoopTypes
<1>3. win' \in [Loops -> Seq(Window)]
  <2>1. win' = [win EXCEPT ![l] = Append(@, At(pos[l]))] /\ win \in [Loops -> Seq(Window)]
    BY Stored DEF ChunkTypeOK
  <2> QED BY <1>2, <2>1
<1> QED BY <1>3, Stored DEF ChunkTypeOK

\* Storing the window at pos keeps the chain of the loop that stores it.
LEMMA StoresChain ==
  ASSUME IInv, NEW l \in Loops, Stores(l)
  PROVE  Chain(l)'
<1> DEFINE w == win[l]
           n == Len(win[l])
           p == pos[l]
<1>0. ChunkTypeOK /\ Chain(l)
  BY DEF IInv
<1>1. /\ win[l] \in Seq(Window) /\ n \in Nat /\ p \in Nat
      /\ \A i \in 1 .. n : w[i].start \in Nat
  BY <1>0, LoopTypes
<1>2. /\ win'[l] = Append(w, At(p)) /\ text' = text
      /\ over'[l] <=> p + text.size >= text.total
      /\ ~over'[l] => pos'[l] = p + Step
  BY <1>0, Stored
<1>3. /\ Len(win'[l]) = n + 1
      /\ win'[l][n + 1] = At(p)
      /\ \A i \in 1 .. n : win'[l][i] = w[i]
  BY <1>1, <1>2
<1>4. At(p).start = p
  BY DEF At
<1>5. ~over[l] /\ p < text.total
  BY <1>0, Stored
<1>6. n > 0 => w[n].start + text.size < text.total /\ p = w[n].start + Step
  BY <1>0, <1>5 DEF Chain
<1>7. n = 0 => p = 0
  BY <1>0 DEF Chain
<1>8. Step' = Step /\ \A s : At(s)' = At(s)
  BY <1>2 DEF Step, At
<1> HIDE DEF w, n, p
<1>9. \A i \in 1 .. n + 1 : win'[l][i] = At(win'[l][i].start) /\ win'[l][i].start < text.total
  <2> TAKE i \in 1 .. n + 1
  <2>1. CASE i = n + 1
    BY <2>1, <1>3, <1>4, <1>5
  <2>2. CASE i \in 1 .. n
    BY <2>2, <1>0, <1>3 DEF Chain, w, n
  <2> QED BY <2>1, <2>2, <1>1
<1>10. win'[l][1].start = 0
  <2>1. CASE n = 0
    BY <2>1, <1>3, <1>4, <1>7
  <2>2. CASE n > 0
    BY <2>2, <1>0, <1>1, <1>3 DEF Chain, w, n
  <2> QED BY <2>1, <2>2, <1>1
<1>11. \A i \in 1 .. n + 1 : i > 1 => win'[l][i].start = win'[l][i - 1].start + Step
  <2> SUFFICES ASSUME NEW i \in 1 .. n + 1, i > 1
               PROVE  win'[l][i].start = win'[l][i - 1].start + Step
    OBVIOUS
  <2>0. i - 1 \in 1 .. n
    BY <1>1
  <2>1. CASE i = n + 1
    BY <2>0, <2>1, <1>1, <1>3, <1>4, <1>6
  <2>2. CASE i \in 1 .. n
    BY <2>0, <2>2, <1>0, <1>3 DEF Chain, w, n
  <2> QED BY <2>1, <2>2, <1>1
<1>12. \A i \in 1 .. n + 1 : i < n + 1 => win'[l][i].start + text.size < text.total
  <2> SUFFICES ASSUME NEW i \in 1 .. n PROVE win'[l][i].start + text.size < text.total
    BY <1>1
  <2>1. CASE i = n
    BY <2>1, <1>1, <1>3, <1>6
  <2>2. CASE i < n
    BY <2>2, <1>0, <1>3 DEF Chain, w, n
  <2> QED BY <2>1, <2>2, <1>1
<1>13. Step' = Step /\ text' = text /\ (\A s : At(s)' = At(s)) /\ Len(win'[l]) = n + 1
  BY <1>2, <1>3, <1>8
<1>14. /\ ~over'[l] => p + text.size < text.total /\ pos'[l] = p + Step
       /\ over'[l] => p + text.size >= text.total
  <2>1. p \in Nat /\ text.size \in Nat /\ text.total \in Nat
    BY <1>0, <1>1, Sizes
  <2> QED BY <2>1, <1>2
<1>15. win'[l][n + 1].start = p /\ n + 1 > 0 /\ n + 1 # 0
  BY <1>1, <1>3, <1>4
<1> QED
  BY <1>9, <1>10, <1>11, <1>12, <1>13, <1>14, <1>15 DEF Chain

\* The other loops are not concerned.
LEMMA StoresOthers ==
  ASSUME IInv, NEW l \in Loops, Stores(l), NEW m \in Loops, m # l
  PROVE  Chain(m)'
<1>1. win'[m] = win[m] /\ pos'[m] = pos[m] /\ over'[m] = over[m] /\ text' = text
  BY Stored DEF IInv
<1> QED BY <1>1 DEF IInv, Chain, At, Step

\* A loop that finds no token has found none at its first turn: the text is empty.
LEMMA NoWindowInv ==
  ASSUME IInv, NEW l \in Loops, NoWindow(l)
  PROVE  IInv'
<1>0. ChunkTypeOK /\ Chain(l)
  BY DEF IInv
<1>1. /\ win' = win /\ pos' = pos /\ text' = text /\ over' \in [Loops -> BOOLEAN]
      /\ over'[l] /\ \A m \in Loops : m # l => over'[m] = over[m]
  BY <1>0 DEF NoWindow, ChunkTypeOK
<1>2. /\ Len(win[l]) \in Nat /\ pos[l] \in Nat
      /\ \A i \in 1 .. Len(win[l]) : win[l][i].start \in Nat
  BY <1>0, LoopTypes
<1>3. Len(win[l]) = 0
  <2> SUFFICES ASSUME Len(win[l]) > 0 PROVE FALSE
    BY <1>2
  <2> DEFINE last == win[l][Len(win[l])].start
  <2>1. last \in Nat
    BY <1>2
  <2>2. last + text.size < text.total /\ pos[l] = last + Step
    BY <1>0 DEF Chain, NoWindow
  <2>3. pos[l] >= text.total
    BY DEF NoWindow
  <2> HIDE DEF last
  <2> QED BY <2>1, <2>2, <2>3, <1>0, Sizes DEF Step
<1>4. text.total = 0
  BY <1>0, <1>2, <1>3, Sizes DEF Chain, NoWindow
<1>5. Chain(l)'
  BY <1>0, <1>1, <1>3, <1>4 DEF Chain, At, Step
<1>6. ASSUME NEW m \in Loops, m # l PROVE Chain(m)'
  BY <1>1, <1>6 DEF IInv, Chain, At, Step
<1>7. ChunkTypeOK' /\ Same'
  BY <1>0, <1>1 DEF IInv, ChunkTypeOK, Same
<1> QED BY <1>5, <1>6, <1>7 DEF IInv

\* The window stored by loop l is the one another loop has at that place.
LEMMA StoresSame ==
  ASSUME IInv, NEW l \in Loops, Stores(l)
  PROVE  Same'
<1> DEFINE n == Len(win[l])
           p == pos[l]
<1>0. ChunkTypeOK /\ Same /\ (\A m \in Loops : Chain(m))
  BY DEF IInv
<1>1. /\ win[l] \in Seq(Window) /\ n \in Nat /\ p \in Nat
      /\ \A m \in Loops : Len(win[m]) \in Nat
  BY <1>0 DEF ChunkTypeOK
<1>2. /\ win'[l] = Append(win[l], At(p))
      /\ \A m \in Loops : m # l => win'[m] = win[m]
  BY <1>0, Stored
<1>3. /\ Len(win'[l]) = n + 1
      /\ win'[l][n + 1] = At(p)
      /\ \A i \in 1 .. n : win'[l][i] = win[l][i]
  BY <1>1, <1>2
<1>4. ASSUME NEW m \in Loops, m # l, n + 1 <= Len(win[m])
      PROVE  win[m][n + 1] = At(p)
  <2>0. n + 1 \in 1 .. Len(win[m])
    BY <1>1, <1>4
  <2>1. win[m][n + 1] = At(win[m][n + 1].start)
    BY <1>0, <2>0 DEF Chain
  <2>2. CASE n = 0
    <3>1. win[m][1].start = 0 /\ p = 0
      BY <2>2, <1>0, <1>1, <1>4 DEF Chain
    <3> QED BY <2>1, <2>2, <3>1
  <2>3. CASE n > 0
    <3>1. win[m][n + 1].start = win[m][n].start + Step
      BY <2>3, <1>0, <1>1, <1>4 DEF Chain
    <3>2. win[m][n] = win[l][n]
      BY <2>3, <1>0, <1>1, <1>4 DEF Same
    <3>3. p = win[l][n].start + Step
      BY <2>3, <1>0, <1>1, Stored DEF Chain
    <3> QED BY <2>1, <3>1, <3>2, <3>3
  <2> QED BY <2>2, <2>3, <1>1
<1> HIDE DEF n, p
<1>5. ASSUME NEW a \in Loops, NEW b \in Loops,
             NEW i \in 1 .. Len(win'[a]), i <= Len(win'[b])
      PROVE  win'[a][i] = win'[b][i]
  <2>1. CASE a = l /\ b = l
    BY <2>1
  <2>2. CASE a # l /\ b # l
    BY <2>2, <1>0, <1>2, <1>5 DEF Same
  <2>3. CASE a = l /\ b # l
    <3>1. CASE i = n + 1
      BY <3>1, <2>3, <1>2, <1>3, <1>4, <1>5
    <3>2. CASE i # n + 1
      <4>1. i \in 1 .. n
        BY <3>2, <2>3, <1>1, <1>3, <1>5
      <4>2. win[l][i] = win[b][i]
        BY <4>1, <2>3, <1>0, <1>2, <1>5 DEF Same, n
      <4> QED BY <4>1, <4>2, <2>3, <1>2, <1>3
    <3> QED BY <3>1, <3>2
  <2>4. CASE a # l /\ b = l
    <3>1. CASE i = n + 1
      BY <3>1, <2>4, <1>1, <1>2, <1>3, <1>4, <1>5
    <3>2. CASE i # n + 1
      <4>1. i \in 1 .. n
        BY <3>2, <2>4, <1>1, <1>2, <1>3, <1>5
      <4>2. win[a][i] = win[l][i]
        BY <4>1, <2>4, <1>0, <1>2, <1>5 DEF Same, n
      <4> QED BY <4>1, <4>2, <2>4, <1>2, <1>3
    <3> QED BY <3>1, <3>2
  <2> QED BY <2>1, <2>2, <2>3, <2>4
<1> QED BY <1>5 DEF Same

LEMMA NextInv == IInv /\ [ChunkNext]_chunkVars => IInv'
<1> SUFFICES ASSUME IInv, [ChunkNext]_chunkVars PROVE IInv'
  OBVIOUS
<1>1. CASE ChunkNext
  <2>1. PICK l \in Loops : Stores(l) \/ NoWindow(l)
    BY <1>1, LoopsStore DEF IInv
  <2>2. CASE Stores(l)
    <3>1. ChunkTypeOK'
      BY <2>2, StoresType DEF IInv
    <3>2. \A m \in Loops : Chain(m)'
      BY <2>2, StoresChain, StoresOthers
    <3>3. Same'
      BY <2>2, StoresSame
    <3> QED BY <3>1, <3>2, <3>3 DEF IInv
  <2>3. CASE NoWindow(l)
    BY <2>3, NoWindowInv
  <2> QED BY <2>1, <2>2, <2>3
<1>2. CASE UNCHANGED chunkVars
  BY <1>2 DEF chunkVars, IInv, ChunkTypeOK, Chain, Same, At, Step
<1> QED BY <1>1, <1>2

LEMMA Invariant == ChunkSpec => []IInv
BY InitInv, NextInv, PTL DEF ChunkSpec

\* The jobs run the same loops, or leave them with an empty text.
LEMMA JobsInvariant == Spec => []IInv
<1>1. Init => IInv
  <2>1. SUFFICES ASSUME text = (CHOOSE t \in Texts : t.total = 0),
                        pos = [l \in Loops |-> 0], win = [l \in Loops |-> <<>>],
                        over = [l \in Loops |-> TRUE]
        PROVE  IInv
    BY InitInv DEF Init
  <2>2. text \in Texts /\ text.total = 0
    BY <2>1, EmptyTextAssumption
  <2>3. ChunkTypeOK
    BY <2>1, <2>2 DEF ChunkTypeOK
  <2>4. \A l \in Loops : Len(win[l]) = 0 /\ 1 .. Len(win[l]) = {} /\ pos[l] = 0 /\ over[l]
    BY <2>1
  <2>5. \A l \in Loops : Chain(l)
    BY <2>2, <2>4 DEF Chain
  <2>6. Same
    BY <2>4 DEF Same
  <2> QED BY <2>3, <2>5, <2>6 DEF IInv
<1>2. [Next]_vars => [ChunkNext]_chunkVars
  BY DEF Next, vars, chunkVars
<1>3. IInv /\ [ChunkNext]_chunkVars => IInv'
  BY NextInv
<1> QED BY <1>1, <1>2, <1>3, PTL DEF Spec

-----------------------------------------------------------------------------

LEMMA ChainTiles == IInv => WindowsTile
<1> SUFFICES ASSUME IInv, NEW l \in Loops
             PROVE  /\ win[l] # <<>> => win[l][1].start = 0
                    /\ \A i \in 1 .. Len(win[l]) : win[l][i].start < win[l][i].end
                    /\ \A i \in 2 .. Len(win[l]) :
                         /\ win[l][i - 1].end - win[l][i].start = text.overlap
                         /\ win[l][i - 1].end < win[l][i].end
                    /\ over[l] /\ text.total > 0 =>
                         win[l] # <<>> /\ win[l][Len(win[l])].end = text.total
  BY DEF WindowsTile
<1> DEFINE w == win[l]
           n == Len(win[l])
<1>0. ChunkTypeOK /\ Chain(l)
  BY DEF IInv
<1>1. /\ w \in Seq(Window) /\ n \in Nat /\ (w = <<>> <=> n = 0)
      /\ \A i \in 1 .. n : w[i].start \in Nat
  BY <1>0, LoopTypes
<1>2. ASSUME NEW i \in 1 .. n
      PROVE  /\ w[i].end = Least(w[i].start + text.size, text.total)
             /\ w[i].start < text.total
  <2>1. PICK s : s = w[i].start
    OBVIOUS
  <2>2. w[i] = At(s) /\ s < text.total
    BY <2>1, <1>0 DEF Chain
  <2> QED BY <2>1, <2>2 DEF At
<1>3. w # <<>> => w[1].start = 0
  BY <1>0, <1>1 DEF Chain
<1>4. \A i \in 1 .. n : w[i].start < w[i].end
  BY <1>0, <1>1, <1>2, Sizes DEF Least
<1>5. ASSUME NEW i \in 2 .. n
      PROVE  w[i - 1].end - w[i].start = text.overlap /\ w[i - 1].end < w[i].end
  <2>1. i \in 1 .. n /\ i - 1 \in 1 .. n /\ i - 1 < n /\ i > 1
    BY <1>1
  <2>2. w[i].start = w[i - 1].start + Step /\ w[i - 1].start + text.size < text.total
    BY <2>1, <1>0 DEF Chain
  <2>3. /\ w[i - 1].start \in Nat /\ text.size \in Nat /\ text.total \in Nat
        /\ text.overlap \in Nat /\ Step \in Nat /\ Step > 0
    BY <2>1, <1>0, <1>1, Sizes
  <2>4. w[i - 1].end = w[i - 1].start + text.size
    <3>1. w[i - 1].end = Least(w[i - 1].start + text.size, text.total)
      BY <1>2, <2>1
    <3> HIDE DEF w
    <3> QED BY <2>2, <2>3, <3>1 DEF Least
  <2>5. w[i - 1].end - w[i].start = text.overlap
    BY <2>2, <2>3, <2>4 DEF Step
  <2>6. w[i].end = Least(w[i].start + text.size, text.total)
    BY <2>1, <1>2
  <2>7. w[i - 1].end < w[i].end
    BY <2>2, <2>3, <2>4, <2>6 DEF Least
  <2> QED BY <2>5, <2>7
<1>6. ASSUME over[l], text.total > 0
      PROVE  w # <<>> /\ w[n].end = text.total
  <2>1. n > 0 /\ w[n].start + text.size >= text.total
    BY <1>0, <1>1, <1>6, Sizes DEF Chain
  <2> QED BY <2>1, <1>0, <1>1, <1>2, Sizes DEF Least
<1> QED BY <1>3, <1>4, <1>5, <1>6

LEMMA SameLength == IInv => Lockstep
<1> SUFFICES ASSUME IInv, NEW l \in Loops, NEW m \in Loops, over[l], over[m]
             PROVE  Len(win[l]) = Len(win[m])
  BY DEF IInv, Same, Lockstep
<1>0. ChunkTypeOK /\ Same /\ Chain(l) /\ Chain(m)
  BY DEF IInv
<1>1. Len(win[l]) \in Nat /\ Len(win[m]) \in Nat
  BY <1>0 DEF ChunkTypeOK
<1>2. ASSUME NEW a \in Loops, NEW b \in Loops, Chain(a), Chain(b), over[a],
             Len(win[a]) \in Nat, Len(win[b]) \in Nat,
             Len(win[a]) < Len(win[b])
      PROVE  FALSE
  <2> DEFINE n == Len(win[a])
  <2>1. CASE n = 0
    <3>1. text.total = 0
      BY <2>1, <1>2 DEF Chain
    <3>2. win[b][1].start < 0 /\ win[b][1].start = 0
      BY <2>1, <3>1, <1>2 DEF Chain
    <3> QED BY <3>2
  <2>2. CASE n > 0
    <3>1. n \in 1 .. Len(win[a]) /\ n \in 1 .. Len(win[b])
      BY <2>2, <1>2
    <3>2. win[a][n] = win[b][n]
      BY <3>1, <1>0, <1>2 DEF Same
    <3>6. win[a][n].start \in Nat
      BY <3>1, <1>0, LoopTypes
    <3>3. win[a][n].start + text.size >= text.total
      BY <2>2, <1>2 DEF Chain
    <3>4. win[b][n].start + text.size < text.total
      BY <3>1, <1>2 DEF Chain
    <3> QED BY <3>2, <3>3, <3>4, <3>6, <1>0, Sizes
  <2> QED BY <2>1, <2>2, <1>2
<1> QED BY <1>0, <1>1, <1>2

\* The loops cover a text with windows that overlap by exactly the overlap and none
\* of which lies inside another, for every text, window and overlap
\* (_chunk_and_insert, _chunk_document, chunk_text).
THEOREM Tiling == (ChunkSpec => []WindowsTile) /\ (Spec => []WindowsTile)
BY Invariant, JobsInvariant, ChainTiles, PTL

\* The uploaded, the seeded and the profiled windows of a text are the same, so that
\* a chunk_index in a passport means one passage (seed_corpus.py, _chunk_document).
THEOREM InLockstep == (ChunkSpec => []Lockstep) /\ (Spec => []Lockstep)
BY Invariant, JobsInvariant, SameLength, PTL

-----------------------------------------------------------------------------
(* Induction over a set. *)

\* What holds of 0, and of i + 1 when of i, holds up to n.
LEMMA UpTo ==
  ASSUME NEW n \in Nat, NEW S, 0 \in S, \A i \in 0 .. n - 1 : i \in S => i + 1 \in S
  PROVE  0 .. n \subseteq S
<1> DEFINE Out == (0 .. n) \ S
           R == OpToRel(<, Nat)
<1>1. SUFFICES ASSUME Out # {} PROVE FALSE
  OBVIOUS
<1>2. IsWellFoundedOn(R, Nat)
  BY NatLessThanWellFounded
<1>3. \A x, y \in Nat : x < y => <<x, y>> \in R
  BY DEF OpToRel
<1>4. PICK m \in Out : \A k \in Out : ~(<<k, m>> \in R)
  <2>1. Out \subseteq Nat
    OBVIOUS
  <2> HIDE DEF Out, R
  <2> QED BY <1>1, <1>2, <2>1, WFMin
<1> HIDE DEF R
<1>5. m \in Nat /\ m # 0 /\ m - 1 \in 0 .. n - 1 /\ m = (m - 1) + 1
  BY <1>4
<1>6. m - 1 \notin Out
  <2>1. <<m - 1, m>> \in R
    BY <1>3, <1>5
  <2> QED BY <1>4, <2>1
<1> QED BY <1>4, <1>5, <1>6

\* A finite set and its parts, smaller parts first.
LEMMA BySize ==
  ASSUME NEW S, IsFiniteSet(S), NEW G,
         \A T \in SUBSET S : (\A x \in T : T \ {x} \in G) => T \in G
  PROVE  SUBSET S \subseteq G
<1> DEFINE N == Cardinality(S)
           OfSize(n) == \A T \in SUBSET S : Cardinality(T) = n => T \in G
           Q == {n \in 0 .. N : OfSize(n)}
<1>1. N \in Nat /\ \A T \in SUBSET S : /\ IsFiniteSet(T) /\ Cardinality(T) \in 0 .. N
                                       /\ (Cardinality(T) = 0 <=> T = {})
  BY FS_CardinalityType, FS_Subset, FS_EmptySet
<1>2. 0 \in Q
  BY <1>1
<1>3. ASSUME NEW n \in 0 .. N - 1, n \in Q PROVE n + 1 \in Q
  <2>1. ASSUME NEW T \in SUBSET S, Cardinality(T) = n + 1 PROVE T \in G
    <3>1. ASSUME NEW x \in T PROVE T \ {x} \in G
      <4>1. Cardinality(T \ {x}) = n
        BY <1>1, <2>1, FS_RemoveElement
      <4> QED BY <1>3, <4>1
    <3> QED BY <3>1
  <2> QED BY <1>1, <2>1
<1>4. 0 .. N \subseteq Q
  <2> HIDE DEF Q
  <2> QED BY <1>1, <1>2, <1>3, UpTo
<1> QED BY <1>1, <1>4

-----------------------------------------------------------------------------
(* Sums. *)

Chosen(T) == CHOOSE x \in T : TRUE

\* h adds f up over every part of S.
Adds(h, f, S) ==
  h = [T \in SUBSET S |-> IF T = {} THEN 0 ELSE f[Chosen(T)] + h[T \ {Chosen(T)}]]

LEMMA SumDef ==
  ASSUME NEW f, NEW S
  PROVE  Sum(f, S) = (CHOOSE h : Adds(h, f, S))[S]
  BY DEF Sum, MapThenSumSet, MapThenFoldSet, Adds, Chosen

LEMMA ChosenIn == ASSUME NEW T, T # {} PROVE Chosen(T) \in T
  BY DEF Chosen

\* The sums over the parts of S of n elements at most.
AddsTo(h, f, S, n) ==
  /\ DOMAIN h = {T \in SUBSET S : Cardinality(T) <= n}
  /\ \A T \in DOMAIN h : h[T] = IF T = {} THEN 0 ELSE f[Chosen(T)] + h[T \ {Chosen(T)}]

LEMMA SumsExist ==
  ASSUME NEW S, IsFiniteSet(S), NEW f
  PROVE  \E h : Adds(h, f, S)
<1> DEFINE N == Cardinality(S)
           Part(n) == {T \in SUBSET S : Cardinality(T) <= n}
           Q == {n \in 0 .. N : \E h : AddsTo(h, f, S, n)}
<1>1. N \in Nat /\ \A T \in SUBSET S : /\ IsFiniteSet(T) /\ Cardinality(T) \in 0 .. N
                                       /\ (Cardinality(T) = 0 <=> T = {})
  BY FS_CardinalityType, FS_Subset, FS_EmptySet
<1>2. \A T \in SUBSET S : T # {} => /\ T \ {Chosen(T)} \in SUBSET S
                                    /\ Cardinality(T \ {Chosen(T)}) = Cardinality(T) - 1
  BY <1>1, ChosenIn, FS_RemoveElement
<1>3. 0 \in Q
  <2>1. AddsTo([T \in Part(0) |-> 0], f, S, 0)
    BY <1>1 DEF AddsTo
  <2> QED BY <1>1, <2>1
<1>4. ASSUME NEW n \in 0 .. N - 1, n \in Q PROVE n + 1 \in Q
  <2>1. PICK h : AddsTo(h, f, S, n)
    BY <1>4
  <2> DEFINE g == [T \in Part(n + 1) |-> IF T = {} THEN 0 ELSE f[Chosen(T)] + h[T \ {Chosen(T)}]]
  <2>2. \A T \in Part(n) : T \in Part(n + 1) /\ g[T] = h[T]
    BY <1>1, <2>1 DEF AddsTo
  <2>3. \A T \in Part(n + 1) : T # {} => T \ {Chosen(T)} \in Part(n)
    BY <1>1, <1>2
  <2>4. \A T \in Part(n + 1) : g[T] = IF T = {} THEN 0 ELSE f[Chosen(T)] + g[T \ {Chosen(T)}]
    BY <2>2, <2>3
  <2>5. AddsTo(g, f, S, n + 1)
    BY <2>4 DEF AddsTo
  <2> HIDE DEF g
  <2> QED BY <1>1, <2>5
<1>5. N \in Q
  <2> HIDE DEF Q
  <2>1. 0 .. N \subseteq Q
    BY <1>1, <1>3, <1>4, UpTo
  <2> QED BY <1>1, <2>1
<1>6. PICK h : AddsTo(h, f, S, N)
  BY <1>5
<1>7. DOMAIN h = SUBSET S
  BY <1>1, <1>6 DEF AddsTo
<1> DEFINE k == [T \in SUBSET S |-> h[T]]
<1>8. \A T \in SUBSET S : k[T] = IF T = {} THEN 0 ELSE f[Chosen(T)] + k[T \ {Chosen(T)}]
  BY <1>2, <1>6, <1>7 DEF AddsTo
<1>9. Adds(k, f, S)
  <2> DEFINE e == [T \in SUBSET S |-> IF T = {} THEN 0 ELSE f[Chosen(T)] + k[T \ {Chosen(T)}]]
  <2>1. \A T \in SUBSET S : e[T] = k[T]
    BY <1>8
  <2>2. k = e
    BY <2>1
  <2> QED BY <2>2 DEF Adds
<1> QED BY <1>9

\* A sum over one more set is the same on the parts they share.
LEMMA SumsAgree ==
  ASSUME NEW S, IsFiniteSet(S), NEW R \in SUBSET S, NEW f,
         NEW h, Adds(h, f, S), NEW k, Adds(k, f, R)
  PROVE  \A T \in SUBSET R : h[T] = k[T]
<1> DEFINE G == {T \in SUBSET R : h[T] = k[T]}
<1>1. IsFiniteSet(R)
  BY FS_Subset
<1>2. ASSUME NEW T \in SUBSET R, \A x \in T : T \ {x} \in G PROVE T \in G
  <2>1. h[T] = (IF T = {} THEN 0 ELSE f[Chosen(T)] + h[T \ {Chosen(T)}])
    BY DEF Adds
  <2>2. k[T] = (IF T = {} THEN 0 ELSE f[Chosen(T)] + k[T \ {Chosen(T)}])
    BY DEF Adds
  <2> QED BY <1>2, <2>1, <2>2, ChosenIn
<1>3. SUBSET R \subseteq G
  <2> HIDE DEF G
  <2> QED BY <1>1, <1>2, BySize
<1> QED BY <1>3

\* One element after the other.
LEMMA SumOne ==
  ASSUME NEW S, IsFiniteSet(S), NEW f
  PROVE  Sum(f, S) = IF S = {} THEN 0 ELSE f[Chosen(S)] + Sum(f, S \ {Chosen(S)})
<1> DEFINE h == CHOOSE g : Adds(g, f, S)
           R == S \ {Chosen(S)}
           k == CHOOSE g : Adds(g, f, R)
<1>1. IsFiniteSet(R) /\ R \in SUBSET S
  BY FS_Subset
<1>2. Adds(h, f, S) /\ Adds(k, f, R)
  BY <1>1, SumsExist
<1>3. Sum(f, S) = h[S] /\ Sum(f, R) = k[R]
  BY SumDef
<1>4. h[S] = IF S = {} THEN 0 ELSE f[Chosen(S)] + h[R]
  <2> HIDE DEF h
  <2> QED BY <1>2 DEF Adds
<1>5. h[R] = k[R]
  <2> HIDE DEF h, k, R
  <2> QED BY <1>1, <1>2, SumsAgree
<1> QED BY <1>3, <1>4, <1>5

\* Numbers add up to a number.
LEMMA SumNat ==
  ASSUME NEW S, IsFiniteSet(S), NEW f, \A x \in S : f[x] \in Nat
  PROVE  \A T \in SUBSET S : Sum(f, T) \in Nat
<1> DEFINE G == {T \in SUBSET S : Sum(f, T) \in Nat}
<1>1. ASSUME NEW T \in SUBSET S, \A x \in T : T \ {x} \in G PROVE T \in G
  <2>1. IsFiniteSet(T)
    BY FS_Subset
  <2>2. Sum(f, T) = IF T = {} THEN 0 ELSE f[Chosen(T)] + Sum(f, T \ {Chosen(T)})
    BY <2>1, SumOne
  <2>3. CASE T = {}
    BY <2>2, <2>3
  <2>4. CASE T # {}
    <3>1. Chosen(T) \in T
      BY <2>4, ChosenIn
    <3>2. f[Chosen(T)] \in Nat /\ Sum(f, T \ {Chosen(T)}) \in Nat
      BY <1>1, <3>1
    <3> QED BY <2>2, <2>4, <3>2
  <2> QED BY <2>3, <2>4
<1>2. SUBSET S \subseteq G
  <2> HIDE DEF G
  <2> QED BY <1>1, BySize
<1> QED BY <1>2

\* Any element can be taken first.
LEMMA SumTake ==
  ASSUME NEW S, IsFiniteSet(S), NEW f, \A x \in S : f[x] \in Nat
  PROVE  \A T \in SUBSET S : \A x \in T : Sum(f, T) = f[x] + Sum(f, T \ {x})
<1> DEFINE G == {T \in SUBSET S : \A x \in T : Sum(f, T) = f[x] + Sum(f, T \ {x})}
<1>1. ASSUME NEW T \in SUBSET S, \A x \in T : T \ {x} \in G PROVE T \in G
  <2>1. SUFFICES ASSUME NEW x \in T PROVE Sum(f, T) = f[x] + Sum(f, T \ {x})
    OBVIOUS
  <2> DEFINE y == Chosen(T)
  <2>2. y \in T /\ Sum(f, T) = f[y] + Sum(f, T \ {y})
    BY ChosenIn, SumOne, FS_Subset
  <2> HIDE DEF y
  <2>3. CASE x = y
    BY <2>2, <2>3
  <2>4. CASE x # y
    <3>1. x \in T \ {y} /\ y \in T \ {x} /\ (T \ {y}) \ {x} = (T \ {x}) \ {y}
      BY <2>2, <2>4
    <3>2. Sum(f, T \ {y}) = f[x] + Sum(f, (T \ {y}) \ {x})
      BY <1>1, <2>2, <3>1
    <3>3. Sum(f, T \ {x}) = f[y] + Sum(f, (T \ {x}) \ {y})
      BY <1>1, <3>1
    <3>4. /\ f[x] \in Nat /\ f[y] \in Nat /\ Sum(f, (T \ {y}) \ {x}) \in Nat
      BY <2>2, SumNat
    <3> HIDE DEF G
    <3> QED BY <2>2, <3>1, <3>2, <3>3, <3>4
  <2> QED BY <2>3, <2>4
<1>2. SUBSET S \subseteq G
  <2> HIDE DEF G
  <2> QED BY <1>1, BySize
<1> QED BY <1>2

\* A function over S with natural values.
Numbers(f, S) == \A x \in S : f[x] \in Nat

\* A smaller function has a smaller sum, and the same sum only if it is the same.
LEMMA SumBelow ==
  ASSUME NEW S, IsFiniteSet(S), NEW f, NEW g, Numbers(f, S), Numbers(g, S),
         \A x \in S : f[x] <= g[x]
  PROVE  /\ Sum(f, S) <= Sum(g, S)
         /\ Sum(f, S) = Sum(g, S) => \A x \in S : f[x] = g[x]
<1> DEFINE G == {T \in SUBSET S : Sum(f, T) <= Sum(g, T)}
<1>1. \A T \in SUBSET S : /\ Sum(f, T) \in Nat /\ Sum(g, T) \in Nat
                          /\ \A x \in T : /\ Sum(f, T) = f[x] + Sum(f, T \ {x})
                                          /\ Sum(g, T) = g[x] + Sum(g, T \ {x})
  BY SumNat, SumTake DEF Numbers
<1>2. Sum(f, {}) = 0 /\ Sum(g, {}) = 0
  BY SumOne, FS_EmptySet
<1>3. ASSUME NEW T \in SUBSET S, \A x \in T : T \ {x} \in G PROVE T \in G
  <2>1. CASE T = {}
    BY <1>2, <2>1
  <2>2. CASE T # {}
    <3>1. PICK x \in T : TRUE
      BY <2>2
    <3>2. f[x] \in Nat /\ g[x] \in Nat /\ f[x] <= g[x] /\ T \ {x} \in SUBSET S
      BY DEF Numbers
    <3>3. Sum(f, T \ {x}) <= Sum(g, T \ {x})
      BY <1>3
    <3> QED BY <1>1, <3>2, <3>3
  <2> QED BY <2>1, <2>2
<1>4. SUBSET S \subseteq G
  <2> HIDE DEF G
  <2> QED BY <1>3, BySize
<1>5. ASSUME Sum(f, S) = Sum(g, S), NEW x \in S PROVE f[x] = g[x]
  <2>1. Sum(f, S \ {x}) <= Sum(g, S \ {x})
    BY <1>4
  <2>2. f[x] \in Nat /\ g[x] \in Nat /\ f[x] <= g[x] /\ S \ {x} \in SUBSET S
    BY DEF Numbers
  <2> QED BY <1>1, <1>5, <2>1, <2>2
<1> QED BY <1>4, <1>5

\* A sum is none of its terms less.
LEMMA SumOver ==
  ASSUME NEW S, IsFiniteSet(S), NEW f, Numbers(f, S)
  PROVE  /\ Sum(f, S) \in Nat
         /\ \A x \in S : f[x] <= Sum(f, S)
         /\ (\A x \in S : f[x] = 0) => Sum(f, S) = 0
<1>1. /\ Sum(f, S) \in Nat
      /\ \A x \in S : Sum(f, S \ {x}) \in Nat /\ Sum(f, S) = f[x] + Sum(f, S \ {x})
  BY SumNat, SumTake DEF Numbers
<1>2. ASSUME \A x \in S : f[x] = 0 PROVE Sum(f, S) = 0
  <2>1. Sum(f, S) = IF S = {} THEN 0 ELSE f[Chosen(S)] + Sum(f, S \ {Chosen(S)})
    BY SumOne
  <2> DEFINE G == {T \in SUBSET S : Sum(f, T) = 0}
  <2>2. ASSUME NEW T \in SUBSET S, \A x \in T : T \ {x} \in G PROVE T \in G
    <3>1. Sum(f, T) = IF T = {} THEN 0 ELSE f[Chosen(T)] + Sum(f, T \ {Chosen(T)})
      BY SumOne, FS_Subset
    <3>2. CASE T = {}
      BY <3>1, <3>2
    <3>3. CASE T # {}
      <4>1. Chosen(T) \in T
        BY <3>3, ChosenIn
      <4> QED BY <1>2, <2>2, <3>1, <3>3, <4>1
    <3> QED BY <3>2, <3>3
  <2>3. SUBSET S \subseteq G
    <3> HIDE DEF G
    <3> QED BY <2>2, BySize
  <2> QED BY <2>3
<1>3. ASSUME NEW x \in S PROVE f[x] <= Sum(f, S)
  <2> DEFINE a == f[x] b == Sum(f, S \ {x}) c == Sum(f, S)
  <2>1. a \in Nat
    BY DEF Numbers
  <2>2. b \in Nat /\ c = a + b
    BY <1>1
  <2> HIDE DEF a, b, c
  <2>3. a <= c
    BY <2>1, <2>2
  <2> QED BY <2>3 DEF a, c
<1> QED BY <1>1, <1>2, <1>3

\* Equal terms have equal sums.
LEMMA SumSame ==
  ASSUME NEW S, IsFiniteSet(S), NEW f, NEW g, Numbers(f, S), \A x \in S : f[x] = g[x]
  PROVE  Sum(f, S) = Sum(g, S)
<1>1. Numbers(g, S) /\ (\A x \in S : f[x] <= g[x] /\ g[x] <= f[x])
  BY DEF Numbers
<1>2. Sum(f, S) <= Sum(g, S) /\ Sum(g, S) <= Sum(f, S)
  BY <1>1, SumBelow
<1> QED BY <1>1, <1>2, SumOver

-----------------------------------------------------------------------------
(* The score. *)

\* The arguments of compute_fit_score, and a measure gone wrong.
ScoreJob(j) ==
  /\ j.m \in [zero : BOOLEAN, cosine : Int, asl : Nat, aslProfile : Nat, ttr : Nat,
              mattr : Nat, pos : Int, hits : Nat]
  /\ j.other \in Int

LEMMA Cancels ==
  ASSUME NEW d \in Nat \ {0}, NEW x \in Int, NEW y \in Int, d * x <= d * y PROVE x <= y
<1>1. SUFFICES ASSUME x >= y + 1 PROVE FALSE
  OBVIOUS
<1> DEFINE e == x - y - 1
<1>2. e \in Nat /\ x = y + 1 + e
  BY <1>1
<1> HIDE DEF e
<1>3. d * x = d * y + d + d * e
  BY <1>2
<1>4. d * e \in Nat /\ d * y \in Int
  BY <1>2
<1> QED BY <1>3, <1>4

\* Rounding moves a quotient by one half at most.
LEMMA RoundNear ==
  ASSUME NEW a \in Int, NEW d \in Nat \ {0}
  PROVE  LET r == RoundHalfEven(a, d)
         IN  r \in Int /\ 2 * a - d <= 2 * (d * r) /\ 2 * (d * r) <= 2 * a + d
<1> DEFINE q == a \div d
           p == a % d
           r == RoundHalfEven(a, d)
<1>0. q = a \div d /\ p = a % d /\ r = RoundHalfEven(a, d)
  OBVIOUS
<1> HIDE DEF p, q, r
<1>3. r = IF 2 * p > d \/ (2 * p = d /\ q % 2 = 1) THEN q + 1 ELSE q
  BY <1>0 DEF RoundHalfEven
<1>1. q \in Int /\ p \in 0 .. d - 1 /\ a = d * q + p
  <2>1. d \in Int /\ d > 0 /\ q \in Int /\ p \in 0 .. d - 1
    BY <1>0
  <2> QED BY <1>0, <2>1
<1>2. d * q \in Int /\ d * (q + 1) = d * q + d
  BY <1>1
<1>5. \/ r = q /\ 2 * p <= d
      \/ r = q + 1 /\ 2 * p >= d
  BY <1>1, <1>3
<1>4. r \in Int /\ 2 * a - d <= 2 * (d * r) /\ 2 * (d * r) <= 2 * a + d
  BY <1>1, <1>2, <1>5
<1> QED BY <1>4 DEF r

\* Numerators k denominators apart are rounded k + 1 apart at most.
LEMMA RoundsApart ==
  ASSUME NEW a \in Int, NEW b \in Int, NEW d \in Nat \ {0}, NEW k \in Nat,
         a - b <= d * k
  PROVE  RoundHalfEven(a, d) - RoundHalfEven(b, d) <= k + 1
<1> DEFINE r == RoundHalfEven(a, d)
           s == RoundHalfEven(b, d)
<1>1. r \in Int /\ s \in Int /\ 2 * (d * r) <= 2 * a + d /\ 2 * b - d <= 2 * (d * s)
  BY RoundNear
<1> HIDE DEF r, s
<1>2. /\ d * r \in Int /\ d * s \in Int /\ d * k \in Int
      /\ d * (s + k + 1) = d * s + d * k + d
  BY <1>1
<1>3. d * r <= d * (s + k + 1)
  BY <1>1, <1>2
<1>4. r <= s + k + 1
  BY <1>1, <1>3, Cancels
<1> QED BY <1>1, <1>4 DEF r, s

Raw(m) ==
  35 * Clamp01(SemanticScore(m.zero, m.cosine))
  + 20 * Clamp01(SyntacticScore(m.asl, m.aslProfile))
  + 15 * Clamp01(LexicalScore(m.ttr, m.mattr))
  + 15 * Clamp01(m.pos)
  + 15 * Clamp01(VocabularyScore(m.hits))

\* The scores of raw sums k measures apart.
LEMMA ScoresApart ==
  ASSUME NEW m, NEW n, Raw(m) \in Int, Raw(n) \in Int, NEW k \in Nat,
         Distance(Raw(m), Raw(n)) <= k * Unit
  PROVE  /\ ComputeFitScore(m) \in 0 .. 100
         /\ Distance(ComputeFitScore(m), ComputeFitScore(n)) <= k + 1
<1>1. Unit \in Nat \ {0} /\ k * Unit = Unit * k
  BY ScoreAssumption
<1>2. Unit * k \in Int
  BY <1>1
<1>3. Raw(m) - Raw(n) <= Unit * k /\ Raw(n) - Raw(m) <= Unit * k
  BY <1>1, <1>2 DEF Distance, Larger, Smaller
<1> DEFINE r == RoundHalfEven(Raw(m), Unit)
           s == RoundHalfEven(Raw(n), Unit)
<1>4. r \in Int /\ s \in Int
  BY <1>1, RoundNear
<1>5. r - s <= k + 1 /\ s - r <= k + 1
  BY <1>1, <1>3, RoundsApart
<1>6. /\ ComputeFitScore(m) = Larger(0, Smaller(100, r))
      /\ ComputeFitScore(n) = Larger(0, Smaller(100, s))
  BY DEF ComputeFitScore, Raw
<1> HIDE DEF r, s
<1> QED BY <1>4, <1>5, <1>6 DEF Distance, Larger, Smaller

LEMMA Clamped == ASSUME NEW x \in Int PROVE Clamp01(x) \in 0 .. Unit
  BY ScoreAssumption DEF Clamp01, Larger, Smaller

\* The five measures are numbers.
LEMMA Measured ==
  ASSUME NEW j, ScoreJob(j)
  PROVE  LET m == j.m IN
         /\ SemanticScore(m.zero, m.cosine) \in Int
         /\ SyntacticScore(m.asl, m.aslProfile) \in Int
         /\ LexicalScore(m.ttr, m.mattr) \in Int
         /\ m.pos \in Int
         /\ VocabularyScore(m.hits) \in Int
<1> DEFINE m == j.m
<1>1. /\ m.zero \in BOOLEAN /\ m.cosine \in Int /\ m.asl \in Nat /\ m.aslProfile \in Nat
      /\ m.ttr \in Nat /\ m.mattr \in Nat /\ m.pos \in Int /\ m.hits \in Nat
      /\ Unit \in Nat \ {0}
  BY ScoreAssumption DEF ScoreJob
<1> HIDE DEF m
<1>2. SemanticScore(m.zero, m.cosine) \in Int
  BY <1>1 DEF SemanticScore
<1>3. SyntacticScore(m.asl, m.aslProfile) \in Int
  <2>1. Distance(m.asl, m.aslProfile) * Unit \in Int
    BY <1>1 DEF Distance, Larger, Smaller
  <2> DEFINE x == Distance(m.asl, m.aslProfile) * Unit
  <2>2. CASE m.aslProfile # 0
    <3>1. x \div m.aslProfile \in Int
      <4> HIDE DEF x
      <4> QED BY <1>1, <2>1, <2>2 DEF x
    <3> QED BY <1>1, <3>1 DEF SyntacticScore
  <2>3. CASE m.aslProfile = 0
    BY <2>3 DEF SyntacticScore
  <2> QED BY <2>2, <2>3
<1>4. LexicalScore(m.ttr, m.mattr) \in Int
  BY <1>1 DEF LexicalScore, Distance, Larger, Smaller
<1>5. VocabularyScore(m.hits) \in Int
  <2>1. m.hits * Unit \in Int
    BY <1>1
  <2>2. (m.hits * Unit) \div 5 \in Int
    BY <2>1
  <2> QED BY <1>1, <2>2 DEF VocabularyScore, Smaller
<1>6. m.pos \in Int
  BY <1>1
<1> QED BY <1>2, <1>3, <1>4, <1>5, <1>6 DEF m

\* The five clamped measures of m.
Parts(m, a, b, c, d, e) ==
  /\ a = Clamp01(SemanticScore(m.zero, m.cosine))
  /\ b = Clamp01(SyntacticScore(m.asl, m.aslProfile))
  /\ c = Clamp01(LexicalScore(m.ttr, m.mattr))
  /\ d = Clamp01(m.pos)
  /\ e = Clamp01(VocabularyScore(m.hits))

LEMMA PartsRaw ==
  ASSUME NEW m, NEW a \in 0 .. Unit, NEW b \in 0 .. Unit, NEW c \in 0 .. Unit,
         NEW d \in 0 .. Unit, NEW e \in 0 .. Unit, Parts(m, a, b, c, d, e)
  PROVE  Raw(m) = 35 * a + 20 * b + 15 * c + 15 * d + 15 * e /\ Raw(m) \in Int
<1>1. Raw(m) = 35 * a + 20 * b + 15 * c + 15 * d + 15 * e
  BY DEF Parts, Raw
<1> QED BY <1>1, ScoreAssumption

\* Two measurements whose clamped measures differ in one place.
LEMMA OneApart ==
  ASSUME NEW m, NEW n,
         NEW a \in 0 .. Unit, NEW b \in 0 .. Unit, NEW c \in 0 .. Unit,
         NEW d \in 0 .. Unit, NEW e \in 0 .. Unit, Parts(m, a, b, c, d, e),
         NEW a2 \in 0 .. Unit, NEW b2 \in 0 .. Unit, NEW c2 \in 0 .. Unit,
         NEW e2 \in 0 .. Unit, Parts(n, a2, b2, c2, d, e2), NEW k \in {35, 20, 15},
         \/ k = 35 /\ b2 = b /\ c2 = c /\ e2 = e
         \/ k = 20 /\ a2 = a /\ c2 = c /\ e2 = e
         \/ k = 15 /\ a2 = a /\ b2 = b /\ e2 = e
         \/ k = 15 /\ a2 = a /\ b2 = b /\ c2 = c
  PROVE  Distance(ComputeFitScore(n), ComputeFitScore(m)) <= k + 1
<1>0. Raw(m) = 35 * a + 20 * b + 15 * c + 15 * d + 15 * e /\ Raw(m) \in Int
  BY PartsRaw
<1>1. Raw(n) = 35 * a2 + 20 * b2 + 15 * c2 + 15 * d + 15 * e2 /\ Raw(n) \in Int
  BY PartsRaw
<1>2. Unit \in Nat /\ k * Unit = Unit * k
  BY ScoreAssumption
<1>3. Distance(Raw(n), Raw(m)) <= k * Unit
  BY <1>0, <1>1, <1>2 DEF Distance, Larger, Smaller
<1> QED BY <1>0, <1>1, <1>3, ScoresApart

LEMMA ScoreJobs == ASSUME NEW j, ScoreJob(j) PROVE
  LET m == j.m IN
  \E a, b, c, d, e \in 0 .. Unit : Parts(m, a, b, c, d, e)
  BY Measured, Clamped DEF Parts

\* One measure gone wrong moves the score by its weight at most.
LEMMA ScoreSteady ==
  ASSUME job.kind = "score" => ScoreJob(job)
  PROVE  NoMeasureDominates
<1> DEFINE m == job.m
           x == job.other
           y == Larger(0, x)
           n1 == [m EXCEPT !.cosine = x]
           n2 == [m EXCEPT !.asl = y]
           n3 == [m EXCEPT !.ttr = y]
           n4 == [m EXCEPT !.hits = y]
           Type == [zero : BOOLEAN, cosine : Int, asl : Nat, aslProfile : Nat, ttr : Nat,
                    mattr : Nat, pos : Int, hits : Nat]
           As(n) == [m |-> n, other |-> x]
<1>1. SUFFICES ASSUME job.kind = "score"
      PROVE  /\ ComputeFitScore(m) \in 0 .. 100
             /\ Distance(ComputeFitScore(n1), ComputeFitScore(m)) <= 36
             /\ Distance(ComputeFitScore(n2), ComputeFitScore(m)) <= 21
             /\ Distance(ComputeFitScore(n3), ComputeFitScore(m)) <= 16
             /\ Distance(ComputeFitScore(n4), ComputeFitScore(m)) <= 16
  BY DEF NoMeasureDominates
<1>2. m \in Type /\ x \in Int /\ y \in Nat
  BY <1>1 DEF ScoreJob, Larger
<1>3. n1 \in Type /\ n2 \in Type /\ n3 \in Type /\ n4 \in Type
  BY <1>2
<1>4. \A n \in Type : \E a, b, c, d, e \in 0 .. Unit : Parts(n, a, b, c, d, e)
  <2>1. SUFFICES ASSUME NEW n \in Type
        PROVE \E a, b, c, d, e \in 0 .. Unit : Parts(n, a, b, c, d, e)
    OBVIOUS
  <2>2. ScoreJob(As(n)) /\ As(n).m = n
    BY <1>2 DEF ScoreJob
  <2> HIDE DEF As
  <2> QED BY <2>2, ScoreJobs
<1>5. PICK a, b, c, d, e \in 0 .. Unit : Parts(m, a, b, c, d, e)
  BY <1>2, <1>4
<1>6. ComputeFitScore(m) \in 0 .. 100
  <2>1. Raw(m) \in Int
    BY <1>5, PartsRaw
  <2>2. Distance(Raw(m), Raw(m)) <= 0 * Unit
    BY <2>1, ScoreAssumption DEF Distance, Larger, Smaller
  <2> QED BY <2>1, <2>2, ScoresApart
<1>7. \E z \in 0 .. Unit : Parts(n1, z, b, c, d, e)
  <2>1. PICK a1, b1, c1, d1, e1 \in 0 .. Unit : Parts(n1, a1, b1, c1, d1, e1)
    BY <1>3, <1>4
  <2>2. /\ n1.asl = m.asl /\ n1.aslProfile = m.aslProfile /\ n1.ttr = m.ttr
        /\ n1.mattr = m.mattr /\ n1.pos = m.pos /\ n1.hits = m.hits
    BY <1>2
  <2> HIDE DEF m, n1, Type
  <2> QED BY <1>5, <2>1, <2>2 DEF Parts
<1>8. \E z \in 0 .. Unit : Parts(n2, a, z, c, d, e)
  <2>1. PICK a1, b1, c1, d1, e1 \in 0 .. Unit : Parts(n2, a1, b1, c1, d1, e1)
    BY <1>3, <1>4
  <2>2. /\ n2.zero = m.zero /\ n2.cosine = m.cosine /\ n2.ttr = m.ttr
        /\ n2.mattr = m.mattr /\ n2.pos = m.pos /\ n2.hits = m.hits
    BY <1>2
  <2> HIDE DEF m, n2, Type
  <2> QED BY <1>5, <2>1, <2>2 DEF Parts
<1>9. \E z \in 0 .. Unit : Parts(n3, a, b, z, d, e)
  <2>1. PICK a1, b1, c1, d1, e1 \in 0 .. Unit : Parts(n3, a1, b1, c1, d1, e1)
    BY <1>3, <1>4
  <2>2. /\ n3.zero = m.zero /\ n3.cosine = m.cosine /\ n3.asl = m.asl
        /\ n3.aslProfile = m.aslProfile /\ n3.pos = m.pos /\ n3.hits = m.hits
    BY <1>2
  <2> HIDE DEF m, n3, Type
  <2> QED BY <1>5, <2>1, <2>2 DEF Parts
<1>10. \E z \in 0 .. Unit : Parts(n4, a, b, c, d, z)
  <2>1. PICK a1, b1, c1, d1, e1 \in 0 .. Unit : Parts(n4, a1, b1, c1, d1, e1)
    BY <1>3, <1>4
  <2>2. /\ n4.zero = m.zero /\ n4.cosine = m.cosine /\ n4.asl = m.asl
        /\ n4.aslProfile = m.aslProfile /\ n4.pos = m.pos
        /\ n4.ttr = m.ttr /\ n4.mattr = m.mattr
    BY <1>2
  <2> HIDE DEF m, n4, Type
  <2> QED BY <1>5, <2>1, <2>2 DEF Parts
<1> HIDE DEF m, n1, n2, n3, n4
<1>11. Distance(ComputeFitScore(n1), ComputeFitScore(m)) <= 35 + 1
  BY <1>5, <1>7, OneApart
<1>12. Distance(ComputeFitScore(n2), ComputeFitScore(m)) <= 20 + 1
  BY <1>5, <1>8, OneApart
<1>13. Distance(ComputeFitScore(n3), ComputeFitScore(m)) <= 15 + 1
  BY <1>5, <1>9, OneApart
<1>14. Distance(ComputeFitScore(n4), ComputeFitScore(m)) <= 15 + 1
  BY <1>5, <1>10, OneApart
<1> QED BY <1>6, <1>11, <1>12, <1>13, <1>14

-----------------------------------------------------------------------------
(* Passport and corpus files. *)

PassportJob(call, envUrl) ==
  /\ call.fit \in Int /\ call.tokens \in Int
  /\ call.id \in IdForms \cup {Absent} /\ call.at \in TimeForms \cup {Absent}
  /\ call.url \in UrlForms \cup {Absent} /\ envUrl \in UrlForms \cup {Absent}
  /\ call.sources \in Seq(Range(call.sources))
  /\ \A i \in DOMAIN call.sources : call.sources[i].chunk \in Int

\* orchestrate is not refused; what build_passport returns conforms, but for four forms.
LEMMA BuilderConforms ==
  ASSUME job.kind = "passport" => PassportJob(job.call, job.envUrl)
  PROVE  BuiltConforms
<1> DEFINE a == job.call
           s == a.sources
           p == BuildPassport(a, job.envUrl)
           h == HashedSources(s)
<1>1. job.kind = "passport" /\ AsOrchestrated(a, job.envUrl) => ~Refused(a)
  <2>1. SUFFICES ASSUME PassportJob(a, job.envUrl), AsOrchestrated(a, job.envUrl)
        PROVE  ~Refused(a)
    OBVIOUS
  <2>2. a.fit \in 0 .. 100 /\ ~(a.tokens < 0)
    BY <2>1 DEF AsOrchestrated, PassportJob
  <2> QED BY <2>1, <2>2 DEF AsOrchestrated, Refused
<1>2. SUFFICES ASSUME job.kind = "passport", p # Rejected
      PROVE  /\ \/ a.id = "respelled" \/ a.at = "shortened"
                \/ \E i \in DOMAIN s : s[i].chunk < 0
                \/ p.url \in {"other", "empty"}
                \/ Conforms(p)
             /\ \A i \in DOMAIN p.sources : "raw" \notin DOMAIN p.sources[i].snippet
             /\ Len(p.sources) = Len(s)
  BY <1>1 DEF BuiltConforms
<1>3. PassportJob(a, job.envUrl) /\ ~Refused(a)
  BY <1>2 DEF BuildPassport
<1>4. /\ p.id = Or(a.id, "hyphenated") /\ p.at = Or(a.at, "utc")
      /\ p.profile = IF a.profile # Absent THEN Sha256(a.profile) ELSE a.profileHash
      /\ p.prompt = Sha256(a.prompt) /\ p.output = Sha256(a.output)
      /\ p.tokens = a.tokens /\ p.fit = a.fit /\ p.sources = h
      /\ p.url = OrElse(a.url, job.envUrl)
  BY <1>3 DEF BuildPassport
<1>5. /\ DOMAIN h = DOMAIN s
      /\ \A i \in DOMAIN s : /\ h[i].chunk = s[i].chunk /\ h[i].snippet = Sha256(s[i].text)
  BY DEF HashedSources
<1> HIDE DEF p, h
<1>6. \A x : Digest(Sha256(x)) /\ "raw" \notin DOMAIN Sha256(x)
  BY DEF Digest, Sha256
<1>7. Digest(p.profile) /\ Digest(p.prompt) /\ Digest(p.output)
  BY <1>3, <1>4, <1>6 DEF Refused, Digest
<1>8. p.tokens >= 0 /\ p.fit \in 0 .. 100
  BY <1>3, <1>4 DEF Refused, PassportJob
<1>9. a.at = "shortened" \/ p.at \in {"utc", "offset"}
  BY <1>3, <1>4 DEF Refused, Or
<1>10. a.id = "respelled" \/ p.id = "hyphenated"
  BY <1>3, <1>4 DEF Refused, Or, PassportJob, IdForms
<1>11. p.url \in {"other", "empty"} \/ p.url \in {Absent, "uri"}
  BY <1>3, <1>4 DEF OrElse, PassportJob, UrlForms
<1>12. (\E i \in DOMAIN s : s[i].chunk < 0)
       \/ \A i \in DOMAIN p.sources : Digest(p.sources[i].snippet) /\ p.sources[i].chunk >= 0
  BY <1>3, <1>4, <1>5, <1>6 DEF PassportJob
<1>13. \A i \in DOMAIN p.sources : "raw" \notin DOMAIN p.sources[i].snippet
  BY <1>4, <1>5, <1>6
<1>14. Len(p.sources) = Len(s)
  <2>1. s \in Seq(Range(s))
    BY <1>3 DEF PassportJob
  <2>2. h = [i \in 1 .. Len(s) |-> [doc |-> s[i].doc, chunk |-> s[i].chunk,
                                    snippet |-> Sha256(s[i].text)]]
    BY <2>1 DEF h, HashedSources
  <2> HIDE DEF s
  <2>3. Len(s) \in Nat
    BY <2>1
  <2> QED BY <1>4, <2>2, <2>3
<1> QED
  BY <1>7, <1>8, <1>9, <1>10, <1>11, <1>12, <1>13, <1>14 DEF Conforms

FolderJob(folder) ==
  /\ IsFiniteSet(DOMAIN folder) /\ Manifest \subseteq DOMAIN folder
  /\ \A f \in DOMAIN folder : folder[f] \in File

\* The tokens of some files: at least those of each, none if no file is whole.
LEMMA TokensCounted ==
  ASSUME NEW folder, FolderJob(folder), NEW S \in SUBSET DOMAIN folder
  PROVE  /\ TokensIn(folder, S) \in Nat
         /\ \A f \in S : Whole(folder[f]) => folder[f].tokens <= TokensIn(folder, S)
         /\ (\A f \in S : ~Whole(folder[f])) => TokensIn(folder, S) = 0
<1> DEFINE g == [f \in S |-> IF Whole(folder[f]) THEN folder[f].tokens ELSE 0]
<1>1. IsFiniteSet(S)
  BY FS_Subset DEF FolderJob
<1>2. TokensIn(folder, S) = Sum(g, S)
  BY DEF TokensIn
<1>3. Numbers(g, S)
  <2>1. \A f \in S : folder[f] \in File
    BY DEF FolderJob
  <2>2. \A x \in File : x.tokens \in Nat
    BY DEF File
  <2> QED BY <2>1, <2>2 DEF Numbers
<1>4. \A f \in S : g[f] = IF Whole(folder[f]) THEN folder[f].tokens ELSE 0
  OBVIOUS
<1> HIDE DEF g
<1>5. /\ Sum(g, S) \in Nat
      /\ \A f \in S : g[f] <= Sum(g, S)
      /\ (\A f \in S : g[f] = 0) => Sum(g, S) = 0
  BY <1>1, <1>3, SumOver
<1> QED BY <1>2, <1>4, <1>5

\* Files with no warning of their own: none is missing, all hold text.
LEMMA Unwarned ==
  ASSUME NEW folder, FolderJob(folder), NEW S \in SUBSET DOMAIN folder,
         \A f \in S : folder[f] # NoFile
  PROVE  /\ BadFiles(folder, S) = {} <=> \A f \in S : folder[f].form = "clean"
         /\ \A f \in S : Whole(folder[f]) => folder[f].tokens > 0
         /\ \A f \in S : ~Whole(folder[f]) => folder[f].form \in {"latin1", "empty"}
<1>1. \A x \in File : /\ x.form \in {"none", "latin1", "empty", "clean", "sentinel"}
                      /\ x.form = "none" => x = NoFile
                      /\ Whole(x) => x.tokens > 0
  BY DEF File, NoFile, Whole
<1>2. \A f \in S : folder[f] \in File /\ folder[f].form # "none"
  BY <1>1 DEF FolderJob
<1>3. BadFiles(folder, S) = {}
      <=> \A f \in S : folder[f].form \notin {"latin1", "empty", "sentinel"}
  BY DEF BadFiles
<1>4. \A f \in S : folder[f].form \in {"latin1", "empty", "clean", "sentinel"}
  BY <1>1, <1>2
<1>5. BadFiles(folder, S) = {} <=> \A f \in S : folder[f].form = "clean"
  BY <1>3, <1>4
<1> QED BY <1>1, <1>2, <1>4, <1>5 DEF Whole

\* A dry run without a warning means a corpus that seeds, and the two dry runs agree.
LEMMA DryRuns ==
  ASSUME job.kind = "corpus" => FolderJob(job.folder)
  PROVE  DryRunSound
<1> DEFINE folder == job.folder
           total == TokensIn(folder, Manifest)
           missing == {f \in Manifest : folder[f] = NoFile}
           bad == BadFiles(folder, Manifest)
           there == {f \in DOMAIN folder : folder[f] # NoFile}
<1>1. SUFFICES ASSUME job.kind = "corpus"
      PROVE  /\ ValidateCorpus(folder) = {} =>
                  /\ Loads(folder)
                  /\ \A f \in Manifest : folder[f].tokens > 0
                  /\ total >= MinTokens
             /\ there = Manifest => (ValidateCorpus(folder) = {} <=> RunDry(folder) = {})
  BY DEF DryRunSound
<1>2. FolderJob(folder) /\ Manifest \in SUBSET DOMAIN folder /\ Manifest # {}
  BY <1>1, TokensAssumption DEF FolderJob
<1>3. ValidateCorpus(folder) = {} <=> /\ missing = {} /\ bad = {}
                                      /\ ~(total > 0 /\ total < MinTokens)
  BY DEF ValidateCorpus
<1>4. RunDry(folder) = {} <=> /\ there # {} /\ BadFiles(folder, there) = {}
                              /\ ~(TokensIn(folder, there) < MinTokens)
  BY DEF RunDry
<1>5. /\ total \in Nat /\ MinTokens \in Nat
      /\ \A f \in Manifest : Whole(folder[f]) => folder[f].tokens <= total
  BY <1>2, TokensCounted, TokensAssumption
<1>6. /\ \A x \in File : x.tokens \in Nat
      /\ \A f \in Manifest : folder[f] \in File
  BY <1>2 DEF File, FolderJob
<1>7. ASSUME missing = {}
      PROVE  /\ bad = {} <=> \A f \in Manifest : folder[f].form = "clean"
             /\ \A f \in Manifest : Whole(folder[f]) => folder[f].tokens > 0
  <2>1. \A f \in Manifest : folder[f] # NoFile
    BY <1>7
  <2> HIDE DEF folder
  <2> QED BY <1>2, <2>1, Unwarned
<1>8. ASSUME missing = {}, bad = {}
      PROVE  Loads(folder) /\ (\A f \in Manifest : folder[f].tokens > 0) /\ total > 0
  <2>1. \A f \in Manifest : folder[f].form = "clean"
    BY <1>7, <1>8
  <2>2. \A f \in Manifest : Readable(folder[f]) /\ Whole(folder[f])
    BY <2>1 DEF Readable, Whole
  <2>3. \A f \in Manifest : folder[f].tokens > 0 /\ folder[f].tokens <= total
    BY <1>5, <1>7, <1>8, <2>2
  <2>4. PICK f \in Manifest : TRUE
    BY <1>2
  <2>5. folder[f].tokens \in Nat
    BY <1>6
  <2>6. total > 0
    <3> HIDE DEF total, folder
    <3> QED BY <1>5, <2>3, <2>5
  <2> QED BY <2>2, <2>3, <2>6 DEF Loads
<1> HIDE DEF folder, total, bad
<1>9. ValidateCorpus(folder) = {} =>
        Loads(folder) /\ (\A f \in Manifest : folder[f].tokens > 0) /\ total >= MinTokens
  BY <1>3, <1>5, <1>8
<1>10. ASSUME there = Manifest PROVE ValidateCorpus(folder) = {} <=> RunDry(folder) = {}
  <2>1. missing = {}
    BY <1>10
  <2>2. BadFiles(folder, there) = bad /\ TokensIn(folder, there) = total /\ there # {}
    BY <1>2, <1>10 DEF bad, total
  <2> QED BY <1>3, <1>4, <1>5, <1>8, <2>1, <2>2
<1> QED BY <1>9, <1>10

-----------------------------------------------------------------------------
(* The subsample. *)

\* Halves are the only quotients that are rounded by a half.
LEMMA RoundTie ==
  ASSUME NEW a \in Int, NEW d \in Nat \ {0}, NEW r, r = RoundHalfEven(a, d),
         2 * (d * r) = 2 * a - d \/ 2 * (d * r) = 2 * a + d
  PROVE  \E q \in Int : 2 * a = 2 * (d * q) + d
<1> DEFINE q == a \div d
           p == a % d
<1>1. q = a \div d /\ p = a % d
  OBVIOUS
<1> HIDE DEF p, q
<1>2. d \in Int /\ d > 0 /\ q \in Int /\ p \in 0 .. d - 1
  BY <1>1
<1>3. a = d * q + p
  BY <1>1, <1>2
<1>4. r = IF 2 * p > d \/ (2 * p = d /\ q % 2 = 1) THEN q + 1 ELSE q
  BY <1>1 DEF RoundHalfEven
<1>5. d * q \in Int /\ d * (q + 1) = d * q + d
  BY <1>2
<1>6. 2 * p = d
  BY <1>2, <1>3, <1>4, <1>5
<1>7. 2 * a = 2 * (d * q) + d
  BY <1>2, <1>3, <1>5, <1>6
<1> QED BY <1>2, <1>7

\* A whole quotient is not moved.
LEMMA RoundWhole ==
  ASSUME NEW d \in Nat \ {0}, NEW k \in Int
  PROVE  RoundHalfEven(k * d, d) = k
<1> DEFINE r == RoundHalfEven(k * d, d)
           a == k * d
<1>1. a \in Int /\ a = d * k
  OBVIOUS
<1>2. r \in Int /\ 2 * a - d <= 2 * (d * r) /\ 2 * (d * r) <= 2 * a + d
  BY <1>1, RoundNear
<1> HIDE DEF r, a
<1>3. d * (r + 1) = d * r + d /\ d * (k + 1) = d * k + d /\ d * r \in Int /\ d * k \in Int
  BY <1>2
<1>4. d * k <= d * (r + 1) /\ d * r <= d * (k + 1)
  BY <1>1, <1>2, <1>3
<1>5. k <= r + 1 /\ r <= k + 1
  BY <1>2, <1>4, Cancels
<1>6. r # k + 1 /\ r # k - 1
  <2>1. d * (k - 1) = d * k - d
    OBVIOUS
  <2> QED BY <1>1, <1>2, <1>3, <2>1
<1>7. r = k
  BY <1>2, <1>5, <1>6
<1> QED BY <1>7 DEF r

\* The multiples of a quotient, rounded, are its floor or one more apart: a half is
\* rounded at both ends only if the quotient is whole, and then there are no halves.
LEMMA RoundEven ==
  ASSUME NEW c \in Nat, NEW d \in Nat \ {0}, NEW i \in Nat,
         NEW k \in Nat, NEW e \in 0 .. d - 1, c = d * k + e
  PROVE  RoundHalfEven((i + 1) * c, d) - RoundHalfEven(i * c, d) \in {k, k + 1}
<1> DEFINE a == i * c
           b == (i + 1) * c
           x == RoundHalfEven(a, d)
           y == RoundHalfEven(b, d)
<1>1. a \in Int /\ b = a + c
  OBVIOUS
<1>2. /\ x \in Int /\ 2 * a - d <= 2 * (d * x) /\ 2 * (d * x) <= 2 * a + d
      /\ y \in Int /\ 2 * b - d <= 2 * (d * y) /\ 2 * (d * y) <= 2 * b + d
  <2> HIDE DEF a, b
  <2> QED BY <1>1, RoundNear
<1>3. \/ 2 * (d * x) = 2 * a - d \/ 2 * (d * x) = 2 * a + d
      => \E q \in Int : 2 * a = 2 * (d * q) + d
  <2>1. x = RoundHalfEven(a, d)
    OBVIOUS
  <2> HIDE DEF a, x
  <2> QED BY <1>1, <2>1, RoundTie
<1>4. \/ 2 * (d * y) = 2 * b - d \/ 2 * (d * y) = 2 * b + d
      => \E q \in Int : 2 * b = 2 * (d * q) + d
  <2>1. y = RoundHalfEven(b, d) /\ b \in Int
    OBVIOUS
  <2> HIDE DEF b, y
  <2> QED BY <2>1, RoundTie
<1>5. ~(/\ \E q \in Int : 2 * a = 2 * (d * q) + d
        /\ \E q \in Int : 2 * b = 2 * (d * q) + d)
  <2>1. SUFFICES ASSUME NEW q \in Int, 2 * a = 2 * (d * q) + d,
                        NEW s \in Int, 2 * b = 2 * (d * s) + d
        PROVE FALSE
    OBVIOUS
  <2> DEFINE m == s - q
             t == m * i - q
  <2>2. m \in Int /\ t \in Int
    OBVIOUS
  <2>3. c = d * m
    <3>1. d * s \in Int /\ d * q \in Int /\ d * m = d * s - d * q
      OBVIOUS
    <3> HIDE DEF m, a, b
    <3> QED BY <1>1, <2>1, <3>1
  <2>4. a = d * (m * i)
    <3> HIDE DEF m
    <3>1. i * (d * m) = d * (m * i)
      BY <2>2
    <3> QED BY <2>3, <3>1
  <2>5. d * t = d * (m * i) - d * q
    <3> HIDE DEF m
    <3> QED BY <2>2
  <2>6. 2 * (d * t) = d
    <3>1. d * (m * i) \in Int /\ d * q \in Int /\ d * t \in Int
      <4> HIDE DEF m
      <4> QED BY <2>2
    <3> HIDE DEF a, m, t
    <3> QED BY <2>1, <2>4, <2>5, <3>1
  <2> HIDE DEF t
  <2>7. CASE t <= 0
    <3>1. d * t <= d * 0
      <4>1. -t \in Nat
        BY <2>2, <2>7
      <4>2. d * (-t) \in Nat /\ d * (-t) = -(d * t)
        BY <2>2, <4>1
      <4> QED BY <2>2, <4>2
    <3> QED BY <2>2, <2>6, <3>1
  <2>8. CASE t >= 1
    <3>1. d * t >= d
      <4>1. t - 1 \in Nat
        BY <2>2, <2>8
      <4>2. d * (t - 1) \in Nat /\ d * (t - 1) = d * t - d
        BY <2>2, <4>1
      <4> QED BY <2>2, <4>2
    <3> QED BY <2>2, <2>6, <3>1
  <2> QED BY <2>2, <2>7, <2>8
<1> HIDE DEF a, b, x, y
<1> DEFINE g == y - x
<1>6. /\ d * x \in Int /\ d * y \in Int /\ g \in Int /\ d * g = d * y - d * x
  BY <1>2
<1>7. 2 * (d * g) > 2 * c - 2 * d /\ 2 * (d * g) < 2 * c + 2 * d
  <2> DEFINE X == d * x
             Y == d * y
             Z == d * g
  <2>1. /\ X \in Int /\ Y \in Int /\ Z = Y - X
        /\ 2 * a - d <= 2 * X /\ 2 * X <= 2 * a + d
        /\ 2 * b - d <= 2 * Y /\ 2 * Y <= 2 * b + d
    BY <1>2, <1>6
  <2>2. \/ 2 * X # 2 * a - d /\ 2 * X # 2 * a + d
        \/ 2 * Y # 2 * b - d /\ 2 * Y # 2 * b + d
    BY <1>3, <1>4, <1>5
  <2> HIDE DEF X, Y, Z
  <2>3. 2 * Z > 2 * c - 2 * d /\ 2 * Z < 2 * c + 2 * d
    BY <1>1, <2>1, <2>2
  <2> QED BY <2>3 DEF Z
<1> HIDE DEF g
<1>8. /\ d * k \in Int /\ d * (k - 1) = d * k - d /\ d * (k + 2) = d * k + 2 * d
      /\ d * g \in Int /\ d * (g + 1) = d * g + d
  BY <1>6
<1>9. k <= g
  <2>1. CASE g <= k - 1
    <3>1. d * g <= d * (k - 1)
      <4>1. k - 1 - g \in Nat
        BY <1>6, <2>1
      <4>2. d * (k - 1 - g) \in Nat /\ d * (k - 1 - g) = d * (k - 1) - d * g
        BY <1>6, <4>1
      <4> QED BY <1>8, <4>2
    <3> QED BY <1>7, <1>8, <3>1
  <2> QED BY <1>6, <2>1
<1>10. g <= k + 1
  <2>1. CASE g >= k + 2
    <3>1. d * (k + 2) <= d * g
      <4>1. g - (k + 2) \in Nat
        BY <1>6, <2>1
      <4>2. d * (g - (k + 2)) \in Nat /\ d * (g - (k + 2)) = d * g - d * (k + 2)
        BY <1>6, <4>1
      <4> QED BY <1>8, <4>2
    <3> QED BY <1>7, <1>8, <3>1
  <2> QED BY <1>6, <2>1
<1>11. g \in {k, k + 1}
  BY <1>6, <1>9, <1>10
<1> QED BY <1>11 DEF g, x, y, a, b

\* Steps of k and k + 1 only: the least and the largest are one apart at most.
LEMMA StepsEven ==
  ASSUME NEW S, S # {}, NEW k \in Nat, S \subseteq {k, k + 1}
  PROVE  Min(S) \in S /\ Max(S) \in S /\ Max(S) - Min(S) <= 1 /\ Min(S) >= k
<1>1. \A x \in S : x \in Nat /\ (x = k \/ x = k + 1)
  OBVIOUS
<1>2. Min(S) \in S
  <2>1. CASE k \in S
    <3>1. \A y \in S : k <= y
      BY <1>1
    <3> QED BY <2>1, <3>1 DEF Min
  <2>2. CASE k \notin S
    <3>1. \A y \in S : y = k + 1
      BY <1>1, <2>2
    <3>2. k + 1 \in S
      BY <3>1, Zenon
    <3>3. \A y \in S : k + 1 <= y
      BY <3>1
    <3> QED BY <3>2, <3>3 DEF Min
  <2> QED BY <2>1, <2>2
<1>3. Max(S) \in S
  <2>1. CASE k + 1 \in S
    <3>1. \A y \in S : k + 1 >= y
      BY <1>1
    <3> QED BY <2>1, <3>1 DEF Max
  <2>2. CASE k + 1 \notin S
    <3>1. \A y \in S : y = k
      BY <1>1, <2>2
    <3>2. k \in S
      BY <3>1, Zenon
    <3>3. \A y \in S : k >= y
      BY <3>1
    <3> QED BY <3>2, <3>3 DEF Max
  <2> QED BY <2>1, <2>2
<1> DEFINE a == Min(S)
           b == Max(S)
<1>4. (a = k \/ a = k + 1) /\ (b = k \/ b = k + 1)
  BY <1>1, <1>2, <1>3
<1> HIDE DEF a, b
<1>5. b - a <= 1 /\ a >= k
  BY <1>4
<1> QED BY <1>2, <1>3, <1>5 DEF a, b

\* The subsample is spread evenly over the whole list.
LEMMA SubsampleSpread ==
  ASSUME job.kind = "sample" => job.n \in Nat /\ job.cap \in Nat
  PROVE  SubsampleEven
<1> DEFINE n == job.n
           cap == job.cap
           s == Subsample(n, cap)
           gaps == {s[i + 1] - s[i] : i \in 1 .. Len(s) - 1}
<1>1. SUFFICES ASSUME job.kind = "sample", n > 0, cap > 1
      PROVE  /\ Len(s) = Smaller(n, cap)
             /\ s[1] = 0 /\ s[Len(s)] = n - 1
             /\ gaps # {} => Min(gaps) > 0 /\ Max(gaps) - Min(gaps) <= 1
  BY DEF SubsampleEven
<1>2. n \in Nat /\ cap \in Nat /\ n > 0 /\ cap > 1
  BY <1>1
<1> HIDE DEF n, cap
<1>3. ASSUME NEW k \in Nat \ {0}, gaps \subseteq {k, k + 1}, gaps # {}
      PROVE  Min(gaps) > 0 /\ Max(gaps) - Min(gaps) <= 1
  <2> HIDE DEF gaps
  <2>1. /\ Min(gaps) \in gaps /\ Max(gaps) \in gaps
        /\ Max(gaps) - Min(gaps) <= 1 /\ Min(gaps) >= k
    BY <1>3, StepsEven
  <2> DEFINE a == Min(gaps)
             b == Max(gaps)
  <2>2. a \in {k, k + 1}
    BY <1>3, <2>1
  <2>4. a \in Nat /\ b - a <= 1
    BY <2>1, <2>2
  <2> HIDE DEF a, b
  <2>3. a > 0
    BY <2>2
  <2> QED BY <2>3, <2>4 DEF a, b
<1>4. CASE n <= cap
  <2>1. s = [i \in 1 .. n |-> i - 1]
    BY <1>4 DEF Subsample
  <2>2. Len(s) = n /\ s[1] = 0 /\ s[n] = n - 1
    BY <1>2, <2>1
  <2>3. Smaller(n, cap) = n
    BY <1>2, <1>4 DEF Smaller
  <2>4. gaps \subseteq {1, 1 + 1}
    <3>1. \A i \in 1 .. n - 1 : s[i + 1] - s[i] = 1
      BY <1>2, <2>1
    <3> HIDE DEF s
    <3> QED BY <2>2, <3>1
  <2> HIDE DEF s, gaps
  <2> QED BY <1>3, <2>2, <2>3, <2>4
<1>5. CASE n > cap
  <2> DEFINE d == cap - 1
             c == n - 1
             k == c \div d
             e == c % d
  <2>1. s = [i \in 1 .. cap |-> RoundHalfEven((i - 1) * c, d)]
    BY <1>2, <1>5 DEF Subsample
  <2>2. d \in Nat \ {0} /\ c \in Nat /\ c > d /\ d + 1 = cap
    BY <1>2, <1>5
  <2>3. k = c \div d /\ e = c % d
    OBVIOUS
  <2> HIDE DEF c, d, k, e
  <2>4. d \in Int /\ d > 0 /\ c \in Int /\ k \in Int /\ e \in 0 .. d - 1
    BY <2>2, <2>3
  <2>5. c = d * k + e
    BY <2>3, <2>4
  <2>6. k \in Nat \ {0}
    <3>1. CASE k <= 0
      <4>1. -k \in Nat
        BY <2>4, <3>1
      <4>2. d * (-k) \in Nat /\ d * (-k) = -(d * k)
        BY <2>4, <4>1
      <4> QED BY <2>2, <2>4, <2>5, <4>2
    <3> QED BY <2>4, <3>1
  <2>7. Len(s) = cap /\ Smaller(n, cap) = cap
    <3>1. Smaller(n, cap) = cap
      BY <1>2, <1>5 DEF Smaller
    <3> HIDE DEF s
    <3> QED BY <1>2, <2>1, <3>1
  <2>8. \A i \in 1 .. cap : s[i] = RoundHalfEven((i - 1) * c, d)
    <3> HIDE DEF s
    <3> QED BY <2>1
  <2> HIDE DEF s
  <2>9. s[1] = 0
    <3>1. (1 - 1) * c = 0 * d
      BY <2>2
    <3>2. RoundHalfEven(0 * d, d) = 0
      BY <2>2, RoundWhole
    <3> QED BY <1>2, <2>8, <3>1, <3>2
  <2>10. s[cap] = n - 1
    <3>1. (cap - 1) * c = c * d
      BY <2>2
    <3>2. RoundHalfEven(c * d, d) = c
      BY <2>2, RoundWhole
    <3> QED BY <1>2, <2>8, <3>1, <3>2 DEF c
  <2>11. \A i \in 1 .. cap - 1 : s[i + 1] - s[i] \in {k, k + 1}
    <3>1. SUFFICES ASSUME NEW i \in 1 .. cap - 1 PROVE s[i + 1] - s[i] \in {k, k + 1}
      OBVIOUS
    <3> DEFINE j == i - 1
    <3>2. j \in Nat /\ i = j + 1 /\ i \in 1 .. cap /\ i + 1 \in 1 .. cap
      BY <1>2
    <3> HIDE DEF j
    <3>3. RoundHalfEven((j + 1) * c, d) - RoundHalfEven(j * c, d) \in {k, k + 1}
      BY <2>2, <2>4, <2>5, <2>6, <3>2, RoundEven
    <3>4. s[i] = RoundHalfEven(j * c, d) /\ s[i + 1] = RoundHalfEven((j + 1) * c, d)
      <4>1. i - 1 = j /\ (i + 1) - 1 = j + 1
        BY <3>2
      <4> QED BY <2>8, <3>2, <4>1
    <3> QED BY <3>3, <3>4
  <2>12. gaps \subseteq {k, k + 1}
    BY <2>7, <2>11
  <2> HIDE DEF gaps
  <2> QED BY <1>3, <2>6, <2>7, <2>9, <2>10, <2>12
<1> QED BY <1>2, <1>4, <1>5

-----------------------------------------------------------------------------
(* The prompt. *)

LEMMA TimesNat == ASSUME NEW a \in Nat, NEW b \in Nat PROVE a * b \in Nat
  OBVIOUS

\* A set of places that is not empty has a last one.
LEMMA LastIn ==
  ASSUME NEW n \in Nat, NEW S \in SUBSET (0 .. n), S # {}
  PROVE  Max(S) \in S /\ \A x \in S : x <= Max(S)
<1> DEFINE M == \E x \in S : \A y \in S : x >= y
           G == {k \in 0 .. n : (\A x \in S : x < n - k) \/ M}
<1>0. \A x \in S : x \in Nat /\ x <= n
  OBVIOUS
<1>1. 0 \in G
  <2>1. CASE n \in S
    <3>1. \A y \in S : n >= y
      BY <1>0
    <3>2. M
      BY <2>1, <3>1
    <3> HIDE DEF M
    <3> QED BY <3>2
  <2>2. CASE n \notin S
    <3>1. \A x \in S : x < n - 0
      BY <1>0, <2>2
    <3> HIDE DEF M
    <3> QED BY <3>1
  <2> QED BY <2>1, <2>2
<1>2. ASSUME NEW k \in 0 .. n - 1, k \in G PROVE k + 1 \in G
  <2>1. CASE M
    <3> HIDE DEF M
    <3> QED BY <2>1
  <2>2. CASE \A x \in S : x < n - k
    <3> DEFINE l == n - (k + 1)
    <3>1. l \in Nat /\ l = n - k - 1
      OBVIOUS
    <3>2. \A x \in S : x <= l
      BY <1>0, <2>2, <3>1
    <3>3. CASE l \in S
      <4>1. \A y \in S : l >= y
        BY <1>0, <3>1, <3>2
      <4>2. M
        BY <3>3, <4>1
      <4> HIDE DEF M
      <4> QED BY <4>2
    <3>4. CASE l \notin S
      <4> HIDE DEF l
      <4>1. \A x \in S : x < l
        BY <1>0, <3>1, <3>2, <3>4
      <4> HIDE DEF M
      <4> QED BY <4>1 DEF l
    <3> QED BY <3>3, <3>4
  <2> QED BY <1>2, <2>1, <2>2
<1>3. n \in G
  <2> HIDE DEF G
  <2> QED BY <1>1, <1>2, UpTo
<1>5. M
  <2>1. (\A x \in S : x < n - n) \/ M
    BY <1>3
  <2>2. ~ \A x \in S : x < n - n
    <3>1. PICK x \in S : TRUE
      OBVIOUS
    <3>2. ~(x < n - n)
      BY <1>0
    <3> QED BY <3>2
  <2> QED BY <2>1, <2>2
<1>6. Max(S) \in S /\ \A y \in S : Max(S) >= y
  BY <1>5 DEF Max
<1> DEFINE m == Max(S)
<1>7. m \in Nat /\ \A x \in S : m >= x
  BY <1>0, <1>6
<1> HIDE DEF m
<1>8. \A x \in S : x <= m
  BY <1>0, <1>7
<1> QED BY <1>6, <1>8 DEF m

PassageOK(p) ==
  p.len \in Nat \ {0} /\ p.sentences \cup p.words \subseteq 1 .. p.len - 1

\* A clipped passage ends at a boundary inside the room there is, or is left out.
LEMMA Clipped ==
  ASSUME NEW p, PassageOK(p), NEW room \in Nat \ {0}
  PROVE  LET c == ClipToBoundary(p, room) IN
         c \in Nat /\ c < room /\ (c > 0 => c \in p.sentences \cup p.words)
<1> DEFINE s == {e \in p.sentences : e < room}
           w == {e \in p.words : e < room}
           c == ClipToBoundary(p, room)
<1>1. /\ \A e \in s : e \in Nat /\ e < room /\ e \in p.sentences
      /\ \A e \in w : e \in Nat /\ e < room /\ e \in p.words
  BY DEF PassageOK
<1>2. s \in SUBSET (0 .. room) /\ w \in SUBSET (0 .. room)
  BY <1>1
<1>3. c = IF s # {} THEN Max(s) ELSE IF w # {} THEN Max(w) ELSE 0
  BY DEF ClipToBoundary
<1> HIDE DEF s, w, c
<1>4. CASE s # {}
  <2>1. c \in s
    BY <1>2, <1>3, <1>4, LastIn
  <2> QED BY <1>1, <2>1 DEF c
<1>5. CASE s = {} /\ w # {}
  <2>1. c \in w
    BY <1>2, <1>3, <1>5, LastIn
  <2> QED BY <1>1, <2>1 DEF c
<1>6. CASE s = {} /\ w = {}
  BY <1>3, <1>6 DEF c
<1> QED BY <1>4, <1>5, <1>6

-----------------------------------------------------------------------------

\* n pieces of the lengths s and the separators between them; one separator less for
\* none, so that every further piece costs itself and a separator.
Tok(s, n) == Sum(s, 1 .. n) + (n - 1) * SepTokens

Lengths(s, n) == \A i \in 1 .. n : s[i] \in Nat

LEMMA Sep == SepTokens \in Nat /\ MaxPromptTokens \in Nat /\ MaxChunks \in Nat
             /\ FallbackTokens \in Nat
  BY PromptAssumption

LEMMA TokZero == ASSUME NEW s PROVE Tok(s, 0) = -SepTokens
<1>1. 1 .. 0 = {}
  OBVIOUS
<1>2. Sum(s, {}) = 0
  BY SumOne, FS_EmptySet
<1>3. Tok(s, 0) = 0 + (0 - 1) * SepTokens
  BY <1>1, <1>2 DEF Tok
<1> QED BY <1>3, Sep

LEMMA TokNat ==
  ASSUME NEW n \in Nat, NEW s, Lengths(s, n)
  PROVE  Tok(s, n) \in Int /\ (n > 0 => Tok(s, n) \in Nat)
<1>1. Sum(s, 1 .. n) \in Nat
  <2>1. IsFiniteSet(1 .. n) /\ Numbers(s, 1 .. n)
    BY FS_Interval DEF Lengths, Numbers
  <2> QED BY <2>1, SumOver
<1> DEFINE a == Sum(s, 1 .. n)
<1> HIDE DEF a
<1>2. (n - 1) * SepTokens \in Int
  BY Sep
<1>3. n > 0 => (n - 1) * SepTokens \in Nat
  <2>1. n > 0 => n - 1 \in Nat
    OBVIOUS
  <2> QED BY <2>1, Sep, TimesNat
<1>4. a \in Nat
  BY <1>1 DEF a
<1>5. a + (n - 1) * SepTokens \in Int /\ (n > 0 => a + (n - 1) * SepTokens \in Nat)
  BY <1>2, <1>3, <1>4
<1> QED BY <1>5 DEF Tok, a

LEMMA TokNext ==
  ASSUME NEW n \in Nat, NEW s, Lengths(s, n + 1)
  PROVE  Tok(s, n + 1) = Tok(s, n) + SepTokens + s[n + 1]
<1>1. /\ (1 .. n + 1) \ {n + 1} = 1 .. n /\ n + 1 \in 1 .. n + 1 /\ IsFiniteSet(1 .. n + 1)
      /\ \A x \in 1 .. n + 1 : s[x] \in Nat
  BY FS_Interval DEF Lengths
<1>2. Sum(s, 1 .. n + 1) = s[n + 1] + Sum(s, 1 .. n)
  BY <1>1, SumTake
<1>3. Sum(s, 1 .. n) \in Nat /\ s[n + 1] \in Nat
  BY <1>1, SumNat
<1>4. (n + 1 - 1) * SepTokens = (n - 1) * SepTokens + SepTokens /\ (n - 1) * SepTokens \in Int
  BY Sep
<1> DEFINE a == Sum(s, 1 .. n)
           b == (n - 1) * SepTokens
           c == s[n + 1]
<1>5. Tok(s, n) = a + b /\ Tok(s, n + 1) = c + a + (b + SepTokens)
  BY <1>2, <1>4 DEF Tok
<1>6. a \in Nat /\ b \in Int /\ c \in Nat
  BY <1>3, <1>4
<1> HIDE DEF a, b, c
<1>7. c + a + (b + SepTokens) = a + b + SepTokens + c
  BY <1>6, Sep
<1> QED BY <1>5, <1>7 DEF c

LEMMA TokSame ==
  ASSUME NEW n \in Nat, NEW s, NEW t, Lengths(s, n), \A i \in 1 .. n : s[i] = t[i]
  PROVE  Tok(s, n) = Tok(t, n)
<1>1. IsFiniteSet(1 .. n) /\ Numbers(s, 1 .. n)
  BY FS_Interval DEF Lengths, Numbers
<1>2. Sum(s, 1 .. n) = Sum(t, 1 .. n)
  BY <1>1, SumSame
<1> QED BY <1>2 DEF Tok

-----------------------------------------------------------------------------
(* The packer. *)

Packing == [kept : Seq(Nat), used : Nat, full : BOOLEAN]
Empty == [kept |-> <<>>, used |-> 0, full |-> FALSE]

Passages(q) == q \in Seq(Range(q)) /\ \A i \in 1 .. Len(q) : PassageOK(q[i])

WholeLengths(q) == [i \in 1 .. Len(q) |-> q[i].len]

\* got: what is packed of the first i passages of q in a room of b tokens.  It keeps
\* passages whole, the last one perhaps clipped, and leaves one out for room alone.
Packed(got, q, i, b) ==
  LET s == got.kept
      k == Len(got.kept)
      w == WholeLengths(q)
  IN /\ got \in Packing
     /\ k <= i
     /\ \A j \in 1 .. k - 1 : s[j] = w[j]
     /\ k > 0 => Tok(s, k) <= b
     /\ k > 0 /\ s[k] # w[k] => /\ s[k] \in q[k].sentences \cup q[k].words
                                /\ Tok(w, k) > b
     /\ got.full /\ k < Len(q) => Tok(w, k + 1) > b
     /\ ~got.full => /\ k = i
                     /\ k > 0 => s[k] = w[k] /\ got.used = Tok(w, k)
                     /\ k = 0 => got.used = 0

LEMMA Wholes ==
  ASSUME NEW q, Passages(q)
  PROVE  /\ Len(q) \in Nat
         /\ \A i \in 1 .. Len(q) : WholeLengths(q)[i] = q[i].len /\ q[i].len \in Nat \ {0}
         /\ \A n \in 0 .. Len(q) : Lengths(WholeLengths(q), n)
<1>1. Len(q) \in Nat
  BY DEF Passages
<1>2. \A i \in 1 .. Len(q) : WholeLengths(q)[i] = q[i].len /\ q[i].len \in Nat \ {0}
  BY DEF Passages, PassageOK, WholeLengths
<1>3. ASSUME NEW n \in 0 .. Len(q) PROVE Lengths(WholeLengths(q), n)
  <2>1. \A i \in 1 .. n : i \in 1 .. Len(q)
    BY <1>1
  <2> QED BY <1>2, <2>1 DEF Lengths
<1> QED BY <1>1, <1>2, <1>3

LEMMA EmptyPacked ==
  ASSUME NEW q, Passages(q), NEW b \in Nat
  PROVE  Packed(Empty, q, 0, b)
<1>1. Empty.kept = <<>> /\ Empty.used = 0 /\ Empty.full = FALSE /\ Len(<<>>) = 0
  BY DEF Empty
<1>2. Empty \in Packing
  BY DEF Empty, Packing
<1> HIDE DEF Empty
<1> QED BY <1>1, <1>2 DEF Packed

\* The sequence s with one more piece of c tokens.
LEMMA OneMore ==
  ASSUME NEW s \in Seq(Nat), NEW c \in Nat
  PROVE  LET t == Append(s, c)
             k == Len(s)
         IN  /\ t \in Seq(Nat) /\ k \in Nat /\ Len(t) = k + 1
             /\ t[k + 1] = c /\ \A i \in 1 .. k : t[i] = s[i]
             /\ Tok(t, k + 1) = Tok(s, k) + SepTokens + c
<1> DEFINE t == Append(s, c)
           k == Len(s)
<1>1. /\ t \in Seq(Nat) /\ k \in Nat /\ Len(t) = k + 1
      /\ t[k + 1] = c /\ \A i \in 1 .. k : t[i] = s[i]
  OBVIOUS
<1>2. \A i \in 1 .. k : s[i] \in Nat
  OBVIOUS
<1> HIDE DEF t, k
<1>3. Lengths(t, k + 1) /\ Lengths(s, k)
  BY <1>1, <1>2 DEF Lengths
<1>4. Tok(t, k + 1) = Tok(t, k) + SepTokens + c
  BY <1>1, <1>3, TokNext
<1>5. Tok(s, k) = Tok(t, k)
  BY <1>1, <1>3, TokSame
<1> QED BY <1>1, <1>4, <1>5 DEF t, k

\* One more passage is packed.
LEMMA PackKeeps ==
  ASSUME NEW q, Passages(q), NEW b \in Nat, NEW i \in 0 .. Len(q) - 1,
         NEW got, Packed(got, q, i, b)
  PROVE  Packed(Pack(got, q[i + 1], b), q, i + 1, b)
<1> DEFINE s == got.kept
           k == Len(s)
           w == WholeLengths(q)
           p == q[i + 1]
           sep == IF s = <<>> THEN 0 ELSE SepTokens
           room == b - got.used - sep
           c == ClipToBoundary(p, room)
           new == Pack(got, p, b)
<1>0. SUFFICES Packed(new, q, i + 1, b)
  OBVIOUS
<1>1. /\ got \in Packing /\ s \in Seq(Nat) /\ k \in Nat /\ k <= i
      /\ got.used \in Nat /\ got.full \in BOOLEAN /\ (s = <<>> <=> k = 0)
  <2>1. got \in Packing /\ k <= i
    BY DEF Packed
  <2>2. s \in Seq(Nat) /\ got.used \in Nat /\ got.full \in BOOLEAN
    BY <2>1 DEF Packing
  <2> HIDE DEF s
  <2>3. k \in Nat /\ (s = <<>> <=> k = 0)
    BY <2>2
  <2> QED BY <2>1, <2>2, <2>3
<1>2. i \in Nat /\ i + 1 \in 1 .. Len(q) /\ Len(q) \in Nat
  BY Wholes
<1>3. /\ PassageOK(p) /\ p.len \in Nat \ {0} /\ w[i + 1] = p.len
      /\ \A n \in 0 .. Len(q) : Lengths(w, n)
  BY <1>2, Wholes DEF Passages
<1>4. new = IF got.full \/ room <= 0 THEN [got EXCEPT !.full = TRUE]
            ELSE IF p.len <= room
            THEN [got EXCEPT !.kept = Append(s, p.len), !.used = got.used + sep + p.len]
            ELSE [got EXCEPT !.full = TRUE, !.kept = IF c = 0 THEN s ELSE Append(s, c)]
  BY DEF Pack
<1>5. CASE got.full
  <2>1. new = [got EXCEPT !.full = TRUE]
    BY <1>4, <1>5
  <2>2. new = got
    BY <1>1, <1>5, <2>1 DEF Packing
  <2> HIDE DEF new
  <2> QED BY <1>1, <1>2, <1>5, <2>2 DEF Packed
<1>6. CASE ~got.full
  <2>1. /\ k = i /\ \A j \in 1 .. k : s[j] = w[j]
        /\ got.used + sep = Tok(w, k) + SepTokens
    <3>1. k = i /\ (k > 0 => s[k] = w[k] /\ got.used = Tok(w, k)) /\ (k = 0 => got.used = 0)
          /\ \A j \in 1 .. k - 1 : s[j] = w[j]
      BY <1>6 DEF Packed
    <3>2. Tok(w, 0) = -SepTokens
      BY TokZero
    <3> HIDE DEF s, k, w
    <3>3. got.used + sep = Tok(w, k) + SepTokens
      <4>1. CASE k = 0
        BY <1>1, <3>1, <3>2, <4>1, Sep
      <4>2. CASE k > 0
        BY <1>1, <3>1, <4>2, Sep
      <4> QED BY <1>1, <4>1, <4>2
    <3> QED BY <1>1, <3>1, <3>3
  <2>2. Tok(w, k) \in Int /\ Tok(s, k) = Tok(w, k) /\ Tok(w, k + 1) = Tok(w, k) + SepTokens + p.len
    <3>1. Lengths(w, k) /\ Lengths(w, k + 1)
      BY <1>1, <1>2, <1>3, <2>1
    <3> HIDE DEF s, w, k
    <3>2. Tok(w, k) \in Int
      BY <1>1, <3>1, TokNat
    <3>3. Tok(w, k) = Tok(s, k)
      BY <1>1, <2>1, <3>1, TokSame
    <3>4. Tok(w, k + 1) = Tok(w, k) + SepTokens + p.len
      BY <1>1, <1>3, <2>1, <3>1, TokNext
    <3> QED BY <3>2, <3>3, <3>4
  <2> DEFINE T == Tok(w, k)
             U == Tok(w, k + 1)
             l == p.len
  <2>3. /\ T \in Int /\ l \in Nat \ {0} /\ SepTokens \in Nat /\ U = T + SepTokens + l
        /\ room = b - T - SepTokens
    <3>1. b - got.used - sep = b - (got.used + sep)
      BY <1>1, Sep
    <3> QED BY <1>3, <2>1, <2>2, <3>1, Sep
  <2>4. k > 0 => T <= b
    BY <2>2 DEF Packed
  <2> HIDE DEF T, U, l
  <2>5. U \in Int /\ room \in Int
    BY <2>3
  <2>6. CASE room <= 0
    <3>1. new = [got EXCEPT !.full = TRUE]
      BY <1>4, <2>6
    <3>2. new.kept = s /\ new.used = got.used /\ new.full = TRUE /\ new \in Packing
      BY <1>1, <3>1 DEF Packing
    <3>3. U > b
      BY <2>3, <2>6
    <3> HIDE DEF new
    <3> QED BY <1>1, <1>2, <2>1, <2>2, <2>4, <3>2, <3>3 DEF Packed, T, U
  <2>7. CASE room > 0 /\ l <= room
    <3>1. new = [got EXCEPT !.kept = Append(s, l), !.used = got.used + sep + l]
      BY <1>4, <1>6, <2>5, <2>7 DEF l
    <3>2. new.kept = Append(s, l) /\ new.used = U /\ new.full = FALSE
      <4>1. new.kept = Append(s, l) /\ new.used = got.used + sep + l /\ new.full = FALSE
        BY <1>1, <1>6, <3>1 DEF Packing
      <4>2. got.used + sep + l = U
        BY <2>1, <2>3 DEF T
      <4> QED BY <4>1, <4>2
    <3> DEFINE t == Append(s, l)
    <3>3. /\ t \in Seq(Nat) /\ Len(t) = k + 1 /\ t[k + 1] = l /\ \A j \in 1 .. k : t[j] = s[j]
          /\ Tok(t, k + 1) = U
      <4>1. /\ t \in Seq(Nat) /\ Len(t) = k + 1 /\ t[k + 1] = l /\ \A j \in 1 .. k : t[j] = s[j]
            /\ Tok(t, k + 1) = Tok(s, k) + SepTokens + l
        BY <1>1, <2>3, OneMore
      <4> QED BY <2>2, <2>3, <4>1 DEF T
    <3>4. new \in Packing
      <4>1. U \in Nat
        <5>1. sep \in Nat /\ got.used \in Nat
          BY <1>1, Sep
        <5>2. U = (got.used + sep) + l
          BY <2>1, <2>3 DEF T
        <5> HIDE DEF sep
        <5> QED BY <2>3, <5>1, <5>2
      <4>2. DOMAIN got = {"kept", "used", "full"}
        BY <1>1 DEF Packing
      <4> QED BY <1>1, <3>1, <3>2, <3>3, <4>1 DEF Packing
    <3>5. U <= b
      BY <2>3, <2>7
    <3> HIDE DEF new, t, s, k, w
    <3>6. \A j \in 1 .. k + 1 - 1 : t[j] = w[j]
      BY <1>1, <2>1, <3>3
    <3>7. t[k + 1] = w[k + 1]
      BY <1>3, <2>1, <3>3 DEF l
    <3>8. new.kept = t /\ Len(new.kept) = k + 1 /\ k + 1 = i + 1
      BY <2>1, <3>2, <3>3 DEF t
    <3> DEFINE n == k + 1
    <3>9. n \in Nat /\ n > 0 /\ n <= i + 1
      BY <1>1, <3>8
    <3>10. /\ Len(new.kept) = n /\ new.full = FALSE
           /\ \A j \in 1 .. n - 1 : new.kept[j] = WholeLengths(q)[j]
           /\ new.kept[n] = WholeLengths(q)[n] /\ new.used = Tok(WholeLengths(q), n)
           /\ Tok(new.kept, n) <= b /\ n = i + 1
      <4>1. Len(new.kept) = n /\ n = i + 1 /\ new.full = FALSE
        BY <3>2, <3>8
      <4>2. \A j \in 1 .. n - 1 : new.kept[j] = WholeLengths(q)[j]
        <5>1. n - 1 = k + 1 - 1
          BY <1>1
        <5>2. \A j \in 1 .. k + 1 - 1 : new.kept[j] = w[j]
          BY <3>6, <3>8
        <5> HIDE DEF n
        <5> QED BY <5>1, <5>2 DEF w
      <4>3. new.kept[n] = WholeLengths(q)[n] /\ Tok(new.kept, n) <= b
        BY <3>3, <3>5, <3>7, <3>8 DEF w, n
      <4>4. new.used = Tok(WholeLengths(q), n)
        BY <3>2 DEF U, w
      <4> QED BY <4>1, <4>2, <4>3, <4>4
    <3> HIDE DEF n
    <3> QED BY <3>4, <3>9, <3>10 DEF Packed
  <2>8. CASE room > 0 /\ ~(l <= room)
    <3>1. new = [got EXCEPT !.full = TRUE, !.kept = IF c = 0 THEN s ELSE Append(s, c)]
      BY <1>4, <1>6, <2>5, <2>8 DEF l
    <3>2. U > b
      BY <2>3, <2>8
    <3>3. c \in Nat /\ c < room /\ (c > 0 => c \in p.sentences \cup p.words)
      <4>1. room \in Nat \ {0}
        BY <2>5, <2>8
      <4> HIDE DEF room, p
      <4> QED BY <1>3, <4>1, Clipped
    <3> HIDE DEF c
    <3>4. CASE c = 0
      <4>1. new.kept = s /\ new.used = got.used /\ new.full = TRUE /\ new \in Packing
        BY <1>1, <3>1, <3>4 DEF Packing
      <4> HIDE DEF new
      <4> QED BY <1>1, <1>2, <2>1, <2>2, <2>4, <3>2, <4>1 DEF Packed, T, U
    <3>5. CASE c # 0
      <4> DEFINE t == Append(s, c)
      <4>1. /\ t \in Seq(Nat) /\ Len(t) = k + 1 /\ t[k + 1] = c /\ \A j \in 1 .. k : t[j] = s[j]
            /\ Tok(t, k + 1) = T + SepTokens + c
        <5>1. /\ t \in Seq(Nat) /\ Len(t) = k + 1 /\ t[k + 1] = c /\ \A j \in 1 .. k : t[j] = s[j]
              /\ Tok(t, k + 1) = Tok(s, k) + SepTokens + c
          BY <1>1, <3>3, OneMore
        <5> QED BY <2>2, <5>1 DEF T
      <4>2. new.kept = t /\ new.full = TRUE /\ new \in Packing
        BY <1>1, <3>1, <3>5, <4>1 DEF Packing
      <4>3. Tok(t, k + 1) <= b
        BY <2>3, <3>3, <4>1
      <4>4. c \in q[k + 1].sentences \cup q[k + 1].words
        BY <2>1, <3>3, <3>5
      <4>5. k + 1 < Len(q) => Tok(w, k + 1 + 1) > b
        <5>1. ASSUME k + 1 < Len(q) PROVE Tok(w, k + 1 + 1) > b
          <6>1. k + 1 \in Nat /\ k + 1 + 1 \in 1 .. Len(q)
            BY <1>1, <1>2, <5>1
          <6> HIDE DEF w, k
          <6>2. Lengths(w, k + 1 + 1) /\ w[k + 1 + 1] \in Nat
            <7>1. Lengths(w, k + 1 + 1)
              BY <1>2, <1>3, <6>1
            <7> QED BY <6>1, <7>1 DEF Lengths
          <6>3. Tok(w, k + 1 + 1) = Tok(w, k + 1) + SepTokens + w[k + 1 + 1]
            BY <6>1, <6>2, TokNext
          <6> QED BY <2>3, <2>5, <3>2, <6>2, <6>3 DEF U
        <5> QED BY <5>1
      <4> HIDE DEF new, t, s, k, w, p
      <4>6. \A j \in 1 .. k + 1 - 1 : t[j] = w[j]
        BY <1>1, <2>1, <4>1
      <4>7. new.kept = t /\ Len(new.kept) = k + 1 /\ k + 1 = i + 1
        BY <2>1, <4>1, <4>2
      <4> QED BY <1>1, <1>2, <3>2, <4>1, <4>2, <4>3, <4>4, <4>5, <4>6, <4>7 DEF Packed, U, w
    <3> QED BY <3>4, <3>5
  <2> QED BY <2>3, <2>5, <2>6, <2>7, <2>8
<1> QED BY <1>1, <1>5, <1>6

\* The states of the packer, one passage after the other.
PackRun(h, q, b, m) ==
  /\ DOMAIN h = 0 .. m
  /\ \A n \in 0 .. m : h[n] = IF n = 0 THEN Empty ELSE Pack(h[n - 1], q[n], b)

LEMMA PackerRuns ==
  ASSUME NEW q, Passages(q), NEW b \in Nat, b > 0
  PROVE  \E g : Packed(g, q, Len(q), b) /\ FitChunks(q, b) = g.kept
<1> DEFINE N == Len(q)
           StepOf(h, n) == IF n = 0 THEN Empty ELSE Pack(h[n - 1], q[n], b)
           got == CHOOSE h : h = [n \in 0 .. N |-> StepOf(h, n)]
           Reached == {m \in 0 .. N : \E h : PackRun(h, q, b, m)}
           Kept == {m \in 0 .. N : Packed(got[m], q, m, b)}
<1>1. N \in Nat
  BY Wholes
<1>2. FitChunks(q, b) = got[N].kept
  BY DEF FitChunks, Empty
<1>3. 0 \in Reached
  <2>1. PackRun([n \in 0 .. 0 |-> Empty], q, b, 0)
    BY DEF PackRun
  <2> QED BY <1>1, <2>1
<1>4. ASSUME NEW m \in 0 .. N - 1, m \in Reached PROVE m + 1 \in Reached
  <2>1. PICK h : PackRun(h, q, b, m)
    BY <1>4
  <2> DEFINE g == [n \in 0 .. m + 1 |-> IF n <= m THEN h[n] ELSE Pack(h[m], q[m + 1], b)]
  <2>2. m \in Nat /\ m + 1 \in 0 .. N
    BY <1>1
  <2>3. ASSUME NEW n \in 0 .. m + 1
        PROVE  g[n] = IF n = 0 THEN Empty ELSE Pack(g[n - 1], q[n], b)
    <3>1. CASE n <= m
      <4>1. g[n] = h[n] /\ (n # 0 => g[n - 1] = h[n - 1])
        BY <2>2, <3>1
      <4>2. h[n] = IF n = 0 THEN Empty ELSE Pack(h[n - 1], q[n], b)
        BY <2>1, <2>2, <3>1 DEF PackRun
      <4> HIDE DEF g
      <4> QED BY <4>1, <4>2
    <3>2. CASE n = m + 1
      <4>1. n # 0 /\ n - 1 = m /\ g[m] = h[m] /\ g[n] = Pack(h[m], q[m + 1], b)
        BY <2>2, <3>2
      <4> HIDE DEF g
      <4> QED BY <3>2, <4>1
    <3> QED BY <2>2, <3>1, <3>2
  <2>4. DOMAIN g = 0 .. m + 1
    OBVIOUS
  <2> HIDE DEF g
  <2>5. PackRun(g, q, b, m + 1)
    BY <2>3, <2>4 DEF PackRun
  <2> QED BY <2>2, <2>5
<1>5. N \in Reached
  <2> HIDE DEF Reached
  <2>1. 0 .. N \subseteq Reached
    BY <1>1, <1>3, <1>4, UpTo
  <2> QED BY <1>1, <2>1
<1>6. \E h : h = [n \in 0 .. N |-> StepOf(h, n)]
  <2>1. PICK h : PackRun(h, q, b, N)
    BY <1>5
  <2> DEFINE k == [n \in 0 .. N |-> h[n]]
             e == [n \in 0 .. N |-> StepOf(k, n)]
  <2>2. \A n \in 0 .. N : k[n] = e[n]
    <3>1. SUFFICES ASSUME NEW n \in 0 .. N PROVE k[n] = StepOf(k, n)
      OBVIOUS
    <3>2. k[n] = h[n] /\ (n # 0 => k[n - 1] = h[n - 1])
      BY <1>1
    <3>3. h[n] = StepOf(h, n)
      BY <2>1 DEF PackRun
    <3> HIDE DEF k
    <3> QED BY <3>2, <3>3
  <2>3. k = e
    BY <2>2
  <2> QED BY <2>3
<1>7. got = [n \in 0 .. N |-> StepOf(got, n)]
  <2> HIDE DEF StepOf
  <2> QED BY <1>6
<1> HIDE DEF got
<1>8. \A n \in 0 .. N : got[n] = StepOf(got, n)
  BY <1>7
<1>9. 0 \in Kept
  <2>1. got[0] = Empty
    BY <1>1, <1>8
  <2> QED BY <1>1, <2>1, EmptyPacked
<1>10. ASSUME NEW m \in 0 .. N - 1, m \in Kept PROVE m + 1 \in Kept
  <2>1. m + 1 \in 0 .. N /\ m + 1 # 0 /\ m + 1 - 1 = m
    BY <1>1
  <2>2. got[m + 1] = Pack(got[m], q[m + 1], b)
    BY <1>8, <2>1
  <2>3. Packed(got[m], q, m, b)
    BY <1>10
  <2>4. Packed(Pack(got[m], q[m + 1], b), q, m + 1, b)
    BY <2>3, PackKeeps
  <2> QED BY <2>1, <2>2, <2>4
<1>11. N \in Kept
  <2> HIDE DEF Kept
  <2>1. 0 .. N \subseteq Kept
    BY <1>1, <1>9, <1>10, UpTo
  <2> QED BY <1>1, <2>1
<1> QED BY <1>2, <1>11

PromptJob(fixed, passages, drift) ==
  fixed \in Nat /\ Passages(passages) /\ drift \in [1 .. MaxChunks -> Int]

\* What the packer leaves of the passages of a prompt.
LEMMA PackedFits ==
  ASSUME NEW fixed \in Nat, NEW ps, Passages(ps)
  PROVE  LET s == PackedPassages(fixed, ps)
             k == Len(s)
             n == Smaller(MaxChunks, Len(ps))
             w == WholeLengths(ps)
         IN  /\ s \in Seq(Nat) /\ k \in Nat /\ k <= n
             /\ \A j \in 1 .. k - 1 : s[j] = ps[j].len
             /\ k > 0 => fixed + Tok(s, k) <= MaxPromptTokens
             /\ k > 0 /\ s[k] # ps[k].len => /\ s[k] \in ps[k].sentences \cup ps[k].words
                                             /\ fixed + Tok(w, k) > MaxPromptTokens
             /\ k < n => fixed + Tok(w, k + 1) > MaxPromptTokens
<1> DEFINE s == PackedPassages(fixed, ps)
           k == Len(s)
           n == Smaller(MaxChunks, Len(ps))
           w == WholeLengths(ps)
           q == SubSeq(ps, 1, n)
           b == IF fixed < MaxPromptTokens THEN MaxPromptTokens - fixed ELSE 0
<1>1. n \in Nat /\ n <= Len(ps) /\ Len(ps) \in Nat
  BY Wholes, Sep DEF Smaller
<1>2. s = FitChunks(q, b)
  <2>1. n = IF Len(ps) < MaxChunks THEN Len(ps) ELSE MaxChunks
    BY <1>1, Sep DEF Smaller
  <2> HIDE DEF n
  <2> QED BY <2>1 DEF PackedPassages
<1>3. Len(q) = n /\ \A i \in 1 .. n : q[i] = ps[i]
  BY <1>1
<1>4. Passages(q)
  <2>1. \A i \in 1 .. n : i \in 1 .. Len(ps)
    BY <1>1
  <2>2. \A i \in 1 .. Len(q) : PassageOK(q[i])
    BY <1>3, <2>1 DEF Passages
  <2>3. q = [i \in 1 .. n |-> ps[i]]
    BY <1>1
  <2>4. \A i \in 1 .. n : ps[i] \in Range(q)
    BY <1>1, <2>3 DEF Range
  <2>5. q \in Seq(Range(q))
    <3> DEFINE R == Range(q)
    <3> HIDE DEF R
    <3>1. [i \in 1 .. n |-> ps[i]] \in Seq(R)
      <4> HIDE DEF n
      <4> QED BY <1>1, <2>4 DEF R
    <3> QED BY <2>3, <3>1 DEF R
  <2> QED BY <2>2, <2>5 DEF Passages
<1>5. \A i \in 1 .. n : w[i] = ps[i].len /\ w[i] \in Nat \ {0} /\ WholeLengths(q)[i] = w[i]
  <2>1. \A i \in 1 .. n : i \in 1 .. Len(ps) /\ i \in 1 .. Len(q)
    BY <1>1, <1>3
  <2>2. \A i \in 1 .. Len(ps) : w[i] = ps[i].len /\ ps[i].len \in Nat \ {0}
    BY Wholes
  <2>3. \A i \in 1 .. Len(q) : WholeLengths(q)[i] = q[i].len
    BY <1>4, Wholes
  <2> HIDE DEF w, q, n
  <2> QED BY <1>3, <2>1, <2>2, <2>3
<1> HIDE DEF s, q, n, w
<1>6. \A j \in 0 .. n : Tok(WholeLengths(q), j) = Tok(w, j)
  <2>1. SUFFICES ASSUME NEW j \in 0 .. n PROVE Tok(WholeLengths(q), j) = Tok(w, j)
    OBVIOUS
  <2>2. j \in Nat /\ \A i \in 1 .. j : i \in 1 .. n
    BY <1>1
  <2>3. Lengths(WholeLengths(q), j) /\ \A i \in 1 .. j : WholeLengths(q)[i] = w[i]
    BY <1>5, <2>2 DEF Lengths
  <2> QED BY <2>2, <2>3, TokSame
<1>7. \A j \in 0 .. n : Tok(w, j) \in Int
  <2>1. SUFFICES ASSUME NEW j \in 0 .. n PROVE Tok(w, j) \in Int
    OBVIOUS
  <2>2. j \in Nat /\ \A i \in 1 .. j : i \in 1 .. n
    BY <1>1
  <2>3. Lengths(w, j)
    BY <1>5, <2>2 DEF Lengths
  <2> QED BY <2>2, <2>3, TokNat
<1>8. CASE fixed < MaxPromptTokens
  <2>1. b \in Nat /\ b > 0 /\ b = MaxPromptTokens - fixed
    BY <1>8, Sep
  <2> HIDE DEF b
  <2>2. PICK g : Packed(g, q, Len(q), b) /\ s = g.kept
    BY <1>2, <1>4, <2>1, PackerRuns
  <2>3. g \in Packing /\ s \in Seq(Nat)
    BY <2>2 DEF Packed, Packing
  <2>4. k \in Nat
    BY <2>3
  <2> HIDE DEF k
  <2>5. /\ k <= n
        /\ \A j \in 1 .. k - 1 : s[j] = WholeLengths(q)[j]
        /\ k > 0 => Tok(s, k) <= b
        /\ k > 0 /\ s[k] # WholeLengths(q)[k] => /\ s[k] \in q[k].sentences \cup q[k].words
                                           /\ Tok(WholeLengths(q), k) > b
        /\ k < n => Tok(WholeLengths(q), k + 1) > b
    <3>1. ~g.full => k = n
      BY <1>3, <2>2 DEF Packed, k
    <3>2. g.full /\ k < n => Tok(WholeLengths(q), k + 1) > b
      BY <1>3, <2>2 DEF Packed, k
    <3>3. k < n => g.full
      BY <1>1, <2>4, <3>1
    <3>4. /\ k <= n
          /\ \A j \in 1 .. k - 1 : s[j] = WholeLengths(q)[j]
          /\ k > 0 => Tok(s, k) <= b
          /\ k > 0 /\ s[k] # WholeLengths(q)[k] => /\ s[k] \in q[k].sentences \cup q[k].words
                                             /\ Tok(WholeLengths(q), k) > b
      BY <1>3, <2>2 DEF Packed, k
    <3> QED BY <3>2, <3>3, <3>4
  <2>6. \A j \in 1 .. k : j \in 1 .. n
    BY <1>1, <2>4, <2>5
  <2>7. \A j \in 1 .. k - 1 : s[j] = ps[j].len
    <3>1. \A j \in 1 .. k - 1 : j \in 1 .. k
      BY <2>4
    <3> QED BY <1>5, <2>5, <2>6, <3>1
  <2>8. k > 0 => fixed + Tok(s, k) <= MaxPromptTokens
    <3>1. \A i \in 1 .. k : s[i] \in Nat
      BY <2>3 DEF k
    <3>2. Tok(s, k) \in Int
      BY <2>4, <3>1, TokNat DEF Lengths
    <3> QED BY <2>1, <2>5, <3>2, Sep
  <2>9. k > 0 /\ s[k] # ps[k].len => /\ s[k] \in ps[k].sentences \cup ps[k].words
                                     /\ fixed + Tok(w, k) > MaxPromptTokens
    <3>1. SUFFICES ASSUME k > 0, s[k] # ps[k].len
          PROVE  /\ s[k] \in ps[k].sentences \cup ps[k].words
                 /\ fixed + Tok(w, k) > MaxPromptTokens
      OBVIOUS
    <3>2. k \in 1 .. n /\ k \in 0 .. n
      BY <1>1, <2>4, <2>5, <3>1
    <3>3. s[k] # WholeLengths(q)[k] /\ q[k] = ps[k]
      BY <1>3, <1>5, <3>1, <3>2
    <3>4. Tok(w, k) > b /\ Tok(w, k) \in Int
      BY <1>6, <1>7, <2>5, <3>1, <3>2, <3>3
    <3>5. fixed + Tok(w, k) > MaxPromptTokens
      BY <2>1, <3>4, Sep
    <3> QED BY <2>5, <3>1, <3>3, <3>5
  <2>10. k < n => fixed + Tok(w, k + 1) > MaxPromptTokens
    <3>1. SUFFICES ASSUME k < n PROVE fixed + Tok(w, k + 1) > MaxPromptTokens
      OBVIOUS
    <3>2. k + 1 \in 0 .. n
      BY <1>1, <2>4, <3>1
    <3>3. Tok(w, k + 1) > b /\ Tok(w, k + 1) \in Int
      BY <1>6, <1>7, <2>5, <3>1, <3>2
    <3> QED BY <2>1, <3>3, Sep
  <2> QED BY <2>3, <2>4, <2>5, <2>7, <2>8, <2>9, <2>10 DEF s, k, n, w
<1>9. CASE ~(fixed < MaxPromptTokens)
  <2>1. s = <<>>
    BY <1>2, <1>9 DEF FitChunks
  <2>2. k = 0 /\ s \in Seq(Nat)
    BY <2>1
  <2>3. n > 0 => fixed + Tok(w, 1) > MaxPromptTokens
    <3>1. SUFFICES ASSUME n > 0 PROVE fixed + Tok(w, 1) > MaxPromptTokens
      OBVIOUS
    <3>2. w[1] \in Nat \ {0}
      BY <1>1, <1>5, <3>1
    <3>3. Tok(w, 0 + 1) = Tok(w, 0) + SepTokens + w[0 + 1]
      <4>1. Lengths(w, 0 + 1)
        BY <3>2 DEF Lengths
      <4> QED BY <4>1, TokNext
    <3>4. Tok(w, 1) = w[1]
      BY <3>2, <3>3, TokZero, Sep
    <3> QED BY <1>9, <3>2, <3>4, Sep
  <2> QED BY <1>1, <2>2, <2>3 DEF s, k, n, w
<1> QED BY <1>8, <1>9

LEMMA PromptTokensAre ==
  ASSUME NEW fixed \in Nat, NEW s, NEW n \in Nat \ {0}, NEW drift, Lengths(s, n),
         drift[n] \in Int
  PROVE  PromptTokens(fixed, s, n, drift) = fixed + Tok(s, n) + drift[n]
<1> DEFINE a == Sum(s, 1 .. n)
           b == (n - 1) * SepTokens
           c == drift[n]
<1>1. a \in Nat
  <2>1. IsFiniteSet(1 .. n) /\ Numbers(s, 1 .. n)
    BY FS_Interval DEF Lengths, Numbers
  <2> QED BY <2>1, SumOver
<1>2. b \in Int /\ c \in Int
  BY Sep
<1>3. PromptTokens(fixed, s, n, drift) = fixed + a + b + c /\ Tok(s, n) = a + b
  BY DEF PromptTokens, Tok
<1> HIDE DEF a, b, c
<1>4. fixed + a + b + c = fixed + (a + b) + c
  BY <1>1, <1>2
<1> QED BY <1>3, <1>4 DEF c

LEMMA Trimmed ==
  ASSUME NEW fixed \in Nat, NEW s \in Seq(Nat), NEW drift, Len(s) <= MaxChunks,
         \A n \in 1 .. MaxChunks : drift[n] \in Int
  PROVE  LET t == Trim(fixed, s, drift) IN
         /\ t # <<>> => PromptTokens(fixed, t, Len(t), drift) <= MaxPromptTokens
         /\ Len(s) = 0 => t = s
         /\ Len(s) > 0 /\ fixed + Tok(s, Len(s)) + drift[Len(s)] <= MaxPromptTokens => t = s
<1> DEFINE k == Len(s)
           fits == {n \in 1 .. k : PromptTokens(fixed, s, n, drift) <= MaxPromptTokens}
           t == Trim(fixed, s, drift)
<1>1. t = SubSeq(s, 1, IF fits = {} THEN 0 ELSE Max(fits))
  BY DEF Trim
<1>2. k \in Nat /\ k <= MaxChunks /\ fits \in SUBSET (0 .. k)
  OBVIOUS
<1>3. \A n \in 1 .. k : /\ s[n] \in Nat /\ drift[n] \in Int /\ n \in Nat \ {0}
                        /\ Lengths(s, n)
                        /\ PromptTokens(fixed, s, n, drift) = fixed + Tok(s, n) + drift[n]
  <2>1. SUFFICES ASSUME NEW n \in 1 .. k
        PROVE  /\ s[n] \in Nat /\ drift[n] \in Int /\ n \in Nat \ {0}
               /\ Lengths(s, n)
               /\ PromptTokens(fixed, s, n, drift) = fixed + Tok(s, n) + drift[n]
    OBVIOUS
  <2>2. \A i \in 1 .. k : s[i] \in Nat
    OBVIOUS
  <2>3. n \in Nat \ {0} /\ s[n] \in Nat /\ Lengths(s, n)
    BY <1>2, <2>2 DEF Lengths
  <2>4. n \in 1 .. MaxChunks
    BY <1>2, Sep
  <2>5. drift[n] \in Int
    BY <2>4
  <2>6. PromptTokens(fixed, s, n, drift) = fixed + Tok(s, n) + drift[n]
    BY <2>3, <2>5, PromptTokensAre
  <2> QED BY <2>3, <2>5, <2>6
<1>4. CASE fits = {}
  <2>1. t = <<>>
    BY <1>1, <1>4
  <2>2. k = 0 => s = <<>>
    OBVIOUS
  <2>3. k > 0 => ~(fixed + Tok(s, k) + drift[k] <= MaxPromptTokens)
    <3>1. ASSUME k > 0 PROVE ~(fixed + Tok(s, k) + drift[k] <= MaxPromptTokens)
      <4>1. k \in 1 .. k
        BY <1>2, <3>1
      <4>2. PromptTokens(fixed, s, k, drift) = fixed + Tok(s, k) + drift[k]
        BY <1>3, <4>1
      <4>3. ~(PromptTokens(fixed, s, k, drift) <= MaxPromptTokens)
        BY <1>4, <4>1
      <4> QED BY <4>2, <4>3
    <3> QED BY <3>1
  <2> QED BY <1>2, <2>1, <2>2, <2>3
<1>5. CASE fits # {}
  <2> DEFINE m == Max(fits)
  <2>1. m \in fits /\ \A n \in fits : n <= m
    <3> HIDE DEF fits
    <3> QED BY <1>2, <1>5, LastIn
  <2>2. m \in 1 .. k /\ m \in Nat \ {0} /\ PromptTokens(fixed, s, m, drift) <= MaxPromptTokens
    BY <2>1
  <2>3. t = SubSeq(s, 1, m)
    BY <1>1, <1>5
  <2> HIDE DEF m, t
  <2>4. Len(t) = m /\ \A i \in 1 .. m : t[i] = s[i]
    BY <2>2, <2>3
  <2>5. PromptTokens(fixed, t, m, drift) = PromptTokens(fixed, s, m, drift)
    <3>1. Lengths(s, m) /\ drift[m] \in Int
      BY <1>3, <2>2
    <3>2. Lengths(t, m) /\ \A i \in 1 .. m : s[i] = t[i]
      <4>1. \A i \in 1 .. m : s[i] = t[i] /\ s[i] \in Nat
        BY <2>4, <3>1 DEF Lengths
      <4> HIDE DEF k
      <4> QED BY <4>1 DEF Lengths
    <3>3. Tok(s, m) = Tok(t, m)
      BY <2>2, <3>1, <3>2, TokSame
    <3>4. PromptTokens(fixed, t, m, drift) = fixed + Tok(t, m) + drift[m]
      BY <2>2, <3>1, <3>2, PromptTokensAre
    <3>5. PromptTokens(fixed, s, m, drift) = fixed + Tok(s, m) + drift[m]
      BY <2>2, <3>1, PromptTokensAre
    <3> QED BY <3>3, <3>4, <3>5
  <2>6. ASSUME k > 0, fixed + Tok(s, k) + drift[k] <= MaxPromptTokens PROVE t = s
    <3>1. k \in 1 .. k
      BY <1>2, <2>6
    <3>2. PromptTokens(fixed, s, k, drift) <= MaxPromptTokens
      BY <1>3, <2>6, <3>1
    <3>3. k \in fits
      BY <3>1, <3>2
    <3>4. m = k
      <4>1. k <= m
        BY <2>1, <3>3
      <4> QED BY <1>2, <2>2, <4>1
    <3>5. SubSeq(s, 1, k) = s
      OBVIOUS
    <3> QED BY <2>3, <3>4, <3>5
  <2>7. k # 0
    BY <1>2, <2>2
  <2> QED BY <2>2, <2>4, <2>5, <2>6, <2>7 DEF t, k
<1> QED BY <1>4, <1>5

\* The prompt keeps its limit, and the packer's sum is right.
LEMMA BudgetHolds ==
  ASSUME job.kind = "prompt" => PromptJob(job.fixed, job.passages, job.drift)
  PROVE  PromptBudget
<1>1. SUFFICES ASSUME job.kind = "prompt",
                      NEW fixed, fixed = job.fixed, NEW ps, ps = job.passages,
                      NEW drift, drift = job.drift
      PROVE  LET kept == BuildSystemPrompt(fixed, ps, drift)
                 none == [n \in DOMAIN drift |-> 0]
             IN /\ kept # <<>> =>
                     PromptTokens(fixed, kept, Len(kept), drift) <= MaxPromptTokens
                /\ BuildSystemPrompt(fixed, ps, none) = PackedPassages(fixed, ps)
  BY DEF PromptBudget
<1>2. fixed \in Nat /\ Passages(ps) /\ drift \in [1 .. MaxChunks -> Int]
  BY <1>1 DEF PromptJob
<1> DEFINE s == PackedPassages(fixed, ps)
           none == [n \in DOMAIN drift |-> 0]
           k == Len(s)
<1>3. /\ s \in Seq(Nat) /\ k \in Nat /\ k <= Smaller(MaxChunks, Len(ps))
      /\ k > 0 => fixed + Tok(s, k) <= MaxPromptTokens
  BY <1>2, PackedFits
<1>4. \A n \in 1 .. MaxChunks : none[n] = 0 /\ none[n] \in Int
  BY <1>2
<1> HIDE DEF s, none, k
<1>5. k <= MaxChunks
  <2>1. Len(ps) \in Nat
    BY <1>2, Wholes
  <2> QED BY <1>3, <2>1, Sep DEF Smaller
<1>6. LET kept == BuildSystemPrompt(fixed, ps, drift) IN
      kept # <<>> => PromptTokens(fixed, kept, Len(kept), drift) <= MaxPromptTokens
  <2>1. \A n \in 1 .. MaxChunks : drift[n] \in Int
    BY <1>2
  <2> QED BY <1>2, <1>3, <1>5, <2>1, Trimmed DEF BuildSystemPrompt, s, k
<1>7. BuildSystemPrompt(fixed, ps, none) = s
  <2>1. BuildSystemPrompt(fixed, ps, none) = Trim(fixed, s, none)
    BY DEF BuildSystemPrompt, s
  <2>2. k > 0 => fixed + Tok(s, k) + none[k] <= MaxPromptTokens
    <3>1. ASSUME k > 0 PROVE fixed + Tok(s, k) + none[k] <= MaxPromptTokens
      <4>1. none[k] = 0
        BY <1>3, <1>4, <1>5, <3>1, Sep
      <4>2. \A i \in 1 .. k : s[i] \in Nat
        BY <1>3 DEF k
      <4>3. Tok(s, k) \in Int
        BY <1>3, <4>2, TokNat DEF Lengths
      <4> QED BY <1>2, <1>3, <3>1, <4>1, <4>3
    <3> QED BY <3>1
  <2>3. k = 0 \/ k > 0
    BY <1>3
  <2> QED BY <1>2, <1>3, <1>4, <1>5, <2>1, <2>2, <2>3, Trimmed DEF k
<1> QED BY <1>6, <1>7 DEF s, none

\* Passages are whole but for the last, and left out for room alone.
LEMMA PassagesKept ==
  ASSUME job.kind = "prompt" => PromptJob(job.fixed, job.passages, job.drift)
  PROVE  PassagesWhole
<1> DEFINE cost(fixed, ps, n) ==
             PromptTokens(fixed, [i \in 1 .. n |-> ps[i].len], n, [i \in 1 .. n |-> 0])
<1>1. SUFFICES ASSUME job.kind = "prompt",
                      NEW fixed, fixed = job.fixed, NEW ps, ps = job.passages
      PROVE  LET kept == PackedPassages(fixed, ps)
                 last == Len(kept)
             IN /\ last <= Smaller(MaxChunks, Len(ps))
                /\ \A i \in 1 .. last - 1 : kept[i] = ps[i].len
                /\ last > 0 /\ kept[last] # ps[last].len =>
                     /\ kept[last] \in ps[last].sentences \cup ps[last].words
                     /\ cost(fixed, ps, last) > MaxPromptTokens
                /\ last < Smaller(MaxChunks, Len(ps)) =>
                     cost(fixed, ps, last + 1) > MaxPromptTokens
  BY DEF PassagesWhole
<1>2. fixed \in Nat /\ Passages(ps)
  BY <1>1 DEF PromptJob
<1>3. ASSUME NEW n \in 1 .. Len(ps) PROVE cost(fixed, ps, n) = fixed + Tok(WholeLengths(ps), n)
  <2> DEFINE t == [i \in 1 .. n |-> ps[i].len]
             none == [i \in 1 .. n |-> 0]
  <2>1. /\ n \in Nat \ {0} /\ Len(ps) \in Nat
        /\ \A i \in 1 .. Len(ps) : WholeLengths(ps)[i] = ps[i].len /\ ps[i].len \in Nat
    BY <1>2, Wholes
  <2>2. Lengths(t, n) /\ \A i \in 1 .. n : t[i] = WholeLengths(ps)[i]
    BY <2>1 DEF Lengths
  <2>3. none[n] = 0
    BY <2>1
  <2>4. cost(fixed, ps, n) = PromptTokens(fixed, t, n, none)
    OBVIOUS
  <2> HIDE DEF t, none, cost
  <2>5. PromptTokens(fixed, t, n, none) = fixed + Tok(t, n) + none[n]
    BY <1>2, <2>1, <2>2, <2>3, PromptTokensAre
  <2>6. Tok(t, n) = Tok(WholeLengths(ps), n) /\ Tok(t, n) \in Int
    BY <2>1, <2>2, TokSame, TokNat
  <2> QED BY <1>2, <2>3, <2>4, <2>5, <2>6
<1> DEFINE s == PackedPassages(fixed, ps)
           k == Len(s)
           N == Smaller(MaxChunks, Len(ps))
           w == WholeLengths(ps)
<1>4. /\ k \in Nat /\ k <= N
      /\ \A j \in 1 .. k - 1 : s[j] = ps[j].len
      /\ k > 0 /\ s[k] # ps[k].len => /\ s[k] \in ps[k].sentences \cup ps[k].words
                                      /\ fixed + Tok(w, k) > MaxPromptTokens
      /\ k < N => fixed + Tok(w, k + 1) > MaxPromptTokens
  BY <1>2, PackedFits
<1>5. N \in Nat /\ N <= Len(ps) /\ Len(ps) \in Nat
  BY <1>2, Wholes, Sep DEF Smaller
<1> HIDE DEF s, k, N, w, cost
<1>6. k > 0 => k \in 1 .. Len(ps)
  BY <1>4, <1>5
<1>7. k < N => k + 1 \in 1 .. Len(ps)
  BY <1>4, <1>5
<1>8. k > 0 /\ s[k] # ps[k].len => cost(fixed, ps, k) > MaxPromptTokens
  BY <1>3, <1>4, <1>6 DEF w
<1>9. k < N => cost(fixed, ps, k + 1) > MaxPromptTokens
  BY <1>3, <1>4, <1>7 DEF w
<1> QED BY <1>4, <1>8, <1>9 DEF s, k, N

-----------------------------------------------------------------------------
(* The vocabulary. *)


\* Terms of at least a quarter of a sum are four at most.
LEMMA FewLarge ==
  ASSUME NEW S, IsFiniteSet(S), NEW f, Numbers(f, S), NEW k \in Nat \ {0}, Sum(f, S) <= k,
         NEW T \in SUBSET S, \A x \in T : k <= 4 * f[x]
  PROVE  Cardinality(T) <= 4
<1> DEFINE G == {U \in SUBSET T : k * Cardinality(U) + 4 * Sum(f, S \ U) <= 4 * Sum(f, S)}
<1>1. /\ IsFiniteSet(T)
      /\ \A U \in SUBSET T : /\ IsFiniteSet(U) /\ Cardinality(U) \in Nat
                             /\ S \ U \in SUBSET S /\ Sum(f, S \ U) \in Nat
  <2>1. IsFiniteSet(T)
    BY FS_Subset
  <2>2. \A U \in SUBSET S : Sum(f, U) \in Nat
    BY SumNat DEF Numbers
  <2> QED BY <2>1, <2>2, FS_Subset, FS_CardinalityType
<1>2. Sum(f, S) \in Nat
  BY SumNat DEF Numbers
<1>3. ASSUME NEW U \in SUBSET T, \A x \in U : U \ {x} \in G PROVE U \in G
  <2>1. CASE U = {}
    <3>1. Cardinality(U) = 0 /\ S \ U = S
      BY <2>1, FS_EmptySet
    <3> DEFINE s == Sum(f, S)
    <3>2. k * 0 + 4 * s <= 4 * s
      <4>1. s \in Nat
        BY <1>2
      <4> HIDE DEF s
      <4> QED BY <4>1
    <3> QED BY <2>1, <3>1, <3>2
  <2>2. CASE U # {}
    <3>1. PICK x \in U : TRUE
      BY <2>2
    <3> DEFINE R == U \ {x}
               a == Sum(f, S \ U)
               b == Sum(f, S \ R)
               c == Cardinality(R)
    <3>2. b = f[x] + a
      <4>1. S \ R \in SUBSET S /\ x \in S \ R /\ (S \ R) \ {x} = S \ U
        BY <3>1
      <4>2. Sum(f, S \ R) = f[x] + Sum(f, (S \ R) \ {x})
        BY <4>1, SumTake DEF Numbers
      <4> QED BY <4>1, <4>2
    <3>3. Cardinality(U) = c + 1
      <4>1. IsFiniteSet(U) /\ Cardinality(U) \in Nat
        BY <1>1
      <4>2. Cardinality(U \ {x}) = Cardinality(U) - 1
        BY <4>1, FS_RemoveElement
      <4> QED BY <4>1, <4>2
    <3>4. k * c + 4 * b <= 4 * Sum(f, S)
      BY <1>3, <3>1
    <3>5. /\ a \in Nat /\ b \in Nat /\ c \in Nat /\ f[x] \in Nat /\ k <= 4 * f[x]
      <4>1. R \in SUBSET T /\ x \in T /\ x \in S
        BY <3>1
      <4>2. f[x] \in Nat /\ k <= 4 * f[x]
        BY <4>1 DEF Numbers
      <4> QED BY <1>1, <4>1, <4>2
    <3> DEFINE d == f[x]
               s == Sum(f, S)
    <3>6. d \in Nat /\ k <= 4 * d /\ b = d + a /\ s \in Nat /\ k * c + 4 * b <= 4 * s
      BY <1>2, <3>2, <3>4, <3>5
    <3> HIDE DEF a, b, c, d, s
    <3>7. k * (c + 1) = k * c + k /\ k * c \in Nat
      BY <3>5
    <3>8. k * (c + 1) + 4 * a <= 4 * s
      BY <3>5, <3>6, <3>7
    <3> QED BY <3>3, <3>8 DEF a, s
  <2> QED BY <2>1, <2>2
<1>4. T \in G
  <2> HIDE DEF G
  <2>1. SUBSET T \subseteq G
    BY <1>1, <1>3, BySize
  <2> QED BY <2>1
<1> DEFINE n == Cardinality(T)
           r == Sum(f, S \ T)
           s == Sum(f, S)
<1>5. n \in Nat /\ r \in Nat /\ s \in Nat /\ s <= k /\ k * n + 4 * r <= 4 * s
  BY <1>1, <1>2, <1>4
<1> HIDE DEF n, r, s, G
<1>6. k * n <= k * 4
  <2>1. k * n \in Nat
    BY <1>5
  <2> QED BY <1>5, <2>1
<1>7. n <= 4
  BY <1>5, <1>6, Cancels
<1> QED BY <1>7 DEF n

\* Fractions of positive numbers are ordered.
Fraction == (Nat \ {0}) \X (Nat \ {0})

LEMMA MoreThan ==
  ASSUME NEW u \in Fraction, NEW m \in Fraction, NEW x \in Fraction,
         ~More(u, m), More(x, m)
  PROVE  ~More(u, x)
<1> DEFINE a == u[1] b == u[2] c == m[1] d == m[2] e == x[1] f == x[2]
<1>1. /\ a \in Nat \ {0} /\ b \in Nat \ {0} /\ c \in Nat \ {0} /\ d \in Nat \ {0}
      /\ e \in Nat \ {0} /\ f \in Nat \ {0}
  BY DEF Fraction
<1>2. a * d \in Nat /\ c * b \in Nat /\ a * d <= c * b
  BY <1>1 DEF More
<1>3. e * d \in Nat /\ c * f \in Nat /\ c * f <= e * d
  BY <1>1 DEF More
<1> HIDE DEF a, b, c, d, e, f
<1>4. \A p, q, n \in Nat : p <= q => p * n <= q * n
  <2>1. SUFFICES ASSUME NEW p \in Nat, NEW q \in Nat, NEW n \in Nat, p <= q
        PROVE  p * n <= q * n
    OBVIOUS
  <2> DEFINE g == q - p
  <2>2. g \in Nat /\ q = p + g
    BY <2>1
  <2> HIDE DEF g
  <2>3. q * n = p * n + g * n /\ g * n \in Nat /\ p * n \in Nat
    BY <2>2
  <2> QED BY <2>3
<1>5. (a * d) * f <= (c * b) * f
  BY <1>1, <1>2, <1>4
<1>6. (c * f) * b <= (e * d) * b
  BY <1>1, <1>3, <1>4
<1>7. /\ (a * d) * f = d * (a * f) /\ (e * d) * b = d * (e * b)
      /\ (c * b) * f = (c * f) * b
  BY <1>1
<1>8. d * (a * f) <= d * (e * b)
  <2>1. a * f \in Nat /\ e * b \in Nat
    BY <1>1
  <2>2. d * (a * f) \in Nat /\ d * (e * b) \in Nat /\ (c * b) * f \in Nat
    BY <1>1, <2>1, <1>2
  <2> QED BY <1>5, <1>6, <1>7, <2>2
<1>9. a * f \in Int /\ e * b \in Int
  BY <1>1
<1>10. a * f <= e * b
  BY <1>1, <1>8, <1>9, Cancels
<1> QED BY <1>9, <1>10 DEF More, a, b, e, f

\* Two words' odds ratios.
Ratios(a, o, t) == OddsRatio(a, o, t) \in Fraction

\* Among finitely many terms one has the greatest odds ratio.
LEMMA BestTerm ==
  ASSUME NEW S, IsFiniteSet(S), NEW a, NEW o, \A t \in S : Ratios(a, o, t)
  PROVE  \A T \in SUBSET S : T # {} =>
           \E m \in T : \A u \in T : ~More(OddsRatio(a, o, u), OddsRatio(a, o, m))
<1> DEFINE R(t) == OddsRatio(a, o, t)
           Best(m, T) == \A u \in T : ~More(R(u), R(m))
           G == {T \in SUBSET S : T # {} => \E m \in T : Best(m, T)}
<1>1. \A t \in S : R(t) \in Fraction
  BY DEF Ratios
<1>2. \A r \in Fraction : ~More(r, r)
  BY DEF Fraction, More
<1>3. ASSUME NEW T \in SUBSET S, \A x \in T : T \ {x} \in G, NEW x \in T
      PROVE  \E m \in T : Best(m, T)
  <2>1. CASE T \ {x} = {}
    <3>1. T = {x}
      BY <2>1
    <3>2. ~More(R(x), R(x))
      BY <1>1, <1>2
    <3> HIDE DEF R
    <3> QED BY <3>1, <3>2
  <2>2. CASE T \ {x} # {}
    <3>1. PICK m \in T \ {x} : Best(m, T \ {x})
      BY <1>3, <2>2
    <3>2. CASE More(R(x), R(m))
      <4>1. ASSUME NEW u \in T PROVE ~More(R(u), R(x))
        <5>1. CASE u = x
          BY <1>1, <1>2, <5>1
        <5>2. CASE u # x
          <6>1. ~More(R(u), R(m))
            BY <3>1, <5>2
          <6>2. R(u) \in Fraction /\ R(m) \in Fraction /\ R(x) \in Fraction
            BY <1>1
          <6> HIDE DEF R
          <6> QED BY <3>2, <6>1, <6>2, MoreThan
        <5> QED BY <5>1, <5>2
      <4> QED BY <4>1
    <3>3. CASE ~More(R(x), R(m))
      <4>1. ASSUME NEW u \in T PROVE ~More(R(u), R(m))
        <5> HIDE DEF R
        <5> QED BY <3>1, <3>3
      <4>2. m \in T
        OBVIOUS
      <4> QED BY <4>1, <4>2
    <3> QED BY <3>2, <3>3
  <2> QED BY <2>1, <2>2
<1>4. ASSUME NEW T \in SUBSET S, \A x \in T : T \ {x} \in G PROVE T \in G
  BY <1>3, <1>4
<1>5. SUBSET S \subseteq G
  <2> HIDE DEF G
  <2> QED BY <1>4, BySize
<1> QED BY <1>5

\* So there are the n best of them.
LEMMA BestTerms ==
  ASSUME NEW S, IsFiniteSet(S), NEW a, NEW o, \A t \in S : Ratios(a, o, t),
         NEW n \in 0 .. Cardinality(S)
  PROVE  \E best \in SUBSET S :
           /\ Cardinality(best) = n
           /\ \A t \in best : \A u \in S \ best : ~More(OddsRatio(a, o, u), OddsRatio(a, o, t))
<1> DEFINE R(t) == OddsRatio(a, o, t)
           Ahead(best) == \A t \in best : \A u \in S \ best : ~More(R(u), R(t))
           Q == {i \in 0 .. n : \E best \in SUBSET S : Cardinality(best) = i /\ Ahead(best)}
<1>1. Cardinality(S) \in Nat /\ n \in Nat
  BY FS_CardinalityType
<1>2. 0 \in Q
  <2>1. {} \in SUBSET S /\ Cardinality({}) = 0 /\ Ahead({})
    BY FS_EmptySet
  <2> HIDE DEF Ahead
  <2> QED BY <1>1, <2>1
<1>3. ASSUME NEW i \in 0 .. n - 1, i \in Q PROVE i + 1 \in Q
  <2>1. PICK best \in SUBSET S : Cardinality(best) = i /\ Ahead(best)
    BY <1>3
  <2>2. S \ best # {}
    <3>1. best # S
      BY <1>1, <2>1
    <3> QED BY <3>1
  <2>3. PICK m \in S \ best : \A u \in S \ best : ~More(R(u), R(m))
    <3>1. S \ best \in SUBSET S
      OBVIOUS
    <3> QED BY <2>2, <3>1, BestTerm
  <2> DEFINE next == best \cup {m}
  <2>4. Cardinality(next) = i + 1
    <3>1. IsFiniteSet(best) /\ m \notin best
      BY FS_Subset
    <3> QED BY <2>1, <3>1, FS_AddElement
  <2>5. Ahead(next)
    <3>1. SUFFICES ASSUME NEW t \in next, NEW u \in S \ next PROVE ~More(R(u), R(t))
      OBVIOUS
    <3>2. u \in S \ best
      OBVIOUS
    <3> HIDE DEF R
    <3> QED BY <2>1, <2>3, <3>2
  <2>6. next \in SUBSET S /\ i + 1 \in 0 .. n
    BY <1>1
  <2> HIDE DEF next, Ahead
  <2> QED BY <2>4, <2>5, <2>6
<1>4. 0 .. n \subseteq Q
  <2> HIDE DEF Q
  <2> QED BY <1>1, <1>2, <1>3, UpTo
<1>5. n \in Q
  <2>1. n \in 0 .. n
    BY <1>1
  <2> HIDE DEF Q
  <2> QED BY <1>4, <2>1
<1> QED BY <1>5

\* The counts of an author's terms and of the others'.
VocabularyJob(a, o, n) ==
  /\ IsFiniteSet(DOMAIN a) /\ a \in [DOMAIN a -> Nat] /\ o \in [DOMAIN a -> Nat]
  /\ n \in Nat

LEMMA TokensNat ==
  ASSUME NEW c, IsFiniteSet(DOMAIN c), c \in [DOMAIN c -> Nat]
  PROVE  /\ Tokens(c) \in Nat \ {0} /\ Sum(c, DOMAIN c) <= Tokens(c)
         /\ \A t \in DOMAIN c : c[t] \in Nat /\ c[t] <= Tokens(c)
         /\ (\A t \in DOMAIN c : c[t] = 0) => Tokens(c) = 1
<1> DEFINE D == DOMAIN c
           s == Sum(c, D)
<1>1. Numbers(c, D) /\ \A t \in D : c[t] \in Nat
  BY DEF Numbers
<1>2. s \in Nat /\ (\A t \in D : c[t] <= s) /\ ((\A t \in D : c[t] = 0) => s = 0)
  BY <1>1, SumOver
<1>3. Tokens(c) = IF s = 0 THEN 1 ELSE s
  BY DEF Tokens, AtLeastOne
<1> HIDE DEF s
<1> QED BY <1>1, <1>2, <1>3 DEF s

\* The odds of a term are a fraction.
LEMMA OddsAre ==
  ASSUME NEW c, IsFiniteSet(DOMAIN c), c \in [DOMAIN c -> Nat], NEW t \in DOMAIN c
  PROVE  /\ Odds(c, t) \in Fraction
         /\ Odds(c, t)[1] = 2 * c[t] + 1 /\ Odds(c, t)[2] = 2 * (Tokens(c) - c[t]) + 1
<1>1. Tokens(c) \in Nat /\ c[t] \in Nat /\ c[t] <= Tokens(c)
  BY TokensNat
<1>2. 2 * c[t] + 1 \in Nat \ {0} /\ 2 * (Tokens(c) - c[t]) + 1 \in Nat \ {0}
  BY <1>1
<1> QED BY <1>2 DEF Odds, Fraction

LEMMA RatioIs ==
  ASSUME NEW a, NEW o, NEW n, VocabularyJob(a, o, n), NEW t \in DOMAIN a
  PROVE  /\ Ratios(a, o, t)
         /\ OddsRatio(a, o, t)[1] = Odds(a, t)[1] * Odds(o, t)[2]
         /\ OddsRatio(a, o, t)[2] = Odds(a, t)[2] * Odds(o, t)[1]
<1>1. Odds(a, t) \in Fraction /\ Odds(o, t) \in Fraction
  BY OddsAre DEF VocabularyJob
<1>2. \A x, y \in Nat \ {0} : x * y \in Nat \ {0}
  <2>1. SUFFICES ASSUME NEW x \in Nat \ {0}, NEW y \in Nat \ {0} PROVE x * y \in Nat \ {0}
    OBVIOUS
  <2> DEFINE z == x - 1
  <2>2. z \in Nat /\ x * y = z * y + y /\ z * y \in Nat
    BY <2>1
  <2> QED BY <2>2
<1>3. /\ Odds(a, t)[1] * Odds(o, t)[2] \in Nat \ {0}
      /\ Odds(a, t)[2] * Odds(o, t)[1] \in Nat \ {0}
  BY <1>1, <1>2 DEF Fraction
<1> QED BY <1>3 DEF OddsRatio, Fraction, Ratios

\* A positive score, in numbers.
LEMMA Positive ==
  ASSUME NEW a, NEW o, NEW n, VocabularyJob(a, o, n), NEW t \in Characteristic(a, o)
  PROVE  /\ t \in DOMAIN a /\ t \notin StopWords /\ a[t] > 0
         /\ Odds(a, t)[1] * Odds(o, t)[2] > Odds(a, t)[2] * Odds(o, t)[1]
<1>1. /\ t \in DOMAIN a /\ a[t] > 0 /\ t \notin StopWords
      /\ More(OddsRatio(a, o, t), <<1, 1>>)
  BY DEF Characteristic
<1> DEFINE r == OddsRatio(a, o, t)
<1>2. r[1] \in Nat /\ r[2] \in Nat
  BY <1>1, RatioIs DEF Fraction, Ratios
<1>3. r[1] > r[2]
  <2>1. r[1] * 1 > 1 * r[2]
    BY <1>1 DEF More
  <2> HIDE DEF r
  <2> QED BY <1>2, <2>1
<1> QED BY <1>1, <1>3, RatioIs

LEMMA Listed ==
  ASSUME NEW a, NEW o, NEW n, VocabularyJob(a, o, n)
  PROVE  DistinctiveVocab(a, o, n) \in SUBSET Characteristic(a, o)
<1> DEFINE terms == Characteristic(a, o)
           most == IF n < Cardinality(terms) THEN n ELSE Cardinality(terms)
<1>1. terms \subseteq DOMAIN a
  BY DEF Characteristic
<1>2. IsFiniteSet(terms) /\ Cardinality(terms) \in Nat /\ most \in 0 .. Cardinality(terms)
  <2>1. IsFiniteSet(terms)
    BY <1>1, FS_Subset DEF VocabularyJob
  <2> HIDE DEF terms
  <2>2. Cardinality(terms) \in Nat
    BY <2>1, FS_CardinalityType
  <2> QED BY <2>1, <2>2 DEF VocabularyJob
<1>3. \A t \in terms : Ratios(a, o, t)
  BY <1>1, RatioIs
<1> HIDE DEF terms, most
<1>4. \E best \in SUBSET terms :
        /\ Cardinality(best) = most
        /\ \A t \in best : \A u \in terms \ best : ~More(OddsRatio(a, o, u), OddsRatio(a, o, t))
  BY <1>2, <1>3, BestTerms
<1> QED BY <1>4 DEF DistinctiveVocab, terms, most

\* A term with a positive score is used more, between corpora of one length.
LEMMA UsedMore ==
  ASSUME NEW T \in Nat, NEW x \in 0 .. T, NEW y \in 0 .. T,
         (2 * x + 1) * (2 * (T - y) + 1) > (2 * (T - x) + 1) * (2 * y + 1)
  PROVE  x > y
<1>1. SUFFICES ASSUME x <= y PROVE FALSE
  OBVIOUS
<1> DEFINE a == 2 * x + 1
           b == 2 * y + 1
           p == 2 * (T - x) + 1
           q == 2 * (T - y) + 1
           g == b - a
           h == p - q
<1>2. /\ a \in Nat /\ b \in Nat /\ p \in Nat /\ q \in Nat /\ g \in Nat /\ h \in Nat
      /\ b = a + g /\ p = q + h
  BY <1>1
<1>3. a * q > p * b
  OBVIOUS
<1> HIDE DEF a, b, p, q, g, h
<1>4. p * b = a * q + (q * g + h * b)
  <2>1. p * b = q * b + h * b
    BY <1>2
  <2>2. q * b = a * q + q * g
    BY <1>2
  <2> QED BY <1>2, <2>1, <2>2
<1>5. a * q \in Nat /\ q * g \in Nat /\ h * b \in Nat
  BY <1>2
<1> QED BY <1>3, <1>4, <1>5

\* Against no corpus at all a term with a positive score has a quarter of the tokens.
LEMMA Quarter ==
  ASSUME NEW a, NEW o, NEW n, VocabularyJob(a, o, n), \A t \in DOMAIN o : o[t] = 0,
         NEW t \in Characteristic(a, o)
  PROVE  Tokens(a) <= 4 * a[t]
<1>1. t \in DOMAIN a /\ t \in DOMAIN o
  BY Positive DEF VocabularyJob
<1>2. Tokens(o) = 1 /\ o[t] = 0
  BY <1>1, TokensNat DEF VocabularyJob
<1>3. Odds(o, t)[1] = 1 /\ Odds(o, t)[2] = 3
  BY <1>2 DEF Odds
<1> DEFINE x == a[t]
           T == Tokens(a)
<1>4. /\ x \in Nat /\ T \in Nat
      /\ Odds(a, t)[1] = 2 * x + 1 /\ Odds(a, t)[2] = 2 * (T - x) + 1
  BY <1>1, TokensNat, OddsAre DEF VocabularyJob
<1>5. Odds(a, t)[1] * Odds(o, t)[2] > Odds(a, t)[2] * Odds(o, t)[1]
  BY Positive
<1>6. (2 * x + 1) * 3 > (2 * (T - x) + 1) * 1
  BY <1>3, <1>4, <1>5
<1> HIDE DEF x, T
<1>7. T <= 4 * x
  BY <1>4, <1>6
<1> QED BY <1>7 DEF x, T

LEMMA VocabularyKept ==
  ASSUME job.kind = "vocabulary" => VocabularyJob(job.author, job.others, job.n)
  PROVE  VocabularyDistinctive
<1>1. SUFFICES ASSUME job.kind = "vocabulary", NEW a, a = job.author, NEW o, o = job.others,
                      NEW mine, mine = DistinctiveVocab(a, o, job.n),
                      NEW theirs, theirs = DistinctiveVocab(o, a, job.n)
      PROVE  /\ mine \cap (theirs \cup StopWords) = {}
             /\ \A t \in mine : a[t] > 0
             /\ Tokens(a) = Tokens(o) => \A t \in mine : a[t] > o[t]
             /\ (\A t \in DOMAIN o : o[t] = 0) => Cardinality(mine) <= 4
  BY DEF VocabularyDistinctive
<1>2. VocabularyJob(a, o, job.n) /\ VocabularyJob(o, a, job.n)
  BY <1>1 DEF VocabularyJob
<1>3. mine \in SUBSET Characteristic(a, o) /\ theirs \in SUBSET Characteristic(o, a)
  BY <1>1, <1>2, Listed
<1>4. \A t \in mine : /\ t \in DOMAIN a /\ t \notin StopWords /\ a[t] > 0
                      /\ Odds(a, t)[1] * Odds(o, t)[2] > Odds(a, t)[2] * Odds(o, t)[1]
  BY <1>2, <1>3, Positive
<1>5. \A t \in theirs : Odds(o, t)[1] * Odds(a, t)[2] > Odds(o, t)[2] * Odds(a, t)[1]
  BY <1>2, <1>3, Positive
<1>6. \A t \in DOMAIN a : /\ Odds(a, t) \in Fraction /\ Odds(o, t) \in Fraction
                          /\ Tokens(a) \in Nat /\ a[t] \in 0 .. Tokens(a)
                          /\ Tokens(o) \in Nat /\ o[t] \in 0 .. Tokens(o)
                          /\ Odds(a, t)[1] = 2 * a[t] + 1
                          /\ Odds(a, t)[2] = 2 * (Tokens(a) - a[t]) + 1
                          /\ Odds(o, t)[1] = 2 * o[t] + 1
                          /\ Odds(o, t)[2] = 2 * (Tokens(o) - o[t]) + 1
  <2>1. DOMAIN o = DOMAIN a
    BY <1>2 DEF VocabularyJob
  <2> QED BY <1>2, <2>1, TokensNat, OddsAre DEF VocabularyJob
<1>7. ASSUME NEW t \in mine, t \in theirs PROVE FALSE
  <2> DEFINE p == Odds(a, t)[1] q == Odds(a, t)[2] r == Odds(o, t)[1] s == Odds(o, t)[2]
  <2>1. p \in Nat /\ q \in Nat /\ r \in Nat /\ s \in Nat
    BY <1>4, <1>6 DEF Fraction
  <2>2. p * s > q * r /\ r * q > s * p
    BY <1>4, <1>5, <1>7
  <2> HIDE DEF p, q, r, s
  <2>3. p * s = s * p /\ q * r = r * q /\ p * s \in Nat /\ q * r \in Nat
    BY <2>1
  <2> QED BY <2>2, <2>3
<1>8. ASSUME Tokens(a) = Tokens(o), NEW t \in mine PROVE a[t] > o[t]
  <2> DEFINE T == Tokens(a) x == a[t] y == o[t]
  <2>1. T \in Nat /\ x \in 0 .. T /\ y \in 0 .. T
    BY <1>4, <1>6, <1>8
  <2>2. (2 * x + 1) * (2 * (T - y) + 1) > (2 * (T - x) + 1) * (2 * y + 1)
    BY <1>4, <1>6, <1>8
  <2> HIDE DEF T, x, y
  <2>3. x > y
    BY <2>1, <2>2, UsedMore
  <2> QED BY <2>3 DEF x, y
<1>9. ASSUME \A t \in DOMAIN o : o[t] = 0 PROVE Cardinality(mine) <= 4
  <2>1. \A t \in mine : Tokens(a) <= 4 * a[t]
    BY <1>2, <1>3, <1>9, Quarter
  <2>2. /\ IsFiniteSet(DOMAIN a) /\ mine \in SUBSET DOMAIN a /\ Numbers(a, DOMAIN a)
        /\ Tokens(a) \in Nat \ {0} /\ Sum(a, DOMAIN a) <= Tokens(a)
    BY <1>2, <1>4, TokensNat DEF VocabularyJob, Numbers
  <2> QED BY <2>1, <2>2, FewLarge
<1> QED BY <1>4, <1>7, <1>8, <1>9

-----------------------------------------------------------------------------
(* Cleaning. *)

\* A step that drops the letters of C, as Without does, and the third in a row of those of B,
\* as CollapseBlank does.
Kept(s, c, C, B) ==
  IF c \in C \/ (c \in B /\ IsSuffix(<<c, c>>, s)) THEN s ELSE Append(s, c)

\* h folds such steps over every set of positions of a text of n letters.
Folds(h, t, n, C, B) ==
  h = [T \in SUBSET (1 .. n) |->
         IF T = {} THEN <<>> ELSE Kept(h[T \ {Max(T)}], t[Max(T)], C, B)]

LEMMA LastOf ==
  ASSUME NEW n \in Nat, NEW T \in SUBSET (1 .. n), T # {}
  PROVE  Max(T) \in T /\ Max(T) \in 1 .. n /\ T \ {Max(T)} \in SUBSET (1 .. n - 1)
<1>1. T \in SUBSET (0 .. n)
  OBVIOUS
<1>2. Max(T) \in T /\ \A x \in T : x <= Max(T)
  BY <1>1, LastIn
<1> DEFINE m == Max(T)
<1> HIDE DEF m
<1>3. m \in T /\ (\A x \in T : x <= m)
  BY <1>2 DEF m
<1>4. \A x \in T \ {m} : x \in 1 .. n - 1
  BY <1>3
<1> QED BY <1>3, <1>4 DEF m

LEMMA FoldsExist ==
  ASSUME NEW n \in Nat, NEW t, NEW C, NEW B
  PROVE  \E h : Folds(h, t, n, C, B)
<1> DEFINE Q == {i \in 0 .. n : \E h : Folds(h, t, i, C, B)}
<1>1. 0 \in Q
  <2> DEFINE g == [T \in SUBSET (1 .. 0) |-> <<>>]
             e == [T \in SUBSET (1 .. 0) |->
                     IF T = {} THEN <<>> ELSE Kept(g[T \ {Max(T)}], t[Max(T)], C, B)]
  <2>1. \A T \in SUBSET (1 .. 0) : T = {}
    OBVIOUS
  <2>2. \A T \in SUBSET (1 .. 0) : e[T] = g[T]
    BY <2>1
  <2>3. g = e
    BY <2>2
  <2>4. Folds(g, t, 0, C, B)
    BY <2>3 DEF Folds
  <2> HIDE DEF g
  <2> QED BY <2>4
<1>2. ASSUME NEW i \in 0 .. n - 1, i \in Q PROVE i + 1 \in Q
  <2>1. PICK h : Folds(h, t, i, C, B)
    BY <1>2
  <2> DEFINE New(f, T) == IF T = {} THEN <<>> ELSE Kept(f[T \ {Max(T)}], t[Max(T)], C, B)
             g == [T \in SUBSET (1 .. i + 1) |-> New(h, T)]
             e == [T \in SUBSET (1 .. i + 1) |-> New(g, T)]
  <2>2. \A T \in SUBSET (1 .. i) : h[T] = New(h, T)
    BY <2>1 DEF Folds
  <2>3. \A T \in SUBSET (1 .. i) : g[T] = h[T]
    <3>1. \A T \in SUBSET (1 .. i) : T \in SUBSET (1 .. i + 1)
      OBVIOUS
    <3> HIDE DEF New
    <3> QED BY <2>2, <3>1
  <2>4. \A T \in SUBSET (1 .. i + 1) : T # {} => T \ {Max(T)} \in SUBSET (1 .. i)
    <3>1. i + 1 \in Nat /\ (i + 1) - 1 = i
      OBVIOUS
    <3> QED BY <3>1, LastOf
  <2>5. \A T \in SUBSET (1 .. i + 1) : New(h, T) = New(g, T)
    <3> HIDE DEF g
    <3> QED BY <2>3, <2>4
  <2>6. g = e
    <3> HIDE DEF New
    <3> QED BY <2>5
  <2>7. Folds(g, t, i + 1, C, B)
    <3> HIDE DEF g
    <3> QED BY <2>6 DEF Folds
  <2>8. i + 1 \in 0 .. n
    OBVIOUS
  <2> HIDE DEF g
  <2> QED BY <2>7, <2>8
<1>3. 0 .. n \subseteq Q
  <2> HIDE DEF Q
  <2> QED BY <1>1, <1>2, UpTo
<1>4. n \in Q
  <2> HIDE DEF Q
  <2> QED BY <1>3
<1> QED BY <1>4

\* g is what such a fold has made of every prefix.
Runs(g, t, C, B) ==
  g[0] = <<>> /\ \A i \in 1 .. Len(t) : g[i] = Kept(g[i - 1], t[i], C, B)

LEMMA FoldRuns ==
  ASSUME NEW A, NEW t \in Seq(A), NEW C, NEW B, NEW h, Folds(h, t, Len(t), C, B)
  PROVE  \E g : Runs(g, t, C, B) /\ g[Len(t)] = h[DOMAIN t]
<1> DEFINE n == Len(t)
           g == [i \in 0 .. n |-> h[1 .. i]]
<1>1. n \in Nat /\ DOMAIN t = 1 .. n
  OBVIOUS
<1>2. \A T \in SUBSET (1 .. n) :
        h[T] = IF T = {} THEN <<>> ELSE Kept(h[T \ {Max(T)}], t[Max(T)], C, B)
  BY DEF Folds
<1> HIDE DEF n
<1>3. g[0] = <<>>
  <2>1. 1 .. 0 = {} /\ {} \in SUBSET (1 .. n)
    OBVIOUS
  <2>2. h[{}] = <<>>
    BY <1>2
  <2> QED BY <1>1, <2>1, <2>2
<1>4. ASSUME NEW i \in 1 .. n PROVE g[i] = Kept(g[i - 1], t[i], C, B)
  <2> DEFINE T == 1 .. i
  <2>1. T \in SUBSET (1 .. n) /\ T # {} /\ i \in T /\ i \in Nat
    <3>1. i \in Nat /\ i \in T
      BY <1>1
    <3>2. \A x \in T : x \in 1 .. n
      BY <1>1
    <3> HIDE DEF T
    <3> QED BY <3>1, <3>2
  <2>2. Max(T) \in T /\ \A x \in T : x <= Max(T)
    <3>1. T \in SUBSET (0 .. n)
      BY <2>1
    <3> QED BY <1>1, <2>1, <3>1, LastIn
  <2>3. Max(T) = i
    <3> DEFINE m == Max(T)
    <3>1. m \in T /\ i <= m
      BY <2>1, <2>2
    <3> HIDE DEF m
    <3>2. m = i
      BY <3>1
    <3> QED BY <3>2 DEF m
  <2>4. T \ {i} = 1 .. i - 1
    OBVIOUS
  <2>5. h[T] = Kept(h[T \ {Max(T)}], t[Max(T)], C, B)
    BY <1>2, <2>1
  <2>6. i \in 0 .. n /\ i - 1 \in 0 .. n
    BY <1>1
  <2>7. g[i] = h[T] /\ g[i - 1] = h[1 .. i - 1]
    BY <2>6
  <2> HIDE DEF T, g
  <2> QED BY <2>3, <2>4, <2>5, <2>7
<1>5. g[n] = h[DOMAIN t]
  BY <1>1
<1> HIDE DEF g
<1> QED BY <1>3, <1>4, <1>5 DEF Runs, n

LEMMA WithoutRuns ==
  ASSUME NEW A, NEW t \in Seq(A), NEW C
  PROVE  \E g : Runs(g, t, C, {}) /\ g[Len(t)] = Without(t, C)
<1> DEFINE Fits(h) == h = [T \in SUBSET (DOMAIN t) |->
                             IF T = {} THEN <<>>
                             ELSE IF t[Max(T)] \in C THEN h[T \ {Max(T)}]
                                  ELSE Append(h[T \ {Max(T)}], t[Max(T)])]
           h == CHOOSE f : Fits(f)
<1>1. Without(t, C) = h[DOMAIN t]
  BY DEF Without, FoldLeft, MapThenFoldSet
<1>2. DOMAIN t = 1 .. Len(t) /\ Len(t) \in Nat
  OBVIOUS
<1>3. \A f : Fits(f) <=> Folds(f, t, Len(t), C, {})
  BY <1>2 DEF Folds, Kept
<1>4. \E f : Fits(f)
  BY <1>2, <1>3, FoldsExist
<1>5. Fits(h)
  <2> HIDE DEF Fits
  <2> QED BY <1>4
<1> HIDE DEF h, Fits
<1>6. Folds(h, t, Len(t), C, {})
  BY <1>3, <1>5
<1> QED BY <1>1, <1>6, FoldRuns

LEMMA CollapseRuns ==
  ASSUME NEW A, NEW t \in Seq(A)
  PROVE  \E g : Runs(g, t, {}, {"newline"}) /\ g[Len(t)] = CollapseBlank(t)
<1> DEFINE Fits(h) == h = [T \in SUBSET (DOMAIN t) |->
                             IF T = {} THEN <<>>
                             ELSE IF t[Max(T)] = "newline"
                                       /\ IsSuffix(<<t[Max(T)], t[Max(T)]>>, h[T \ {Max(T)}])
                                  THEN h[T \ {Max(T)}]
                                  ELSE Append(h[T \ {Max(T)}], t[Max(T)])]
           h == CHOOSE f : Fits(f)
<1>1. CollapseBlank(t) = h[DOMAIN t]
  BY DEF CollapseBlank, FoldLeft, MapThenFoldSet
<1>2. DOMAIN t = 1 .. Len(t) /\ Len(t) \in Nat
  OBVIOUS
<1>3. \A f : Fits(f) <=> Folds(f, t, Len(t), {}, {"newline"})
  BY <1>2 DEF Folds, Kept
<1>4. \E f : Fits(f)
  BY <1>2, <1>3, FoldsExist
<1>5. Fits(h)
  <2> HIDE DEF Fits
  <2> QED BY <1>4
<1> HIDE DEF h, Fits
<1>6. Folds(h, t, Len(t), {}, {"newline"})
  BY <1>3, <1>5
<1> QED BY <1>1, <1>6, FoldRuns

\* Steps keep what a text is made of.
LEMMA KeptType ==
  ASSUME NEW A, NEW C, NEW B, NEW s \in Seq(A \ C), NEW c \in A
  PROVE  Kept(s, c, C, B) \in Seq(A \ C)
  BY DEF Kept

LEMMA RunsType ==
  ASSUME NEW A, NEW t \in Seq(A), NEW C, NEW B, NEW g, Runs(g, t, C, B)
  PROVE  \A i \in 0 .. Len(t) : g[i] \in Seq(A \ C)
<1> DEFINE n == Len(t)
           Q == {i \in 0 .. n : g[i] \in Seq(A \ C)}
<1>1. n \in Nat /\ \A i \in 1 .. n : t[i] \in A
  OBVIOUS
<1>2. g[0] = <<>> /\ \A i \in 1 .. n : g[i] = Kept(g[i - 1], t[i], C, B)
  BY DEF Runs
<1> HIDE DEF n
<1>3. 0 \in Q
  <2>1. <<>> \in Seq(A \ C)
    OBVIOUS
  <2>2. g[0] \in Seq(A \ C)
    BY <1>2, <2>1, Zenon
  <2>3. 0 \in 0 .. n
    BY <1>1
  <2> QED BY <2>2, <2>3, Zenon
<1>4. ASSUME NEW i \in 0 .. n - 1, i \in Q PROVE i + 1 \in Q
  <2>1. i + 1 \in 1 .. n /\ (i + 1) - 1 = i /\ i + 1 \in 0 .. n
    BY <1>1
  <2>2. g[i + 1] = Kept(g[i], t[i + 1], C, B) /\ t[i + 1] \in A /\ g[i] \in Seq(A \ C)
    BY <1>1, <1>2, <1>4, <2>1
  <2>3. g[i + 1] \in Seq(A \ C)
    BY <2>2, KeptType
  <2> QED BY <2>1, <2>3
<1>5. 0 .. n \subseteq Q
  <2> HIDE DEF Q
  <2> QED BY <1>1, <1>3, <1>4, UpTo
<1> QED BY <1>5 DEF n

\* Two texts that begin alike are folded alike as far.
LEMMA RunsAgree ==
  ASSUME NEW A, NEW s \in Seq(A), NEW t \in Seq(A), NEW C, NEW B,
         NEW f, Runs(f, s, C, B), NEW g, Runs(g, t, C, B),
         NEW n \in Nat, n <= Len(s), n <= Len(t), \A i \in 1 .. n : s[i] = t[i]
  PROVE  f[n] = g[n]
<1> DEFINE Q == {i \in 0 .. n : f[i] = g[i]}
<1>1. /\ f[0] = <<>> /\ \A i \in 1 .. n : f[i] = Kept(f[i - 1], s[i], C, B)
      /\ g[0] = <<>> /\ \A i \in 1 .. n : g[i] = Kept(g[i - 1], t[i], C, B)
  <2>1. Len(s) \in Nat /\ Len(t) \in Nat
    OBVIOUS
  <2>2. 1 .. n \subseteq 1 .. Len(s) /\ 1 .. n \subseteq 1 .. Len(t)
    BY <2>1
  <2> QED BY <2>2 DEF Runs
<1>2. 0 \in Q
  BY <1>1
<1>3. ASSUME NEW i \in 0 .. n - 1, i \in Q PROVE i + 1 \in Q
  <2>1. i + 1 \in 1 .. n /\ (i + 1) - 1 = i /\ i + 1 \in 0 .. n
    OBVIOUS
  <2>2. f[i + 1] = Kept(f[i], s[i + 1], C, B) /\ g[i + 1] = Kept(g[i], t[i + 1], C, B)
    BY <1>1, <2>1
  <2> QED BY <1>3, <2>1, <2>2
<1>4. 0 .. n \subseteq Q
  <2> HIDE DEF Q
  <2> QED BY <1>2, <1>3, UpTo
<1> QED BY <1>4

\* What is made of a text, and of one letter more.
Copy(r, t, C, B) == \E g : Runs(g, t, C, B) /\ g[Len(t)] = r

LEMMA CopyType ==
  ASSUME NEW A, NEW t \in Seq(A), NEW C, NEW B, NEW r, Copy(r, t, C, B)
  PROVE  r \in Seq(A \ C)
<1>1. PICK g : Runs(g, t, C, B) /\ g[Len(t)] = r
  BY DEF Copy
<1>2. Len(t) \in 0 .. Len(t)
  OBVIOUS
<1> QED BY <1>1, <1>2, RunsType

LEMMA CopyEmpty ==
  ASSUME NEW C, NEW B, NEW r, Copy(r, <<>>, C, B)
  PROVE  r = <<>>
<1>1. PICK g : g[0] = <<>> /\ g[Len(<<>>)] = r
  BY Zenon DEF Copy, Runs
<1>2. Len(<<>>) = 0
  OBVIOUS
<1> QED BY <1>1, <1>2, Zenon

LEMMA CopyAppend ==
  ASSUME NEW A, NEW s \in Seq(A), NEW c \in A, NEW C, NEW B,
         NEW r, Copy(r, s, C, B), NEW q, Copy(q, Append(s, c), C, B)
  PROVE  q = Kept(r, c, C, B)
<1> DEFINE t == Append(s, c)
           n == Len(s)
<1>1. /\ t \in Seq(A) /\ n \in Nat /\ Len(t) = n + 1 /\ t[n + 1] = c
      /\ \A i \in 1 .. n : s[i] = t[i]
  OBVIOUS
<1>2. PICK f : Runs(f, s, C, B) /\ f[n] = r
  BY DEF Copy
<1>3. PICK g : Runs(g, t, C, B) /\ g[n + 1] = q
  BY <1>1 DEF Copy
<1> HIDE DEF t
<1>4. f[n] = g[n]
  BY <1>1, <1>2, <1>3, RunsAgree
<1>5. g[n + 1] = Kept(g[n], c, C, B)
  <2>1. n + 1 \in 1 .. Len(t) /\ (n + 1) - 1 = n
    BY <1>1
  <2> QED BY <1>1, <1>3, <2>1 DEF Runs
<1> QED BY <1>2, <1>3, <1>4, <1>5

LEMMA WithoutType ==
  ASSUME NEW A, NEW s \in Seq(A), NEW C
  PROVE  Without(s, C) \in Seq(A \ C) /\ Without(s, C) \in Seq(A)
<1>1. Copy(Without(s, C), s, C, {})
  BY WithoutRuns DEF Copy
<1>2. Without(s, C) \in Seq(A \ C)
  BY <1>1, CopyType
<1> QED BY <1>2

LEMMA WithoutEmpty ==
  ASSUME NEW C
  PROVE  Without(<<>>, C) = <<>>
<1>1. <<>> \in Seq({})
  OBVIOUS
<1>2. Copy(Without(<<>>, C), <<>>, C, {})
  BY <1>1, WithoutRuns, Zenon DEF Copy
<1> QED BY <1>2, CopyEmpty, Zenon

LEMMA WithoutAppend ==
  ASSUME NEW A, NEW s \in Seq(A), NEW c \in A, NEW C
  PROVE  Without(Append(s, c), C) = IF c \in C THEN Without(s, C) ELSE Append(Without(s, C), c)
<1>1. Append(s, c) \in Seq(A)
  OBVIOUS
<1>2. Copy(Without(s, C), s, C, {}) /\ Copy(Without(Append(s, c), C), Append(s, c), C, {})
  BY <1>1, WithoutRuns, Zenon DEF Copy
<1>3. Without(Append(s, c), C) = Kept(Without(s, C), c, C, {})
  BY <1>2, CopyAppend, Zenon
<1> QED BY <1>3 DEF Kept

\* Whether a text ends with two letters c.
EndsTwice(s, c) == Len(s) >= 2 /\ s[Len(s)] = c /\ s[Len(s) - 1] = c

LEMMA Suffix ==
  ASSUME NEW A, NEW s \in Seq(A), NEW c
  PROVE  IsSuffix(<<c, c>>, s) <=> EndsTwice(s, c)
<1> DEFINE n == Len(s)
           u == Reverse(<<c, c>>)
           v == Reverse(s)
<1>1. n \in Nat
  OBVIOUS
<1>2. /\ Len(u) = 2 /\ u[1] = c /\ u[2] = c /\ Len(v) = n
      /\ \A i \in 1 .. n : v[i] = s[(n - i) + 1]
  <2>1. u = [i \in 1 .. 2 |-> c]
    BY DEF Reverse
  <2>2. v = [i \in 1 .. n |-> s[(n - i) + 1]]
    BY DEF Reverse
  <2> HIDE DEF u, v, n
  <2> QED BY <1>1, <2>1, <2>2
<1>3. u \in Seq({c}) /\ v \in Seq(A)
  <2>1. u = [i \in 1 .. 2 |-> c]
    BY DEF Reverse
  <2>2. v = [i \in 1 .. n |-> s[(n - i) + 1]]
    BY DEF Reverse
  <2>3. \A i \in 1 .. n : s[(n - i) + 1] \in A
    <3>1. \A i \in 1 .. n : (n - i) + 1 \in 1 .. Len(s)
      BY <1>1
    <3> QED BY <3>1
  <2> HIDE DEF u, v, n
  <2> QED BY <1>1, <2>1, <2>2, <2>3
<1> HIDE DEF u, v
<1>4. SubSeq(u, 1, Len(u)) = u
  BY <1>3
<1>5. ASSUME 2 <= n PROVE u = SubSeq(v, 1, 2) <=> v[1] = c /\ v[2] = c
  <2> DEFINE w == SubSeq(v, 1, 2)
  <2>1. w \in Seq(A) /\ Len(w) = 2 /\ w[1] = v[1] /\ w[2] = v[2]
    BY <1>1, <1>2, <1>3, <1>5
  <2> HIDE DEF w
  <2>2. ASSUME u[1] = w[1], u[2] = w[2] PROVE u = w
    <3>1. \A i \in 1 .. 2 : u[i] = w[i]
      BY <2>2
    <3>2. u = [i \in 1 .. 2 |-> u[i]] /\ w = [i \in 1 .. 2 |-> w[i]]
      BY <1>2, <1>3, <2>1
    <3> QED BY <3>1, <3>2
  <2> QED BY <1>2, <2>1, <2>2 DEF w
<1>6. IsSuffix(<<c, c>>, s) <=> 2 <= n /\ u = SubSeq(v, 1, 2)
  BY <1>2, <1>4 DEF IsSuffix, IsPrefix, u, v
<1>7. 2 <= n => v[1] = s[n] /\ v[2] = s[n - 1]
  <2>1. SUFFICES ASSUME 2 <= n PROVE v[1] = s[n] /\ v[2] = s[n - 1]
    OBVIOUS
  <2>2. 1 \in 1 .. n /\ 2 \in 1 .. n /\ (n - 1) + 1 = n /\ (n - 2) + 1 = n - 1
    BY <1>1, <2>1
  <2> QED BY <1>2, <2>2
<1> QED BY <1>1, <1>5, <1>6, <1>7 DEF EndsTwice

LEMMA CollapseType ==
  ASSUME NEW A, NEW s \in Seq(A)
  PROVE  CollapseBlank(s) \in Seq(A)
<1>1. Copy(CollapseBlank(s), s, {}, {"newline"})
  BY CollapseRuns DEF Copy
<1> QED BY <1>1, CopyType

LEMMA CollapseEmpty == CollapseBlank(<<>>) = <<>>
<1>1. <<>> \in Seq({})
  OBVIOUS
<1>2. Copy(CollapseBlank(<<>>), <<>>, {}, {"newline"})
  BY <1>1, CollapseRuns, Zenon DEF Copy
<1> QED BY <1>2, CopyEmpty, Zenon

LEMMA CollapseAppend ==
  ASSUME NEW A, NEW s \in Seq(A), NEW c \in A
  PROVE  CollapseBlank(Append(s, c)) =
           IF c = "newline" /\ EndsTwice(CollapseBlank(s), c)
           THEN CollapseBlank(s) ELSE Append(CollapseBlank(s), c)
<1> DEFINE B == {"newline"}
<1>1. Append(s, c) \in Seq(A)
  OBVIOUS
<1>2. Copy(CollapseBlank(s), s, {}, B) /\ Copy(CollapseBlank(Append(s, c)), Append(s, c), {}, B)
  BY <1>1, CollapseRuns, Zenon DEF Copy
<1>3. CollapseBlank(Append(s, c)) = Kept(CollapseBlank(s), c, {}, B)
  <2>1. \A E, r, q : Copy(r, s, {}, E) /\ Copy(q, Append(s, c), {}, E) => q = Kept(r, c, {}, E)
    BY CopyAppend
  <2> HIDE DEF B
  <2> QED BY <1>2, <2>1, Zenon
<1>4. IsSuffix(<<c, c>>, CollapseBlank(s)) <=> EndsTwice(CollapseBlank(s), c)
  BY CollapseType, Suffix
<1> QED BY <1>3, <1>4 DEF Kept

\* Induction along a text.
LEMMA Along ==
  ASSUME NEW A, NEW t \in Seq(A), NEW G, <<>> \in G,
         \A s \in Seq(A) : \A c \in A : s \in G => Append(s, c) \in G
  PROVE  t \in G
<1> DEFINE n == Len(t)
           Q == {i \in 0 .. n : SubSeq(t, 1, i) \in G}
<1>1. n \in Nat /\ SubSeq(t, 1, 0) = <<>> /\ SubSeq(t, 1, n) = t
  OBVIOUS
<1>2. 0 \in Q
  <2>1. SubSeq(t, 1, 0) \in G
    BY <1>1, Zenon
  <2>2. 0 \in 0 .. n
    BY <1>1
  <2> HIDE DEF n
  <2> QED BY <2>1, <2>2, Zenon
<1>3. ASSUME NEW i \in 0 .. n - 1, i \in Q PROVE i + 1 \in Q
  <2>1. /\ SubSeq(t, 1, i) \in Seq(A) /\ t[i + 1] \in A
        /\ SubSeq(t, 1, i + 1) = Append(SubSeq(t, 1, i), t[i + 1])
    OBVIOUS
  <2>2. i + 1 \in 0 .. n
    BY <1>1
  <2> QED BY <1>3, <2>1, <2>2
<1>4. 0 .. n \subseteq Q
  <2> HIDE DEF Q
  <2> QED BY <1>1, <1>2, <1>3, UpTo
<1>5. n \in 0 .. n
  BY <1>1
<1> QED BY <1>1, <1>4, <1>5

\* Dropping letters a second time, or line breaks that are to be dropped.
LEMMA WithoutWithout ==
  ASSUME NEW A, NEW t \in Seq(A), NEW C, NEW D, C \subseteq D
  PROVE  Without(Without(t, C), D) = Without(t, D)
<1> DEFINE G == {s \in Seq(A) : Without(Without(s, C), D) = Without(s, D)}
<1>1. <<>> \in G
  <2>1. <<>> \in Seq(A)
    OBVIOUS
  <2> QED BY <2>1, WithoutEmpty, Zenon
<1>2. ASSUME NEW s \in Seq(A), NEW c \in A, s \in G PROVE Append(s, c) \in G
  <2> DEFINE u == Without(s, C)
  <2>1. Append(s, c) \in Seq(A)
    OBVIOUS
  <2>2. Without(Append(s, c), C) = IF c \in C THEN u ELSE Append(u, c)
    BY WithoutAppend
  <2>3. Without(Append(s, c), D) = IF c \in D THEN Without(s, D) ELSE Append(Without(s, D), c)
    BY WithoutAppend
  <2>4. u \in Seq(A)
    BY WithoutType
  <2>5. Without(u, D) = Without(s, D)
    BY <1>2
  <2> HIDE DEF u
  <2>6. Without(Append(u, c), D) = IF c \in D THEN Without(u, D) ELSE Append(Without(u, D), c)
    BY <2>4, WithoutAppend
  <2>7. Without(Without(Append(s, c), C), D) = Without(Append(s, c), D)
    BY <2>2, <2>3, <2>5, <2>6
  <2> QED BY <2>1, <2>7
<1> HIDE DEF G
<1>3. t \in G
  BY <1>1, <1>2, Along
<1> QED BY <1>3 DEF G

LEMMA WithoutCollapse ==
  ASSUME NEW A, NEW t \in Seq(A), NEW D, "newline" \in D
  PROVE  Without(CollapseBlank(t), D) = Without(t, D)
<1> DEFINE G == {s \in Seq(A) : Without(CollapseBlank(s), D) = Without(s, D)}
<1>1. <<>> \in G
  <2>1. <<>> \in Seq(A)
    OBVIOUS
  <2> QED BY <2>1, CollapseEmpty, Zenon
<1>2. ASSUME NEW s \in Seq(A), NEW c \in A, s \in G PROVE Append(s, c) \in G
  <2> DEFINE u == CollapseBlank(s)
  <2>1. Append(s, c) \in Seq(A)
    OBVIOUS
  <2>2. \/ CollapseBlank(Append(s, c)) = u /\ c = "newline"
        \/ CollapseBlank(Append(s, c)) = Append(u, c)
    BY CollapseAppend
  <2>3. Without(Append(s, c), D) = IF c \in D THEN Without(s, D) ELSE Append(Without(s, D), c)
    BY WithoutAppend
  <2>4. u \in Seq(A)
    BY CollapseType
  <2>5. Without(u, D) = Without(s, D)
    BY <1>2
  <2> HIDE DEF u
  <2>6. Without(Append(u, c), D) = IF c \in D THEN Without(u, D) ELSE Append(Without(u, D), c)
    BY <2>4, WithoutAppend
  <2>7. Without(CollapseBlank(Append(s, c)), D) = Without(Append(s, c), D)
    BY <2>2, <2>3, <2>5, <2>6
  <2> QED BY <2>1, <2>7
<1> HIDE DEF G
<1>3. t \in G
  BY <1>1, <1>2, Along
<1> QED BY <1>3 DEF G

\* No three line breaks in a row.
NoThree(s) == \A i \in 3 .. Len(s) : \E j \in i - 2 .. i : s[j] # "newline"

LEMMA CollapseNoThree ==
  ASSUME NEW A, NEW t \in Seq(A)
  PROVE  NoThree(CollapseBlank(t))
<1> DEFINE G == {s \in Seq(A) : NoThree(CollapseBlank(s))}
<1>1. <<>> \in G
  <2>1. <<>> \in Seq(A) /\ Len(<<>>) = 0
    OBVIOUS
  <2>2. CollapseBlank(<<>>) = <<>>
    BY CollapseEmpty
  <2>3. NoThree(<<>>)
    <3>1. 3 .. Len(<<>>) = {}
      BY <2>1
    <3> QED BY <3>1, Zenon DEF NoThree
  <2> QED BY <2>1, <2>2, <2>3, Zenon
<1>2. ASSUME NEW s \in Seq(A), NEW c \in A, s \in G PROVE Append(s, c) \in G
  <2> DEFINE u == CollapseBlank(s)
             v == Append(u, c)
             n == Len(u)
  <2>1. Append(s, c) \in Seq(A)
    OBVIOUS
  <2>2. /\ u \in Seq(A)
        /\ CollapseBlank(Append(s, c)) = IF c = "newline" /\ EndsTwice(u, c) THEN u ELSE v
    BY CollapseAppend, CollapseType
  <2>3. NoThree(u)
    BY <1>2
  <2>4. ASSUME ~(c = "newline" /\ EndsTwice(u, c)) PROVE NoThree(v)
    <3>1. n \in Nat /\ Len(v) = n + 1 /\ v[n + 1] = c /\ \A i \in 1 .. n : v[i] = u[i]
      BY <2>2
    <3>2. \A i \in 3 .. n : \E j \in i - 2 .. i : u[j] # "newline"
      BY <2>3 DEF NoThree
    <3>3. n >= 2 => c # "newline" \/ u[n] # "newline" \/ u[n - 1] # "newline"
      BY <2>4 DEF EndsTwice
    <3> HIDE DEF u, v, n
    <3>4. ASSUME NEW i \in 3 .. n + 1 PROVE \E j \in i - 2 .. i : v[j] # "newline"
      <4>1. CASE i = n + 1
        <5>1. n >= 2 /\ n \in 1 .. n /\ n - 1 \in 1 .. n
          BY <3>1, <4>1
        <5>2. v[n] = u[n] /\ v[n - 1] = u[n - 1]
          BY <3>1, <5>1
        <5>3. n + 1 \in i - 2 .. i /\ n \in i - 2 .. i /\ n - 1 \in i - 2 .. i
          BY <3>1, <4>1
        <5> QED BY <3>1, <3>3, <5>1, <5>2, <5>3
      <4>2. CASE i # n + 1
        <5>1. i \in 3 .. n
          BY <3>1, <4>2
        <5>2. PICK j \in i - 2 .. i : u[j] # "newline"
          BY <3>2, <5>1
        <5>3. j \in 1 .. n
          BY <3>1, <5>1
        <5> QED BY <3>1, <5>2, <5>3
      <4> QED BY <4>1, <4>2
    <3> QED BY <3>1, <3>4 DEF NoThree
  <2> HIDE DEF u, v
  <2>5. NoThree(CollapseBlank(Append(s, c)))
    BY <2>2, <2>3, <2>4
  <2> QED BY <2>1, <2>5
<1> HIDE DEF G
<1>3. t \in G
  BY <1>1, <1>2, Along
<1> QED BY <1>3 DEF G

\* The letters of a stretch of a text.
LEMMA Stretch ==
  ASSUME NEW A, NEW s \in Seq(A), NEW f \in 0 .. Len(s), NEW l \in f .. Len(s)
  PROVE  /\ SubSeq(s, f + 1, l) \in Seq(A) /\ Len(SubSeq(s, f + 1, l)) = l - f
         /\ \A i \in 1 .. l - f : SubSeq(s, f + 1, l)[i] = s[f + i] /\ f + i \in 1 .. l
<1> DEFINE n == Len(s)
           g == [i \in 1 .. l - f |-> s[f + i]]
<1>1. n \in Nat /\ f \in Nat /\ l \in Nat /\ f <= l /\ l <= n
  OBVIOUS
<1>2. \A i \in 1 .. l - f : f + i \in 1 .. l /\ f + i \in 1 .. n /\ s[f + i] \in A
  BY <1>1
<1>3. g \in Seq(A) /\ Len(g) = l - f
  <2>1. l - f \in Nat
    BY <1>1
  <2> QED BY <1>2, <2>1
<1>4. SubSeq(s, f + 1, l) = g
  <2> DEFINE u == SubSeq(s, f + 1, l)
  <2>1. f + 1 \in 1 .. n + 1 /\ (f + 1) - 1 = f /\ l - (f + 1) + 1 = l - f
    BY <1>1
  <2>2. u \in Seq(A)
    BY <1>1
  <2>3. Len(u) = l - f
    BY <1>1
  <2>4. \A i \in 1 .. l - f : u[i] = s[f + i]
    BY <1>1
  <2> HIDE DEF u, n
  <2>5. u = g
    BY <2>2, <2>3, <2>4
  <2> QED BY <2>5 DEF u
<1> QED BY <1>2, <1>3, <1>4

\* What lies outside a stretch of the text is nothing but line breaks.
LEMMA WithoutStretch ==
  ASSUME NEW A, NEW s \in Seq(A), NEW D, NEW f \in 1 .. Len(s) + 1, NEW l \in f - 1 .. Len(s),
         \A i \in 1 .. Len(s) : i < f \/ i > l => s[i] \in D
  PROVE  Without(SubSeq(s, f, l), D) = Without(s, D)
<1> DEFINE n == Len(s)
           W(k) == Without(SubSeq(s, 1, k), D)
           V(k) == Without(SubSeq(s, f, k), D)
<1>1. n \in Nat /\ f \in Nat /\ f >= 1 /\ f <= n + 1 /\ l \in Nat /\ l >= f - 1 /\ l <= n
  OBVIOUS
<1>2. ASSUME NEW k \in 0 .. n - 1
      PROVE  W(k + 1) = IF s[k + 1] \in D THEN W(k) ELSE Append(W(k), s[k + 1])
  <2>1. /\ SubSeq(s, 1, k) \in Seq(A) /\ s[k + 1] \in A
        /\ SubSeq(s, 1, k + 1) = Append(SubSeq(s, 1, k), s[k + 1])
    OBVIOUS
  <2> DEFINE u == SubSeq(s, 1, k)
             v == SubSeq(s, 1, k + 1)
             c == s[k + 1]
  <2>2. u \in Seq(A) /\ c \in A /\ v = Append(u, c)
    BY <2>1
  <2> HIDE DEF u, v, c
  <2>3. Without(v, D) = IF c \in D THEN Without(u, D) ELSE Append(Without(u, D), c)
    BY <2>2, WithoutAppend
  <2> QED BY <2>3 DEF u, v, c
<1>3. ASSUME NEW k \in f - 1 .. n - 1
      PROVE  V(k + 1) = IF s[k + 1] \in D THEN V(k) ELSE Append(V(k), s[k + 1])
  <2>1. /\ SubSeq(s, f, k) \in Seq(A) /\ s[k + 1] \in A
        /\ SubSeq(s, f, k + 1) = Append(SubSeq(s, f, k), s[k + 1])
    OBVIOUS
  <2> DEFINE u == SubSeq(s, f, k)
             v == SubSeq(s, f, k + 1)
             c == s[k + 1]
  <2>2. u \in Seq(A) /\ c \in A /\ v = Append(u, c)
    BY <2>1
  <2> HIDE DEF u, v, c
  <2>3. Without(v, D) = IF c \in D THEN Without(u, D) ELSE Append(Without(u, D), c)
    BY <2>2, WithoutAppend
  <2> QED BY <2>3 DEF u, v, c
<1>4. W(0) = <<>> /\ V(f - 1) = <<>> /\ W(n) = Without(s, D)
  <2>1. SubSeq(s, 1, 0) = <<>> /\ SubSeq(s, f, f - 1) = <<>> /\ SubSeq(s, 1, n) = s
    BY <1>1
  <2> QED BY <2>1, WithoutEmpty, Zenon
<1>5. \A i \in 1 .. n : i < f \/ i > l => s[i] \in D
  OBVIOUS
<1> HIDE DEF n, W, V
<1>6. W(f - 1) = <<>>
  <2> DEFINE Q == {k \in 0 .. f - 1 : W(k) = <<>>}
  <2>1. f - 1 \in Nat /\ 0 \in Q
    BY <1>1, <1>4
  <2>2. ASSUME NEW k \in 0 .. (f - 1) - 1, k \in Q PROVE k + 1 \in Q
    <3>1. k \in 0 .. n - 1 /\ k + 1 \in 1 .. n /\ k + 1 < f /\ k + 1 \in 0 .. f - 1
      BY <1>1
    <3> QED BY <1>2, <1>5, <2>2, <3>1
  <2>3. 0 .. f - 1 \subseteq Q
    <3> HIDE DEF Q
    <3> QED BY <2>1, <2>2, UpTo
  <2>4. f - 1 \in 0 .. f - 1
    BY <1>1
  <2> QED BY <2>3, <2>4
<1>7. V(l) = W(l)
  <2> DEFINE d == l - (f - 1)
             Q == {k \in 0 .. d : V((f - 1) + k) = W((f - 1) + k)}
  <2>1. d \in Nat /\ 0 \in Q
    BY <1>1, <1>4, <1>6
  <2>2. ASSUME NEW k \in 0 .. d - 1, k \in Q PROVE k + 1 \in Q
    <3> DEFINE j == (f - 1) + k
    <3>1. /\ j \in 0 .. n - 1 /\ j \in f - 1 .. n - 1 /\ k + 1 \in 0 .. d
          /\ (f - 1) + (k + 1) = j + 1
      BY <1>1
    <3>2. V(j) = W(j)
      BY <2>2
    <3> HIDE DEF j
    <3> QED BY <1>2, <1>3, <3>1, <3>2
  <2>3. 0 .. d \subseteq Q
    <3> HIDE DEF Q, d
    <3> QED BY <2>1, <2>2, UpTo
  <2>4. d \in 0 .. d /\ (f - 1) + d = l
    BY <1>1
  <2> QED BY <2>3, <2>4
<1>8. W(n) = W(l)
  <2> DEFINE d == n - l
             Q == {k \in 0 .. d : W(l + k) = W(l)}
  <2>1. d \in Nat /\ 0 \in Q
    BY <1>1
  <2>2. ASSUME NEW k \in 0 .. d - 1, k \in Q PROVE k + 1 \in Q
    <3> DEFINE j == l + k
    <3>1. /\ j \in 0 .. n - 1 /\ k + 1 \in 0 .. d /\ l + (k + 1) = j + 1
          /\ j + 1 \in 1 .. n /\ j + 1 > l
      BY <1>1
    <3>2. W(j) = W(l)
      BY <2>2
    <3> HIDE DEF j
    <3> QED BY <1>2, <1>5, <3>1, <3>2
  <2>3. 0 .. d \subseteq Q
    <3> HIDE DEF Q, d
    <3> QED BY <2>1, <2>2, UpTo
  <2>4. d \in 0 .. d /\ l + d = n
    BY <1>1
  <2> QED BY <2>3, <2>4
<1> QED BY <1>4, <1>7, <1>8 DEF V

LEMMA FirstIn ==
  ASSUME NEW S \in SUBSET Nat, S # {}
  PROVE  Min(S) \in S /\ \A x \in S : Min(S) <= x
<1>1. SUFFICES ASSUME \A m \in S : \E x \in S : ~ m <= x PROVE FALSE
  <2>1. CASE \E m \in S : \A x \in S : m <= x
    <3> DEFINE m == Min(S)
    <3>1. m \in S /\ \A x \in S : m <= x
      BY <2>1 DEF Min
    <3> QED BY <3>1
  <2> QED BY <1>1, <2>1
<1>2. PICK n \in S : TRUE
  OBVIOUS
<1> DEFINE Q == {k \in 0 .. n : \A x \in S : k <= x}
<1>3. n \in Nat /\ 0 \in Q
  BY <1>2
<1>4. ASSUME NEW k \in 0 .. n - 1, k \in Q PROVE k + 1 \in Q
  <2>1. k \in Nat /\ k + 1 \in 0 .. n
    BY <1>3
  <2>2. k \notin S
    BY <1>1, <1>4
  <2>3. \A x \in S : k <= x /\ k # x /\ x \in Nat
    BY <1>4, <2>2
  <2>4. \A x \in S : k + 1 <= x
    BY <2>1, <2>3
  <2> QED BY <2>1, <2>4
<1>5. 0 .. n \subseteq Q
  <2> HIDE DEF Q
  <2> QED BY <1>3, <1>4, UpTo
<1>6. \A x \in S : n <= x
  BY <1>3, <1>5
<1> QED BY <1>1, <1>6

\* A stripped text is a stretch of the text between its first and last letter that is no
\* line break.
LEMMA StripStretch ==
  ASSUME NEW A, NEW s \in Seq(A)
  PROVE  \E f \in 1 .. Len(s) + 1 : \E l \in f - 1 .. Len(s) :
           /\ Strip(s) = SubSeq(s, f, l)
           /\ \A i \in 1 .. Len(s) : i < f \/ i > l => s[i] = "newline"
           /\ f <= l => s[f] # "newline" /\ s[l] # "newline"
<1> DEFINE I == {i \in 1 .. Len(s) : s[i] # "newline"}
           n == Len(s)
<1>1. Strip(s) = IF (IF I # {} THEN Min(I) ELSE 0) = 0 THEN <<>>
                 ELSE SubSeq(s, IF I # {} THEN Min(I) ELSE 0, IF I # {} THEN Max(I) ELSE 0)
  BY DEF Strip, SelectInSeq, SelectLastInSeq
<1>2. n \in Nat
  OBVIOUS
<1>3. CASE I = {}
  <2>1. Strip(s) = <<>>
    BY <1>1, <1>3
  <2>2. SubSeq(s, n + 1, n) = <<>> /\ n + 1 \in 1 .. n + 1 /\ n \in (n + 1) - 1 .. n
    BY <1>2
  <2>3. \A i \in 1 .. n : s[i] = "newline"
    BY <1>3
  <2>4. ~ n + 1 <= n
    BY <1>2
  <2> QED BY <2>1, <2>2, <2>3, <2>4
<1>4. CASE I # {}
  <2> DEFINE f == Min(I)
             l == Max(I)
  <2>1. I \in SUBSET (0 .. n) /\ I \in SUBSET (1 .. n)
    BY <1>2
  <2>2. f \in I /\ (\A x \in I : f <= x) /\ l \in I /\ (\A x \in I : x <= l)
    <3>1. I \in SUBSET Nat
      BY <1>2
    <3> HIDE DEF I, n
    <3> QED BY <1>2, <1>4, <2>1, <3>1, FirstIn, LastIn
  <2> HIDE DEF f, l
  <2>3. f \in 1 .. n + 1 /\ l \in f - 1 .. n /\ f # 0 /\ s[f] # "newline" /\ s[l] # "newline"
    BY <1>2, <2>2
  <2>4. Strip(s) = SubSeq(s, f, l)
    BY <1>1, <1>4, <2>3 DEF f, l
  <2>5. \A i \in 1 .. n : i < f \/ i > l => s[i] = "newline"
    <3>1. \A i \in 1 .. n : s[i] = "newline" \/ i \in I
      OBVIOUS
    <3>2. \A i \in I : ~(i < f \/ i > l)
      <4>1. f \in Int /\ l \in Int /\ \A i \in I : i \in Int
        BY <2>2, <1>2
      <4> HIDE DEF I
      <4> QED BY <2>2, <4>1
    <3> HIDE DEF I
    <3> QED BY <3>1, <3>2
  <2> QED BY <2>3, <2>4, <2>5
<1> QED BY <1>3, <1>4

\* What clean_text takes of a raw text: what lies between the first start line and the
\* next end line, or the end of the text.
From(raw) == LET starts == {i \in DOMAIN raw : raw[i] = "start"}
             IN IF starts = {} THEN 0 ELSE Min(starts)
To(raw) == LET ends == {i \in DOMAIN raw : i > From(raw) /\ raw[i] = "end"}
           IN IF ends = {} THEN Len(raw) + 1 ELSE Min(ends)

LEMMA Bounds ==
  ASSUME NEW A, NEW raw \in Seq(A)
  PROVE  /\ From(raw) \in 0 .. Len(raw) /\ To(raw) \in From(raw) + 1 .. Len(raw) + 1
         /\ \A i \in DOMAIN raw : From(raw) < i /\ i < To(raw) => raw[i] # "end"
         /\ To(raw) <= Len(raw) => raw[To(raw)] = "end"
<1> DEFINE n == Len(raw)
           S == {i \in DOMAIN raw : raw[i] = "start"}
           f == From(raw)
           E == {i \in DOMAIN raw : i > f /\ raw[i] = "end"}
           e == To(raw)
<1>1. n \in Nat /\ DOMAIN raw = 1 .. n
  OBVIOUS
<1>2. /\ f = IF S = {} THEN 0 ELSE Min(S)
      /\ e = IF E = {} THEN n + 1 ELSE Min(E)
  BY DEF From, To
<1>3. S \in SUBSET Nat /\ S \in SUBSET (1 .. n) /\ E \in SUBSET Nat /\ E \in SUBSET (1 .. n)
  BY <1>1
<1>4. /\ S # {} => Min(S) \in S
      /\ E # {} => Min(E) \in E /\ \A i \in E : Min(E) <= i
  <2> HIDE DEF S, E
  <2> QED BY <1>3, FirstIn
<1>5. f \in 0 .. n
  <2> HIDE DEF f, S
  <2> QED BY <1>1, <1>2, <1>3, <1>4
<1>6. ASSUME E = {}
      PROVE  e \in f + 1 .. n + 1 /\ (e <= n => raw[e] = "end")
  <2>1. e = n + 1
    BY <1>2, <1>6
  <2> HIDE DEF e, f
  <2> QED BY <1>1, <1>5, <2>1
<1>7. ASSUME E # {}
      PROVE  e \in f + 1 .. n + 1 /\ raw[e] = "end" /\ \A i \in E : e <= i
  <2>1. e \in E /\ \A i \in E : e <= i
    BY <1>2, <1>4, <1>7
  <2> HIDE DEF e, f
  <2> QED BY <1>1, <1>5, <2>1
<1>8. \A i \in DOMAIN raw : f < i /\ i < e => raw[i] # "end"
  <2>1. SUFFICES ASSUME NEW i \in DOMAIN raw, f < i, i < e, raw[i] = "end" PROVE FALSE
    OBVIOUS
  <2> HIDE DEF e, f
  <2>2. i \in E
    BY <1>1, <1>5, <2>1
  <2>3. e \in Nat /\ i \in Nat /\ e <= i
    BY <1>1, <1>5, <1>7, <2>2
  <2> QED BY <2>1, <2>3
<1> HIDE DEF S, E, f, e
<1> QED BY <1>5, <1>6, <1>7, <1>8 DEF f, e

LEMMA Body ==
  ASSUME NEW A, NEW raw \in Seq(A)
  PROVE  StripFooter(StripHeader(raw)) = SubSeq(raw, From(raw) + 1, To(raw) - 1)
<1> DEFINE n == Len(raw)
           f == From(raw)
           e == To(raw)
           t == SubSeq(raw, f + 1, n)
           E == {i \in 1 .. Len(t) : t[i] = "end"}
<1>1. n \in Nat /\ DOMAIN raw = 1 .. n
  OBVIOUS
<1>2. /\ f \in 0 .. n /\ e \in f + 1 .. n + 1
      /\ \A i \in 1 .. n : f < i /\ i < e => raw[i] # "end"
      /\ e <= n => raw[e] = "end"
  BY <1>1, Bounds
<1>3. StripHeader(raw) = t
  <2> DEFINE S == {i \in 1 .. n : raw[i] = "start"}
  <2>1. f = IF S # {} THEN Min(S) ELSE 0
    BY <1>1 DEF From
  <2>2. StripHeader(raw) = SubSeq(raw, (IF S # {} THEN Min(S) ELSE 0) + 1, n)
    BY DEF StripHeader, SelectInSeq
  <2> HIDE DEF S, f
  <2> QED BY <2>1, <2>2
<1>4. StripFooter(t) = LET m == IF E # {} THEN Min(E) ELSE 0
                       IN IF m = 0 THEN t ELSE SubSeq(t, 1, m - 1)
  BY DEF StripFooter, SelectInSeq
<1> HIDE DEF f, e
<1>5. t \in Seq(A) /\ Len(t) = n - f /\ \A i \in 1 .. n - f : t[i] = raw[f + i]
  <2>1. f \in 0 .. Len(raw) /\ n \in f .. Len(raw)
    BY <1>1, <1>2
  <2> HIDE DEF n
  <2> QED BY <2>1, Stretch
<1> HIDE DEF n, t
<1>6. CASE e = n + 1
  <2>1. E = {}
    <3>1. \A i \in 1 .. Len(t) : t[i] # "end"
      <4>1. SUFFICES ASSUME NEW i \in 1 .. n - f PROVE raw[f + i] # "end"
        BY <1>5
      <4>2. f + i \in 1 .. n /\ f < f + i /\ f + i < e
        BY <1>1, <1>2, <1>6
      <4> QED BY <1>2, <4>2
    <3> QED BY <3>1
  <2>2. e - 1 = n
    BY <1>1, <1>6
  <2> HIDE DEF E
  <2> QED BY <1>3, <1>4, <2>1, <2>2 DEF t, f, e
<1>7. CASE e # n + 1
  <2> DEFINE k == e - f
  <2>1. /\ k \in 1 .. n - f /\ f + k = e /\ e <= n
        /\ \A i \in 1 .. k - 1 : f + i \in 1 .. n /\ f < f + i /\ f + i < e
    BY <1>1, <1>2, <1>7
  <2>2. k \in E
    BY <1>2, <1>5, <2>1
  <2>3. \A i \in E : k <= i
    <3>1. SUFFICES ASSUME NEW i \in E, i < k PROVE FALSE
      BY <1>1, <1>5, <2>1
    <3>2. i \in 1 .. k - 1 /\ i \in 1 .. n - f /\ raw[f + i] = "end"
      BY <1>1, <1>2, <1>5, <2>1, <3>1
    <3> HIDE DEF k
    <3> QED BY <1>2, <2>1, <3>2
  <2>4. Min(E) = k
    <3>1. E \in SUBSET Nat
      BY <1>1, <1>2, <1>5
    <3> HIDE DEF E
    <3>2. Min(E) \in E /\ \A i \in E : Min(E) <= i
      BY <2>2, <3>1, FirstIn
    <3> DEFINE m == Min(E)
    <3>3. m \in Nat /\ k \in Nat /\ m <= k /\ k <= m
      BY <2>2, <2>3, <3>1, <3>2
    <3> HIDE DEF m, k
    <3>4. m = k
      BY <3>3
    <3> QED BY <3>4 DEF m
  <2>5. StripFooter(t) = SubSeq(t, 1, k - 1)
    <3>1. E # {} /\ k # 0
      BY <2>1, <2>2
    <3> HIDE DEF E, k
    <3> QED BY <1>4, <2>4, <3>1
  <2>6. SubSeq(t, 1, k - 1) = SubSeq(raw, f + 1, e - 1)
    <3> DEFINE u == SubSeq(t, 1, k - 1)
               v == SubSeq(raw, f + 1, e - 1)
    <3>1. k \in Int /\ k - 1 \in 0 .. Len(t) /\ f + 1 \in 1 .. n + 1 /\ e - 1 \in f .. n
      BY <1>1, <1>2, <1>5, <2>1
    <3>2. u \in Seq(A) /\ Len(u) = k - 1 /\ \A i \in 1 .. k - 1 : u[i] = t[i]
      <4> HIDE DEF k
      <4> QED BY <1>5, <3>1
    <3>3. v \in Seq(A) /\ Len(v) = k - 1 /\ \A i \in 1 .. k - 1 : v[i] = raw[f + i]
      <4>1. (e - 1) - (f + 1) + 1 = k - 1 /\ f \in Int /\ e \in Int /\ n \in Nat
        BY <1>1, <1>2
      <4> HIDE DEF k
      <4> QED BY <1>2, <3>1, <4>1 DEF n
    <3>4. \A i \in 1 .. k - 1 : t[i] = raw[f + i]
      BY <1>1, <1>2, <1>5, <2>1
    <3> HIDE DEF u, v, k
    <3>5. u = v
      BY <3>2, <3>3, <3>4
    <3> QED BY <3>5 DEF u, v
  <2> QED BY <1>3, <2>5, <2>6 DEF t, f, e
<1> QED BY <1>6, <1>7

LEMMA CleanKept ==
  ASSUME NEW raw \in Seq(Letters)
  PROVE  LET clean == CleanText(raw)
             body == ReplaceAll(SubSeq(raw, From(raw) + 1, To(raw) - 1), "curly", "quote")
         IN /\ Ink(clean) = Ink(body)
            /\ \A i \in DOMAIN clean : clean[i] \notin {"end", "plate", "curly"}
            /\ NoThree(clean)
            /\ clean # <<>> => clean[1] # "newline" /\ clean[Len(clean)] # "newline"
<1> DEFINE f == From(raw)
           e == To(raw)
           mid == SubSeq(raw, f + 1, e - 1)
           body == ReplaceAll(mid, "curly", "quote")
           A == (Letters \cup {"quote"}) \ {"end", "curly"}
           plain == StripPlates(body)
           short == CollapseBlank(plain)
           clean == Strip(short)
           D == Letters \ {"word"}
<1>1. CleanText(raw) = clean
  BY Body DEF CleanText
<1>2. body \in Seq(A)
  <2>1. /\ f \in 0 .. Len(raw) /\ e \in f + 1 .. Len(raw) + 1
        /\ \A i \in DOMAIN raw : f < i /\ i < e => raw[i] # "end"
    BY Bounds
  <2>2. Len(raw) \in Nat /\ DOMAIN raw = 1 .. Len(raw) /\ \A i \in 1 .. Len(raw) : raw[i] \in Letters
    OBVIOUS
  <2> DEFINE n == Len(mid)
  <2>3. /\ n = (e - 1) - f /\ n \in Nat
        /\ \A i \in 1 .. n : mid[i] = raw[f + i]
    <3>1. e - 1 \in f .. Len(raw)
      BY <2>1, <2>2
    <3> HIDE DEF f, e
    <3>2. Len(mid) = (e - 1) - f /\ \A i \in 1 .. (e - 1) - f : mid[i] = raw[f + i]
      BY <2>1, <3>1, Stretch
    <3>3. (e - 1) - f \in Nat
      BY <2>1, <2>2
    <3> HIDE DEF mid
    <3> QED BY <3>2, <3>3
  <2> HIDE DEF f, e, mid
  <2>4. \A i \in 1 .. n : mid[i] \in Letters \ {"end"}
    <3>1. \A i \in 1 .. n : f + i \in 1 .. Len(raw) /\ f < f + i /\ f + i < e
      BY <2>1, <2>2, <2>3
    <3> HIDE DEF n
    <3> QED BY <2>1, <2>2, <2>3, <3>1
  <2>5. body = [i \in 1 .. n |-> IF mid[i] = "curly" THEN "quote" ELSE mid[i]]
    BY DEF ReplaceAll
  <2>6. \A i \in 1 .. n : body[i] \in A
    <3> HIDE DEF n, body
    <3> QED BY <2>4, <2>5
  <2> HIDE DEF n, body, A
  <2> QED BY <2>3, <2>5, <2>6
<1> HIDE DEF body
<1>3. plain \in Seq(A \ {"plate"})
  BY <1>2, WithoutType DEF StripPlates
<1> HIDE DEF plain
<1>4. short \in Seq(A \ {"plate"}) /\ NoThree(short)
  BY <1>3, CollapseType, CollapseNoThree
<1>5. "newline" \in D /\ {"plate"} \subseteq D
  BY DEF Letters
<1>6. Without(short, D) = Without(body, D)
  <2>1. Without(short, D) = Without(plain, D)
    <3> HIDE DEF D
    <3> QED BY <1>3, <1>5, WithoutCollapse
  <2>2. Without(plain, D) = Without(body, D)
    <3> HIDE DEF D
    <3> QED BY <1>2, <1>5, WithoutWithout DEF plain, StripPlates
  <2> QED BY <2>1, <2>2
<1> HIDE DEF short, D
<1> DEFINE n == Len(short)
<1>7. PICK a \in 1 .. n + 1 : \E l \in a - 1 .. n :
           /\ clean = SubSeq(short, a, l)
           /\ \A i \in 1 .. n : i < a \/ i > l => short[i] = "newline"
           /\ a <= l => short[a] # "newline" /\ short[l] # "newline"
  BY <1>4, StripStretch
<1>8. PICK l \in a - 1 .. n :
           /\ clean = SubSeq(short, a, l)
           /\ \A i \in 1 .. n : i < a \/ i > l => short[i] = "newline"
           /\ a <= l => short[a] # "newline" /\ short[l] # "newline"
  BY <1>7
<1>9. n \in Nat /\ a - 1 \in 0 .. n /\ a = (a - 1) + 1 /\ a \in Nat /\ l \in Nat
  BY <1>4
<1>10. Without(clean, D) = Without(body, D)
  <2>1. Without(SubSeq(short, a, l), D) = Without(short, D)
    <3>1. \A i \in 1 .. n : i < a \/ i > l => short[i] \in D
      BY <1>5, <1>8
    <3> QED BY <1>4, <3>1, WithoutStretch
  <2> QED BY <1>6, <1>8, <2>1
<1>11. /\ clean \in Seq(A \ {"plate"}) /\ Len(clean) = l - (a - 1)
       /\ \A i \in 1 .. l - (a - 1) : clean[i] = short[(a - 1) + i] /\ (a - 1) + i \in 1 .. l
  <2> DEFINE b == a - 1
  <2>1. b \in 0 .. n /\ a = b + 1 /\ l \in b .. n
    BY <1>9
  <2> HIDE DEF b, A, n
  <2>2. clean = SubSeq(short, b + 1, l)
    BY <1>8, <2>1
  <2> HIDE DEF clean
  <2>3. /\ clean \in Seq(A \ {"plate"}) /\ Len(clean) = l - b
        /\ \A i \in 1 .. l - b : clean[i] = short[b + i] /\ b + i \in 1 .. l
    BY <1>4, <2>1, <2>2, Stretch DEF n
  <2> QED BY <2>3 DEF b
<1> HIDE DEF clean
<1>12. \A i \in DOMAIN clean : clean[i] \notin {"end", "plate", "curly"}
  BY <1>11
<1> DEFINE m == l - (a - 1)
<1>13. NoThree(clean)
  <2>1. SUFFICES ASSUME NEW i \in 3 .. m PROVE \E j \in i - 2 .. i : clean[j] # "newline"
    BY <1>11 DEF NoThree
  <2> DEFINE k == (a - 1) + i
  <2>2. k \in 3 .. n /\ i \in Nat /\ i >= 3 /\ i <= m /\ m \in Int
    BY <1>9
  <2>3. PICK j \in k - 2 .. k : short[j] # "newline"
    BY <1>4, <2>2 DEF NoThree
  <2> DEFINE h == j - (a - 1)
  <2>4. h \in i - 2 .. i /\ h \in 1 .. m /\ (a - 1) + h = j
    BY <1>9, <2>2
  <2>5. clean[h] = short[j]
    BY <1>11, <2>4
  <2> QED BY <2>3, <2>4, <2>5
<1>14. clean # <<>> => clean[1] # "newline" /\ clean[Len(clean)] # "newline"
  <2>1. SUFFICES ASSUME clean # <<>> PROVE clean[1] # "newline" /\ clean[Len(clean)] # "newline"
    OBVIOUS
  <2>2. m \in Nat /\ m # 0 /\ m = Len(clean)
    BY <1>9, <1>11, <2>1
  <2>3. 1 \in 1 .. m /\ m \in 1 .. m /\ (a - 1) + 1 = a /\ (a - 1) + m = l /\ a <= l
    BY <1>9, <2>2
  <2>4. clean[1] = short[a] /\ clean[m] = short[l]
    BY <1>11, <2>3
  <2> QED BY <1>8, <2>2, <2>3, <2>4
<1> QED BY <1>1, <1>10, <1>12, <1>13, <1>14 DEF Ink, D, body

-----------------------------------------------------------------------------
(* The order of the samples. *)

\* The integer part of a / d.
IsFloor(q, a, d) == d * q <= a /\ a < d * q + d

LEMMA Floors ==
  ASSUME NEW a \in Nat, NEW d \in Nat \ {0}
  PROVE  a \div d \in Nat /\ IsFloor(a \div d, a, d)
<1> DEFINE q == a \div d
           p == a % d
<1>0. q = a \div d /\ p = a % d
  OBVIOUS
<1> HIDE DEF p, q
<1>1. q \in Int /\ p \in 0 .. d - 1 /\ a = d * q + p
  <2>1. d \in Int /\ d > 0 /\ q \in Int /\ p \in 0 .. d - 1
    BY <1>0
  <2> QED BY <1>0, <2>1
<1>2. d * q \in Int
  BY <1>1
<1>3. q >= 0
  <2>1. SUFFICES ASSUME q < 0 PROVE FALSE
    BY <1>1
  <2>2. q <= -1
    BY <1>1, <2>1
  <2>3. d * q <= d * (-1)
    BY <1>1, <2>2
  <2>4. d * (-1) = -d
    OBVIOUS
  <2> QED BY <1>1, <1>2, <2>3, <2>4
<1>4. d * q <= a /\ a < d * q + d
  BY <1>1, <1>2
<1> QED BY <1>0, <1>1, <1>3, <1>4 DEF IsFloor

\* h folds the steps F over every set of positions of t.
Steps(F, S, X) == F \in [S -> [X -> S]]
FoldedBy(h, F, S, b, t) ==
  /\ h \in [SUBSET (DOMAIN t) -> S]
  /\ \A T \in SUBSET (DOMAIN t) :
       h[T] = IF T = {} THEN b ELSE F[h[T \ {Max(T)}]][t[Max(T)]]

LEMMA FoldOf ==
  ASSUME NEW S, NEW X, NEW b \in S, NEW F, Steps(F, S, X), NEW t \in Seq(X)
  PROVE  \E h : FoldedBy(h, F, S, b, t)
<1> DEFINE n == Len(t)
           New(f, T) == IF T = {} THEN b ELSE F[f[T \ {Max(T)}]][t[Max(T)]]
           Fold(i) == \E h \in [SUBSET (1 .. i) -> S] : \A T \in SUBSET (1 .. i) : h[T] = New(h, T)
           Q == {i \in 0 .. n : Fold(i)}
<1>1. n \in Nat /\ DOMAIN t = 1 .. n /\ \A i \in 1 .. n : t[i] \in X
  OBVIOUS
<1>2. ASSUME NEW i \in Nat, i <= n, NEW f, NEW T \in SUBSET (1 .. i),
             T # {} => f[T \ {Max(T)}] \in S
      PROVE  New(f, T) \in S
  <2>1. CASE T = {}
    BY <2>1
  <2>2. CASE T # {}
    <3>0. F \in [S -> [X -> S]]
      BY DEF Steps
    <3> DEFINE m == Max(T)
    <3>1. m \in 1 .. n
      <4>1. m \in 1 .. i
        BY <2>2, LastOf
      <4> HIDE DEF m
      <4> QED BY <1>1, <1>2, <4>1
    <3> HIDE DEF m
    <3>2. f[T \ {m}] \in S /\ t[m] \in X
      BY <1>1, <1>2, <2>2, <3>1 DEF m
    <3>3. F[f[T \ {m}]][t[m]] \in S
      BY <3>0, <3>2
    <3> QED BY <2>2, <3>3 DEF m
  <2> QED BY <2>1, <2>2
<1>3. 0 \in Q
  <2> DEFINE h == [T \in SUBSET (1 .. 0) |-> b]
  <2>1. \A T \in SUBSET (1 .. 0) : T = {}
    OBVIOUS
  <2>2. h \in [SUBSET (1 .. 0) -> S] /\ \A T \in SUBSET (1 .. 0) : h[T] = New(h, T)
    BY <2>1
  <2>3. Fold(0)
    <3> HIDE DEF h, New
    <3> QED BY <2>2
  <2>4. 0 \in 0 .. n
    BY <1>1
  <2> HIDE DEF Fold
  <2> QED BY <2>3, <2>4
<1>4. ASSUME NEW i \in 0 .. n - 1, i \in Q PROVE i + 1 \in Q
  <2>0. i \in Nat /\ i + 1 \in Nat /\ i + 1 <= n /\ i + 1 \in 0 .. n /\ (i + 1) - 1 = i
    BY <1>1
  <2>1. PICK h \in [SUBSET (1 .. i) -> S] : \A T \in SUBSET (1 .. i) : h[T] = New(h, T)
    BY <1>4
  <2> DEFINE g == [T \in SUBSET (1 .. i + 1) |-> New(h, T)]
  <2>2. \A T \in SUBSET (1 .. i + 1) : T # {} => T \ {Max(T)} \in SUBSET (1 .. i)
    BY <2>0, LastOf
  <2>3. \A T \in SUBSET (1 .. i) : T \in SUBSET (1 .. i + 1)
    BY <2>0
  <2>4. \A T \in SUBSET (1 .. i + 1) : New(h, T) \in S
    <3>1. \A T \in SUBSET (1 .. i + 1) : T # {} => h[T \ {Max(T)}] \in S
      BY <2>2
    <3> HIDE DEF New
    <3> QED BY <1>2, <2>0, <3>1
  <2>5. g \in [SUBSET (1 .. i + 1) -> S]
    <3> HIDE DEF New
    <3> QED BY <2>4
  <2>6. \A T \in SUBSET (1 .. i) : g[T] = h[T]
    <3> HIDE DEF New
    <3> QED BY <2>1, <2>3
  <2>7. \A T \in SUBSET (1 .. i + 1) : g[T] = New(h, T)
    <3> HIDE DEF New
    <3> QED OBVIOUS
  <2>8. \A T \in SUBSET (1 .. i + 1) : New(h, T) = New(g, T)
    <3> HIDE DEF g
    <3> QED BY <2>2, <2>6
  <2>9. Fold(i + 1)
    <3> HIDE DEF g, New
    <3> QED BY <2>5, <2>7, <2>8
  <2> HIDE DEF Fold
  <2> QED BY <2>0, <2>9
<1>5. 0 .. n \subseteq Q
  <2> HIDE DEF Q
  <2> QED BY <1>1, <1>3, <1>4, UpTo
<1>6. n \in Q
  <2>1. n \in 0 .. n
    BY <1>1
  <2> HIDE DEF Q, n
  <2> QED BY <1>5, <2>1
<1>7. Fold(n)
  <2> HIDE DEF Fold
  <2> QED BY <1>6, Zenon
<1> QED BY <1>1, <1>7 DEF FoldedBy

\* The sets of positions that make the prefixes of a text of n letters.
LEMMA PrefixSets ==
  ASSUME NEW n \in Nat
  PROVE  /\ {} \in SUBSET (1 .. n) /\ 1 .. 0 = {}
         /\ \A i \in 1 .. n : /\ 1 .. i \in SUBSET (1 .. n) /\ 1 .. i # {}
                              /\ Max(1 .. i) = i /\ (1 .. i) \ {i} = 1 .. i - 1
<1>1. ASSUME NEW i \in 1 .. n
      PROVE  /\ 1 .. i \in SUBSET (1 .. n) /\ 1 .. i # {}
             /\ Max(1 .. i) = i /\ (1 .. i) \ {i} = 1 .. i - 1
  <2>1. i \in Nat /\ i \in 1 .. i /\ 1 .. i \in SUBSET (1 .. n) /\ (1 .. i) \ {i} = 1 .. i - 1
    OBVIOUS
  <2> DEFINE m == Max(1 .. i)
  <2>2. m \in 1 .. i /\ \A x \in 1 .. i : x <= m
    <3>1. 1 .. i \in SUBSET (0 .. n) /\ 1 .. i # {}
      BY <2>1
    <3> QED BY <3>1, LastIn
  <2> HIDE DEF m
  <2>3. m = i
    BY <2>1, <2>2
  <2> QED BY <2>1, <2>3 DEF m
<1>2. {} \in SUBSET (1 .. n) /\ 1 .. 0 = {}
  OBVIOUS
<1> QED BY <1>1, <1>2

\* What a pass of the bisection has made of the order after each odd multiple.
Index(k, n, denom) == ((2 * k - 1) * n) \div denom
Seen(s, i) == IF Contains(s, i) THEN s ELSE Append(s, i)

LEMMA Passes ==
  ASSUME NEW n \in Nat, NEW m \in Nat \ {0}, NEW order \in Seq(Nat)
  PROVE  \E g : /\ g[0] = order /\ g[m] = Bisect(order, n, 2 * m)
                /\ \A k \in 1 .. m : g[k] = Seen(g[k - 1], Index(k, n, 2 * m))
<1> DEFINE d == 2 * m
           t == [k \in 1 .. m |-> k]
           X == Nat \ {0}
           S == Seq(Nat)
           F == [s \in S |-> [k \in X |-> Seen(s, Index(k, n, d))]]
           Fits(h) == h = [T \in SUBSET (DOMAIN t) |->
                             IF T = {} THEN order
                             ELSE LET idx == ((2 * t[Max(T)] - 1) * n) \div d
                                  IN IF Contains(h[T \ {Max(T)}], idx) THEN h[T \ {Max(T)}]
                                     ELSE Append(h[T \ {Max(T)}], idx)]
           h == CHOOSE f : Fits(f)
<1>1. d \in Nat \ {0} /\ d \div 2 = m /\ m \in Nat /\ m \in 1 .. m
  OBVIOUS
<1>2. t \in Seq(X) /\ DOMAIN t = 1 .. m /\ \A i \in 1 .. m : t[i] = i
  OBVIOUS
<1>3. Bisect(order, n, d) = h[DOMAIN t]
  <2>1. Bisect(order, n, d) =
          FoldLeft(LAMBDA seen, k : LET idx == ((2 * k - 1) * n) \div d
                            IN IF Contains(seen, idx) THEN seen ELSE Append(seen, idx),
                   order, t)
    BY <1>1 DEF Bisect
  <2> HIDE DEF t, d
  <2> QED BY <2>1 DEF FoldLeft, MapThenFoldSet
<1>4. F \in [S -> [X -> S]]
  <2>1. ASSUME NEW s \in S, NEW k \in X PROVE Seen(s, Index(k, n, d)) \in S
    <3>1. (2 * k - 1) * n \in Nat
      <4>1. 2 * k - 1 \in Nat
        OBVIOUS
      <4> QED BY <4>1
    <3>2. Index(k, n, d) \in Nat
      <4> HIDE DEF d
      <4> QED BY <1>1, <3>1, Floors DEF Index
    <3> QED BY <3>2 DEF Seen
  <2> HIDE DEF S, X
  <2> QED BY <2>1
<1>5. \E f : Fits(f)
  <2>1. PICK f \in [SUBSET (DOMAIN t) -> S] : \A T \in SUBSET (DOMAIN t) :
             f[T] = IF T = {} THEN order ELSE F[f[T \ {Max(T)}]][t[Max(T)]]
    <3>1. order \in S
      OBVIOUS
    <3>2. t \in Seq(X) /\ Steps(F, S, X)
      BY <1>2, <1>4 DEF Steps
    <3> HIDE DEF F, S, X, t
    <3>3. \E f : FoldedBy(f, F, S, order, t)
      BY <3>1, <3>2, FoldOf, Zenon
    <3> QED BY <3>3, Zenon DEF FoldedBy
  <2>2. \A T \in SUBSET (DOMAIN t) : T # {} =>
          F[f[T \ {Max(T)}]][t[Max(T)]] = Seen(f[T \ {Max(T)}], Index(t[Max(T)], n, d))
    <3>1. SUFFICES ASSUME NEW T \in SUBSET (DOMAIN t), T # {}
          PROVE  f[T \ {Max(T)}] \in S /\ t[Max(T)] \in X
      BY DEF F
    <3>2. Max(T) \in 1 .. m
      BY <1>1, <1>2, <3>1, LastOf
    <3>3. f[T \ {Max(T)}] \in S
      <4>1. T \ {Max(T)} \in SUBSET (DOMAIN t)
        BY <3>1
      <4> HIDE DEF S, t, F
      <4> QED BY <2>1, <4>1
    <3>4. t[Max(T)] \in X
      <4> DEFINE i == Max(T)
      <4>1. i \in 1 .. m /\ t[i] = i
        BY <1>2, <3>2
      <4> HIDE DEF i, t
      <4>2. t[i] \in X
        BY <1>1, <4>1
      <4> QED BY <4>2 DEF i
    <3> QED BY <3>3, <3>4
  <2>3. \A T \in SUBSET (DOMAIN t) : f[T] =
          IF T = {} THEN order ELSE Seen(f[T \ {Max(T)}], Index(t[Max(T)], n, d))
    <3> HIDE DEF F, S, X, d, t
    <3> QED BY <2>1, <2>2
  <2>4. Fits(f)
    <3> HIDE DEF t, d, F
    <3> QED BY <2>1, <2>3 DEF Seen, Index
  <2> HIDE DEF Fits
  <2> QED BY <2>4
<1>6. Fits(h)
  <2> HIDE DEF Fits
  <2> QED BY <1>5
<1>7. \A T \in SUBSET (1 .. m) : h[T] =
        IF T = {} THEN order ELSE Seen(h[T \ {Max(T)}], Index(t[Max(T)], n, d))
  <2> HIDE DEF h, t, d
  <2> QED BY <1>2, <1>6 DEF Seen, Index
<1> DEFINE g == [k \in 0 .. m |-> h[1 .. k]]
<1> HIDE DEF h, Fits
<1>8. g[0] = order
  <2>1. 1 .. 0 = {} /\ {} \in SUBSET (1 .. m) /\ 0 \in 0 .. m
    BY <1>1, PrefixSets
  <2> HIDE DEF t, d
  <2> QED BY <1>7, <2>1
<1>9. ASSUME NEW k \in 1 .. m PROVE g[k] = Seen(g[k - 1], Index(k, n, d))
  <2>1. k \in 0 .. m /\ k - 1 \in 0 .. m
    BY <1>1
  <2>2. 1 .. k \in SUBSET (1 .. m) /\ 1 .. k # {} /\ Max(1 .. k) = k /\ (1 .. k) \ {k} = 1 .. k - 1
    BY <1>1, PrefixSets
  <2> HIDE DEF t, d
  <2>3. h[1 .. k] = Seen(h[1 .. k - 1], Index(k, n, d))
    BY <1>2, <1>7, <2>2
  <2> QED BY <2>1, <2>3
<1>10. g[m] = Bisect(order, n, d)
  BY <1>1, <1>2, <1>3
<1> HIDE DEF g
<1> QED BY <1>8, <1>9, <1>10

Distinct(s) == \A i, j \in 1 .. Len(s) : s[i] = s[j] => i = j

\* r begins with s.
Begins(r, s) == Len(s) <= Len(r) /\ \A i \in 1 .. Len(s) : r[i] = s[i]

LEMMA SeenKeeps ==
  ASSUME NEW A, NEW s \in Seq(A), NEW c \in A, Distinct(s), NEW q, q = Seen(s, c)
  PROVE  /\ q \in Seq(A) /\ Distinct(q) /\ Begins(q, s) /\ Len(q) <= Len(s) + 1
         /\ Contains(q, c)
<1> DEFINE r == Append(s, c)
           n == Len(s)
<1>1. n \in Nat /\ n <= n + 1
  OBVIOUS
<1>2. CASE Contains(s, c)
  <2>1. Seen(s, c) = s
    BY <1>2 DEF Seen
  <2>2. Begins(s, s)
    BY <1>1 DEF Begins
  <2> QED BY <1>1, <1>2, <2>1, <2>2
<1>3. CASE ~ Contains(s, c)
  <2>1. Seen(s, c) = r
    BY <1>3 DEF Seen
  <2>2. r \in Seq(A) /\ Len(r) = n + 1 /\ r[n + 1] = c /\ \A i \in 1 .. n : r[i] = s[i]
    OBVIOUS
  <2>3. \A i \in 1 .. n : s[i] # c
    BY <1>3 DEF Contains
  <2>4. \A i, j \in 1 .. n : s[i] = s[j] => i = j
    BY DEF Distinct
  <2> HIDE DEF r, n
  <2>5. Distinct(r)
    <3>1. SUFFICES ASSUME NEW i \in 1 .. n + 1, NEW j \in 1 .. n + 1, r[i] = r[j] PROVE i = j
      BY <2>2 DEF Distinct
    <3>2. (i \in 1 .. n \/ i = n + 1) /\ (j \in 1 .. n \/ j = n + 1)
      BY <1>1
    <3> QED BY <2>2, <2>3, <2>4, <3>1, <3>2
  <2>6. Begins(r, s)
    BY <1>1, <2>2 DEF Begins, n
  <2>7. Contains(r, c)
    <3>1. n + 1 \in 1 .. Len(r)
      BY <1>1, <2>2
    <3> QED BY <2>2, <3>1 DEF Contains
  <2> QED BY <1>1, <2>1, <2>2, <2>5, <2>6, <2>7 DEF n
<1> QED BY <1>2, <1>3

\* A pass adds the odd multiples, each once.
LEMMA PassAdds ==
  ASSUME NEW n \in Nat \ {0}, NEW m \in Nat \ {0}, NEW order \in Seq(0 .. n - 1), Distinct(order)
  PROVE  LET next == Bisect(order, n, 2 * m)
         IN  /\ next \in Seq(0 .. n - 1) /\ Distinct(next) /\ Begins(next, order)
             /\ Len(next) <= Len(order) + m
             /\ \A k \in 1 .. m : \E i \in 1 .. Len(next) :
                  IsFloor(next[i], (2 * k - 1) * n, 2 * m)
<1> DEFINE A == 0 .. n - 1
           a == Len(order)
<1>0. order \in Seq(Nat)
  <2>1. \A i \in 1 .. Len(order) : order[i] \in Nat
    OBVIOUS
  <2> QED BY <2>1
<1>1. PICK g : /\ g[0] = order /\ g[m] = Bisect(order, n, 2 * m)
               /\ \A k \in 1 .. m : g[k] = Seen(g[k - 1], Index(k, n, 2 * m))
  BY <1>0, Passes
<1>2. ASSUME NEW k \in 1 .. m
      PROVE  Index(k, n, 2 * m) \in A /\ IsFloor(Index(k, n, 2 * m), (2 * k - 1) * n, 2 * m)
  <2> DEFINE d == 2 * m
             c == 2 * k - 1
             q == Index(k, n, d)
  <2>1. d \in Nat \ {0} /\ c \in Nat /\ c < d /\ q = (c * n) \div d
    BY DEF Index
  <2> HIDE DEF c, d, q
  <2>2. c * n \in Nat
    BY <2>1
  <2>3. q \in Nat /\ IsFloor(q, c * n, d)
    BY <2>1, <2>2, Floors
  <2>4. q < n
    <3>1. SUFFICES ASSUME n <= q PROVE FALSE
      BY <2>3
    <3>2. d * q <= c * n
      BY <2>3 DEF IsFloor
    <3>3. d * n <= d * q
      <4> DEFINE x == q - n
      <4>1. x \in Nat /\ q = n + x /\ d \in Nat
        BY <2>1, <2>3, <3>1
      <4> HIDE DEF x
      <4>2. d * q = d * n + d * x /\ d * x \in Nat /\ d * n \in Nat
        BY <4>1
      <4> QED BY <4>2
    <3>4. c * n < d * n
      <4>1. (c + 1) * n <= d * n
        BY <2>1
      <4>2. (c + 1) * n = c * n + n
        BY <2>1
      <4>3. d * n \in Nat
        BY <2>1
      <4> QED BY <2>2, <4>1, <4>2, <4>3
    <3>5. d * q \in Nat /\ d * n \in Nat
      BY <2>1, <2>3
    <3> QED BY <2>2, <3>2, <3>3, <3>4, <3>5
  <2> QED BY <2>3, <2>4 DEF c, d, q
<1> DEFINE J(k) == /\ g[k] \in Seq(A) /\ Distinct(g[k]) /\ Begins(g[k], order)
                   /\ Len(g[k]) <= a + k
                   /\ \A l \in 1 .. k : \E i \in 1 .. Len(g[k]) : g[k][i] = Index(l, n, 2 * m)
           Q == {k \in 0 .. m : J(k)}
<1>3. 0 \in Q
  <2>1. order \in Seq(A) /\ Distinct(order) /\ Len(order) <= a + 0
    OBVIOUS
  <2>2. Begins(order, order)
    BY DEF Begins
  <2>3. 1 .. 0 = {} /\ 0 \in 0 .. m
    OBVIOUS
  <2> QED BY <1>1, <2>1, <2>2, <2>3
<1>4. ASSUME NEW k \in 0 .. m - 1, k \in Q PROVE k + 1 \in Q
  <2> DEFINE s == g[k]
             c == Index(k + 1, n, 2 * m)
             r == g[k + 1]
  <2>1. k + 1 \in 1 .. m /\ (k + 1) - 1 = k /\ k + 1 \in 0 .. m /\ k \in Nat
    OBVIOUS
  <2>2. r = Seen(s, c) /\ c \in A
    BY <1>1, <1>2, <2>1
  <2>3. /\ s \in Seq(A) /\ Distinct(s) /\ Begins(s, order) /\ Len(s) <= a + k
        /\ \A l \in 1 .. k : \E i \in 1 .. Len(s) : s[i] = Index(l, n, 2 * m)
    BY <1>4
  <2> HIDE DEF s, c, r, A
  <2>4. /\ r \in Seq(A) /\ Distinct(r) /\ Begins(r, s) /\ Len(r) <= Len(s) + 1
        /\ Contains(r, c)
    BY <2>2, <2>3, SeenKeeps, Zenon
  <2>5. Len(s) \in Nat /\ Len(r) \in Nat /\ a \in Nat
    BY <2>3, <2>4
  <2>6. Len(r) <= a + (k + 1)
    BY <2>1, <2>3, <2>4, <2>5
  <2>7. Begins(r, order)
    BY <2>3, <2>4, <2>5 DEF Begins
  <2>8. \A l \in 1 .. k + 1 : \E i \in 1 .. Len(r) : r[i] = Index(l, n, 2 * m)
    <3>1. ASSUME NEW l \in 1 .. k PROVE \E i \in 1 .. Len(r) : r[i] = Index(l, n, 2 * m)
      <4>1. PICK i \in 1 .. Len(s) : s[i] = Index(l, n, 2 * m)
        BY <2>3
      <4>2. i \in 1 .. Len(r) /\ r[i] = s[i]
        BY <2>4, <2>5 DEF Begins
      <4> QED BY <4>1, <4>2
    <3>2. \A l \in 1 .. k + 1 : l \in 1 .. k \/ l = k + 1
      BY <2>1
    <3>3. \E i \in 1 .. Len(r) : r[i] = Index(k + 1, n, 2 * m)
      BY <2>4 DEF Contains, c
    <3> QED BY <3>1, <3>2, <3>3
  <2>9. J(k + 1)
    BY <2>4, <2>6, <2>7, <2>8 DEF r
  <2> HIDE DEF J
  <2> QED BY <2>1, <2>9
<1>5. 0 .. m \subseteq Q
  <2> HIDE DEF Q
  <2> QED BY <1>3, <1>4, UpTo
<1>6. J(m)
  <2>1. m \in 0 .. m
    OBVIOUS
  <2> HIDE DEF J
  <2> QED BY <1>5, <2>1
<1>7. \A k \in 1 .. m : \E i \in 1 .. Len(g[m]) :
        IsFloor(g[m][i], (2 * k - 1) * n, 2 * m)
  <2>1. SUFFICES ASSUME NEW k \in 1 .. m
        PROVE  \E i \in 1 .. Len(g[m]) : IsFloor(g[m][i], (2 * k - 1) * n, 2 * m)
    OBVIOUS
  <2>2. PICK i \in 1 .. Len(g[m]) : g[m][i] = Index(k, n, 2 * m)
    BY <1>6
  <2> QED BY <1>2, <2>2
<1> QED BY <1>1, <1>6, <1>7

\* The first k of the order hold the multiples of n / m.
Covers(order, k, n, m) ==
  \A j \in 0 .. m - 1 : \E i \in 1 .. k : i <= Len(order) /\ IsFloor(order[i], j * n, m)

\* The first k are as spread as twice fewer evenly placed ones, for every k.
Spread(order, n) ==
  \A k \in 1 .. Len(order) : \E m \in Nat \ {0} : k <= 2 * m /\ Covers(order, k, n, m)

LEMMA CoversOn ==
  ASSUME NEW A, NEW s \in Seq(A), NEW r \in Seq(A), Begins(r, s),
         NEW k \in Nat, NEW l \in Nat, k <= Len(s), k <= l,
         NEW n, NEW m, Covers(s, k, n, m)
  PROVE  Covers(r, l, n, m)
<1>1. SUFFICES ASSUME NEW j \in 0 .. m - 1
      PROVE  \E i \in 1 .. l : i <= Len(r) /\ IsFloor(r[i], j * n, m)
  BY DEF Covers
<1>2. PICK i \in 1 .. k : i <= Len(s) /\ IsFloor(s[i], j * n, m)
  BY DEF Covers
<1>3. i \in 1 .. l /\ i \in 1 .. Len(s) /\ Len(s) <= Len(r) /\ Len(r) \in Nat /\ Len(s) \in Nat
  BY DEF Begins
<1>4. r[i] = s[i] /\ i <= Len(r)
  BY <1>3 DEF Begins
<1> QED BY <1>2, <1>3, <1>4

LEMMA CoversTwice ==
  ASSUME NEW n \in Nat \ {0}, NEW m \in Nat \ {0}, NEW s \in Seq(0 .. n - 1),
         NEW r \in Seq(0 .. n - 1), Begins(r, s), Covers(s, Len(s), n, m),
         \A k \in 1 .. m : \E i \in 1 .. Len(r) : IsFloor(r[i], (2 * k - 1) * n, 2 * m)
  PROVE  Covers(r, Len(r), n, 2 * m)
<1> DEFINE c == Len(r)
<1>1. SUFFICES ASSUME NEW j \in 0 .. 2 * m - 1
      PROVE  \E i \in 1 .. c : IsFloor(r[i], j * n, 2 * m)
  <2>1. c \in Nat
    OBVIOUS
  <2>2. \A i \in 1 .. c : i <= c
    BY <2>1
  <2> HIDE DEF c
  <2> QED BY <2>2 DEF Covers, c
<1>2. (\E l \in 0 .. m - 1 : j = 2 * l) \/ (\E k \in 1 .. m : j = 2 * k - 1)
  <2>1. j \in Nat /\ j <= 2 * m - 1
    OBVIOUS
  <2> DEFINE q == j \div 2
  <2>2. q \in Nat /\ (j = 2 * q \/ j = 2 * q + 1)
    BY <2>1
  <2> HIDE DEF q
  <2>3. CASE j = 2 * q
    <3>1. q \in 0 .. m - 1
      BY <2>1, <2>2, <2>3
    <3> QED BY <2>3, <3>1
  <2>4. CASE j = 2 * q + 1
    <3>1. q + 1 \in 1 .. m /\ j = 2 * (q + 1) - 1
      BY <2>1, <2>2, <2>4
    <3> QED BY <3>1
  <2> QED BY <2>2, <2>3, <2>4
<1>3. ASSUME NEW l \in 0 .. m - 1, j = 2 * l
      PROVE  \E i \in 1 .. c : IsFloor(r[i], j * n, 2 * m)
  <2>1. PICK i \in 1 .. Len(s) : IsFloor(s[i], l * n, m)
    BY DEF Covers
  <2>2. i \in 1 .. c /\ r[i] = s[i] /\ s[i] \in Nat
    <3>1. Len(s) \in Nat /\ Len(r) \in Nat
      OBVIOUS
    <3> QED BY <3>1 DEF Begins
  <2> DEFINE q == s[i]
  <2>3. q \in Nat /\ m * q <= l * n /\ l * n < m * q + m
    BY <2>1, <2>2 DEF IsFloor
  <2> HIDE DEF q
  <2>4. /\ m * q \in Nat /\ l * n \in Nat /\ l \in Nat
        /\ (2 * m) * q = 2 * (m * q) /\ (2 * l) * n = 2 * (l * n)
    BY <2>3
  <2>5. (2 * m) * q <= (2 * l) * n /\ (2 * l) * n < (2 * m) * q + 2 * m
    BY <2>3, <2>4
  <2>6. IsFloor(r[i], j * n, 2 * m)
    BY <1>3, <2>2, <2>5 DEF IsFloor, q
  <2> QED BY <2>2, <2>6
<1>4. ASSUME NEW k \in 1 .. m, j = 2 * k - 1
      PROVE  \E i \in 1 .. c : IsFloor(r[i], j * n, 2 * m)
  BY <1>4
<1> QED BY <1>2, <1>3, <1>4

\* Between the multiples of n / m no gap is as long as n / m.
LEMMA NoGap ==
  ASSUME NEW n \in Nat \ {0}, NEW m \in Nat \ {0}, NEW k \in Nat, NEW s \in Seq(0 .. n - 1),
         Covers(s, k, n, m), NEW from \in 0 .. n - 1, NEW to \in from .. n - 1,
         \A i \in 1 .. k : i <= Len(s) => s[i] \notin from .. to
  PROVE  (to - from + 1) * m < n
<1> DEFINE l == to - from + 1
           a == from * m + (n - 1)
           j == a \div n
<1>0. l \in Nat /\ to = from + l - 1 /\ from \in Nat /\ to \in Nat /\ to <= n - 1
  OBVIOUS
<1>1. SUFFICES ASSUME n <= l * m PROVE FALSE
  <2>1. l * m \in Nat
    BY <1>0
  <2> HIDE DEF l
  <2> QED BY <2>1 DEF l
<1>2. from * m \in Nat /\ a \in Nat /\ l * m \in Nat /\ to * m = from * m + l * m - m /\ to * m \in Nat
  <2>1. from * m \in Nat /\ l * m \in Nat
    BY <1>0
  <2>2. to * m = from * m + l * m - m
    <3> HIDE DEF l
    <3> QED BY <1>0
  <2>3. to * m \in Nat
    BY <1>0
  <2> HIDE DEF l
  <2> QED BY <2>1, <2>2, <2>3
<1>3. j \in Nat /\ n * j <= a /\ a < n * j + n
  <2> HIDE DEF a
  <2> QED BY <1>2, Floors DEF IsFloor
<1> HIDE DEF l, j
<1>4. n * j \in Nat /\ j * n = n * j /\ from * m <= n * j /\ n * j < to * m + m
  BY <1>1, <1>2, <1>3
<1>5. j \in 0 .. m - 1
  <2>1. SUFFICES ASSUME m <= j PROVE FALSE
    BY <1>3
  <2>2. n * m <= n * j
    <3> DEFINE x == j - m
    <3>1. x \in Nat /\ j = m + x
      BY <1>3, <2>1
    <3> HIDE DEF x
    <3>2. n * j = n * m + n * x /\ n * x \in Nat /\ n * m \in Nat
      BY <3>1
    <3> QED BY <3>2
  <2>3. to * m + m <= n * m
    <3> DEFINE x == n - 1 - to
    <3>1. x \in Nat /\ n = to + 1 + x
      BY <1>0
    <3> HIDE DEF x
    <3>2. n * m = to * m + m + x * m /\ x * m \in Nat
      BY <1>0, <3>1
    <3> QED BY <1>2, <3>2
  <2>4. n * m \in Nat
    OBVIOUS
  <2> DEFINE u == n * m
             v == n * j
             w == to * m
  <2>5. u <= v /\ w + m <= u /\ v < w + m /\ u \in Nat /\ v \in Nat /\ w \in Nat
    BY <1>2, <1>4, <2>2, <2>3, <2>4
  <2> HIDE DEF u, v, w
  <2> QED BY <2>5
<1>6. PICK i \in 1 .. k : i <= Len(s) /\ IsFloor(s[i], j * n, m)
  BY <1>5 DEF Covers
<1>7. i \in 1 .. Len(s) /\ s[i] \in Nat
  <2>1. i \in 1 .. Len(s)
    BY <1>6
  <2> QED BY <2>1
<1> DEFINE q == s[i]
<1>8. q \in Nat /\ m * q <= j * n /\ j * n < m * q + m
  BY <1>6, <1>7 DEF IsFloor
<1>9. q \notin from .. to
  BY <1>6
<1> HIDE DEF q
<1>10. CASE q < from
  <2> DEFINE x == from - 1 - q
  <2>1. x \in Nat /\ from = q + 1 + x
    BY <1>0, <1>8, <1>10
  <2> HIDE DEF x
  <2>2. from * m = m * q + m + x * m /\ x * m \in Nat /\ m * q \in Nat
    BY <1>8, <2>1
  <2> QED BY <1>4, <1>8, <2>2
<1>11. CASE q > to
  <2> DEFINE x == q - 1 - to
  <2>1. x \in Nat /\ q = to + 1 + x
    BY <1>0, <1>8, <1>11
  <2> HIDE DEF x
  <2>2. m * q = to * m + m + x * m /\ x * m \in Nat
    BY <1>0, <2>1
  <2> QED BY <1>2, <1>4, <1>8, <2>2
<1> QED BY <1>0, <1>8, <1>9, <1>10, <1>11

\* What the loop of _spread_order has after each of its passes.
Orders(n) == {s \in [order : Seq(0 .. n - 1), denom : {2 * m : m \in Nat \ {0}}] : Distinct(s.order)}

Pass(s, n) ==
  IF Len(s.order) < n /\ s.denom <= 2 * n
  THEN [order |-> Bisect(s.order, n, s.denom), denom |-> 2 * s.denom] ELSE s

LEMMA PassType ==
  ASSUME NEW n \in Nat \ {0}, NEW s \in Orders(n)
  PROVE  Pass(s, n) \in Orders(n)
<1>1. PICK m \in Nat \ {0} : s.denom = 2 * m
  BY DEF Orders
<1>2. s.order \in Seq(0 .. n - 1) /\ Distinct(s.order)
  BY DEF Orders
<1> DEFINE r == Bisect(s.order, n, s.denom)
<1>3. r \in Seq(0 .. n - 1) /\ Distinct(r)
  BY <1>1, <1>2, PassAdds
<1>4. 2 * s.denom \in {2 * k : k \in Nat \ {0}}
  <2>1. s.denom \in Nat \ {0}
    BY <1>1
  <2> QED BY <2>1
<1> HIDE DEF r
<1>5. [order |-> r, denom |-> 2 * s.denom] \in Orders(n)
  BY <1>3, <1>4 DEF Orders
<1> QED BY <1>5 DEF Pass, r

LEMMA SpreadRuns ==
  ASSUME NEW n \in Nat \ {0}
  PROVE  \E g : /\ g[0] = [order |-> <<0>>, denom |-> 2] /\ SpreadOrder(n) = g[n].order
                /\ \A e \in 1 .. n : g[e] = Pass(g[e - 1], n)
<1> DEFINE b == [order |-> <<0>>, denom |-> 2]
           t == [e \in 1 .. n |-> e]
           S == Orders(n)
           X == Nat
           F == [s \in S |-> [e \in X |-> Pass(s, n)]]
           Fits(h) == h = [T \in SUBSET (DOMAIN t) |->
                             IF T = {} THEN b
                             ELSE IF Len(h[T \ {Max(T)}].order) < n /\ h[T \ {Max(T)}].denom <= 2 * n
                                  THEN [order |-> Bisect(h[T \ {Max(T)}].order, n, h[T \ {Max(T)}].denom),
                                        denom |-> 2 * h[T \ {Max(T)}].denom]
                                  ELSE h[T \ {Max(T)}]]
           h == CHOOSE f : Fits(f)
<1>1. t \in Seq(X) /\ DOMAIN t = 1 .. n /\ n \in Nat
  OBVIOUS
<1>2. SpreadOrder(n) = h[DOMAIN t].order
  BY DEF SpreadOrder, FoldLeft, MapThenFoldSet
<1>3. \A f : Fits(f) <=> f = [T \in SUBSET (DOMAIN t) |->
                                IF T = {} THEN b ELSE Pass(f[T \ {Max(T)}], n)]
  <2> HIDE DEF t, b
  <2> QED BY DEF Pass
<1> HIDE DEF Fits, h
<1>4. b \in S
  <2>1. <<0>> \in Seq(0 .. n - 1) /\ Distinct(<<0>>)
    BY DEF Distinct
  <2>2. 2 \in {2 * m : m \in Nat \ {0}}
    <3>1. 2 = 2 * 1 /\ 1 \in Nat \ {0}
      OBVIOUS
    <3> QED BY <3>1
  <2> QED BY <2>1, <2>2 DEF Orders
<1>5. \E f : Fits(f)
  <2>1. Steps(F, S, X)
    <3>1. \A s \in S : Pass(s, n) \in S
      BY PassType
    <3> HIDE DEF S, X
    <3> QED BY <3>1 DEF Steps
  <2>2. PICK f : FoldedBy(f, F, S, b, t)
    <3> HIDE DEF F, S, X, b, t
    <3> QED BY <1>1, <1>4, <2>1, FoldOf, Zenon
  <2>3. /\ f \in [SUBSET (DOMAIN t) -> S]
        /\ \A T \in SUBSET (DOMAIN t) :
             f[T] = IF T = {} THEN b ELSE F[f[T \ {Max(T)}]][t[Max(T)]]
    <3> HIDE DEF F, S, X, b, t
    <3> QED BY <2>2, Zenon DEF FoldedBy
  <2>4. \A T \in SUBSET (DOMAIN t) : T # {} =>
          F[f[T \ {Max(T)}]][t[Max(T)]] = Pass(f[T \ {Max(T)}], n)
    <3>1. SUFFICES ASSUME NEW T \in SUBSET (DOMAIN t), T # {}
          PROVE  f[T \ {Max(T)}] \in S /\ t[Max(T)] \in X
      BY DEF F
    <3>2. f[T \ {Max(T)}] \in S
      <4>1. T \ {Max(T)} \in SUBSET (DOMAIN t)
        BY <3>1
      <4> HIDE DEF S, t, F
      <4> QED BY <2>3, <4>1
    <3>3. t[Max(T)] \in X
      <4> DEFINE i == Max(T)
      <4>1. i \in 1 .. n
        BY <1>1, <3>1, LastOf
      <4> HIDE DEF i
      <4>2. t[i] \in X
        BY <1>1, <4>1
      <4> QED BY <4>2 DEF i
    <3> QED BY <3>2, <3>3
  <2>5. f = [T \in SUBSET (DOMAIN t) |-> IF T = {} THEN b ELSE Pass(f[T \ {Max(T)}], n)]
    <3> HIDE DEF F, S, X, b, t
    <3> QED BY <2>3, <2>4
  <2> QED BY <1>3, <2>5, Zenon
<1>6. Fits(h)
  BY <1>5 DEF h
<1>7. \A T \in SUBSET (1 .. n) : h[T] = IF T = {} THEN b ELSE Pass(h[T \ {Max(T)}], n)
  <2> HIDE DEF t, b
  <2>1. h = [T \in SUBSET (1 .. n) |-> IF T = {} THEN b ELSE Pass(h[T \ {Max(T)}], n)]
    BY <1>1, <1>3, <1>6, Zenon
  <2> QED BY <2>1
<1> DEFINE g == [e \in 0 .. n |-> h[1 .. e]]
<1> HIDE DEF b
<1>8. g[0] = b
  <2>1. 1 .. 0 = {} /\ {} \in SUBSET (1 .. n) /\ 0 \in 0 .. n
    BY <1>1, PrefixSets
  <2> QED BY <1>7, <2>1
<1>9. ASSUME NEW e \in 1 .. n PROVE g[e] = Pass(g[e - 1], n)
  <2>1. e \in 0 .. n /\ e - 1 \in 0 .. n
    OBVIOUS
  <2>2. 1 .. e \in SUBSET (1 .. n) /\ 1 .. e # {} /\ Max(1 .. e) = e /\ (1 .. e) \ {e} = 1 .. e - 1
    BY <1>1, PrefixSets
  <2>3. h[1 .. e] = Pass(h[1 .. e - 1], n)
    BY <1>7, <2>2
  <2> QED BY <2>1, <2>3
<1>10. SpreadOrder(n) = g[n].order
  <2>1. g[n] = h[1 .. n]
    BY <1>1
  <2> QED BY <1>1, <1>2, <2>1
<1> HIDE DEF g
<1> QED BY <1>8, <1>9, <1>10 DEF b

\* After e passes the order holds the multiples of n / m, or all numbers.
SpreadSoFar(s, n, e) ==
  /\ s.order \in Seq(0 .. n - 1) /\ Distinct(s.order) /\ Spread(s.order, n)
  /\ \E m \in Nat \ {0} :
       /\ s.denom = 2 * m /\ Covers(s.order, Len(s.order), n, m) /\ Len(s.order) <= m
       /\ Len(s.order) >= n \/ m > n \/ m > e

LEMMA FirstPass ==
  ASSUME NEW n \in Nat \ {0}
  PROVE  SpreadSoFar([order |-> <<0>>, denom |-> 2], n, 0)
<1> DEFINE s == <<0>>
<1>1. s \in Seq(0 .. n - 1) /\ Len(s) = 1 /\ s[1] = 0 /\ Distinct(s)
  BY DEF Distinct
<1> HIDE DEF s
<1>2. Covers(s, 1, n, 1)
  <2>1. 0 * n = 0 /\ 1 * 0 = 0
    OBVIOUS
  <2>2. IsFloor(s[1], 0 * n, 1)
    BY <1>1, <2>1 DEF IsFloor
  <2>3. \A j \in 0 .. 1 - 1 : j = 0
    OBVIOUS
  <2>4. 1 \in 1 .. 1 /\ 1 <= Len(s)
    BY <1>1
  <2> QED BY <2>2, <2>3, <2>4 DEF Covers
<1>3. Spread(s, n)
  <2>1. SUFFICES ASSUME NEW k \in 1 .. 1
        PROVE  \E m \in Nat \ {0} : k <= 2 * m /\ Covers(s, k, n, m)
    BY <1>1 DEF Spread
  <2>2. k = 1 /\ k <= 2 * 1 /\ 1 \in Nat \ {0}
    OBVIOUS
  <2> QED BY <1>2, <2>2
<1>4. 2 = 2 * 1 /\ 1 \in Nat \ {0} /\ 1 > 0 /\ Len(s) <= 1
  BY <1>1
<1> DEFINE r == [order |-> s, denom |-> 2]
<1>5. r.order = s /\ r.denom = 2
  OBVIOUS
<1> HIDE DEF r
<1>6. SpreadSoFar(r, n, 0)
  BY <1>1, <1>2, <1>3, <1>4, <1>5 DEF SpreadSoFar
<1> QED BY <1>6 DEF r, s

LEMMA NextPass ==
  ASSUME NEW n \in Nat \ {0}, NEW e \in Nat, NEW s, SpreadSoFar(s, n, e)
  PROVE  SpreadSoFar(Pass(s, n), n, e + 1)
<1> DEFINE o == s.order
           a == Len(o)
<1>1. PICK m \in Nat \ {0} :
        /\ s.denom = 2 * m /\ Covers(o, a, n, m) /\ a <= m
        /\ a >= n \/ m > n \/ m > e
  BY DEF SpreadSoFar
<1>2. o \in Seq(0 .. n - 1) /\ Distinct(o) /\ Spread(o, n) /\ a \in Nat
  BY DEF SpreadSoFar
<1>3. CASE ~(a < n /\ s.denom <= 2 * n)
  <2>1. Pass(s, n) = s
    BY <1>3 DEF Pass
  <2>2. a >= n \/ m > n \/ m > e + 1
    BY <1>1, <1>2, <1>3
  <2> HIDE DEF o, a
  <2> QED BY <1>1, <1>2, <2>1, <2>2 DEF SpreadSoFar, o, a
<1>4. CASE a < n /\ s.denom <= 2 * n
  <2> DEFINE r == Bisect(o, n, 2 * m)
             q == [order |-> r, denom |-> 2 * (2 * m)]
             c == Len(r)
  <2>1. Pass(s, n) = q
    BY <1>1, <1>4 DEF Pass
  <2> HIDE DEF o
  <2>2. /\ r \in Seq(0 .. n - 1) /\ Distinct(r) /\ Begins(r, o) /\ c <= a + m
        /\ \A k \in 1 .. m : \E i \in 1 .. c : IsFloor(r[i], (2 * k - 1) * n, 2 * m)
    BY <1>2, PassAdds
  <2> HIDE DEF r
  <2>3. Covers(r, c, n, 2 * m)
    BY <1>1, <1>2, <2>2, CoversTwice
  <2>4. c \in Nat /\ a <= c /\ c <= 2 * m /\ 2 * m \in Nat \ {0} /\ (2 * m > n \/ 2 * m > e + 1)
    <3>1. c \in Nat
      BY <2>2
    <3>2. a <= c
      BY <2>2 DEF Begins
    <3> HIDE DEF a, c
    <3> QED BY <1>1, <1>2, <1>4, <2>2, <3>1, <3>2
  <2>5. Spread(r, n)
    <3>1. SUFFICES ASSUME NEW k \in 1 .. c
          PROVE  \E l \in Nat \ {0} : k <= 2 * l /\ Covers(r, k, n, l)
      BY DEF Spread
    <3>2. CASE k <= a
      <4>1. k \in 1 .. a /\ k \in Nat
        BY <1>2, <3>2
      <4>2. PICK l \in Nat \ {0} : k <= 2 * l /\ Covers(o, k, n, l)
        BY <1>2, <4>1 DEF Spread
      <4>3. Covers(r, k, n, l)
        BY <1>2, <2>2, <3>2, <4>1, <4>2, CoversOn
      <4> QED BY <4>2, <4>3
    <3>3. CASE k > a
      <4>1. k \in Nat /\ a <= k /\ k <= 2 * m /\ a <= a
        BY <1>2, <2>4, <3>3
      <4>2. Covers(r, k, n, m)
        BY <1>1, <1>2, <2>2, <4>1, CoversOn
      <4> QED BY <4>1, <4>2
    <3> QED BY <1>2, <3>2, <3>3
  <2>6. q.order = r /\ q.denom = 2 * (2 * m)
    OBVIOUS
  <2> HIDE DEF q
  <2>7. SpreadSoFar(q, n, e + 1)
    BY <2>2, <2>3, <2>4, <2>5, <2>6 DEF SpreadSoFar
  <2> QED BY <2>1, <2>7
<1> QED BY <1>3, <1>4

LEMMA WholeOrder ==
  ASSUME NEW n \in Nat \ {0}
  PROVE  LET order == SpreadOrder(n)
         IN  /\ order \in Seq(0 .. n - 1) /\ Spread(order, n)
             /\ Len(order) = n /\ ToSet(order) = 0 .. n - 1
<1> DEFINE s == SpreadOrder(n)
           c == Len(s)
<1>1. PICK g : /\ g[0] = [order |-> <<0>>, denom |-> 2] /\ s = g[n].order
               /\ \A e \in 1 .. n : g[e] = Pass(g[e - 1], n)
  BY SpreadRuns
<1>2. SpreadSoFar(g[n], n, n)
  <2> DEFINE Q == {e \in 0 .. n : SpreadSoFar(g[e], n, e)}
  <2>1. 0 \in Q
    BY <1>1, FirstPass
  <2>2. ASSUME NEW e \in 0 .. n - 1, e \in Q PROVE e + 1 \in Q
    <3>1. e + 1 \in 1 .. n /\ (e + 1) - 1 = e /\ e \in Nat /\ e + 1 \in 0 .. n
      OBVIOUS
    <3>2. g[e + 1] = Pass(g[e], n)
      BY <1>1, <3>1
    <3>3. SpreadSoFar(g[e + 1], n, e + 1)
      BY <2>2, <3>1, <3>2, NextPass
    <3> QED BY <3>1, <3>3
  <2>3. 0 .. n \subseteq Q
    <3> HIDE DEF Q
    <3> QED BY <2>1, <2>2, UpTo
  <2>4. n \in 0 .. n
    OBVIOUS
  <2> QED BY <2>3, <2>4
<1> HIDE DEF s
<1>3. s \in Seq(0 .. n - 1) /\ Distinct(s) /\ Spread(s, n)
  BY <1>1, <1>2 DEF SpreadSoFar
<1>4. PICK m \in Nat \ {0} : Covers(s, c, n, m) /\ (c >= n \/ m > n)
  BY <1>1, <1>2 DEF SpreadSoFar
<1>5. c \in Nat /\ DOMAIN s = 1 .. c /\ s \in [1 .. c -> 0 .. n - 1]
  BY <1>3
<1>6. /\ IsFiniteSet(0 .. n - 1) /\ Cardinality(0 .. n - 1) = n
      /\ IsFiniteSet(1 .. c) /\ Cardinality(1 .. c) = c
  <2>1. /\ IsFiniteSet(0 .. n - 1)
        /\ Cardinality(0 .. n - 1) = IF 0 > n - 1 THEN 0 ELSE (n - 1) - 0 + 1
    <3>1. 0 \in Int /\ n - 1 \in Int
      OBVIOUS
    <3> QED BY <3>1, FS_Interval
  <2> HIDE DEF c
  <2>2. IsFiniteSet(1 .. c) /\ Cardinality(1 .. c) = IF 1 > c THEN 0 ELSE c - 1 + 1
    <3>1. 1 \in Int /\ c \in Int
      BY <1>5
    <3> QED BY <3>1, FS_Interval
  <2> QED BY <1>5, <2>1, <2>2
<1> HIDE DEF c
<1>7. s \in Injection(1 .. c, 0 .. n - 1)
  BY <1>3, <1>5 DEF Injection, IsInjective, Distinct, c
<1>8. c <= n /\ (c = n <=> s \in Surjection(1 .. c, 0 .. n - 1))
  BY <1>6, <1>7, FS_Injection
<1>9. s \in Surjection(1 .. c, 0 .. n - 1) <=> ToSet(s) = 0 .. n - 1
  <2>1. ToSet(s) = {s[i] : i \in 1 .. c}
    BY <1>5 DEF ToSet
  <2>2. \A i \in 1 .. c : s[i] \in 0 .. n - 1
    BY <1>5
  <2> QED BY <1>5, <2>1, <2>2 DEF Surjection
<1>10. c = n
  <2>1. CASE c >= n
    BY <1>5, <1>8, <2>1
  <2>2. CASE m > n
    <3>1. SUFFICES ASSUME NEW x \in 0 .. n - 1, x \notin ToSet(s) PROVE FALSE
      <4>1. 0 .. n - 1 \subseteq ToSet(s)
        BY <3>1
      <4>2. ToSet(s) \subseteq 0 .. n - 1
        BY <1>5 DEF ToSet
      <4> QED BY <1>8, <1>9, <4>1, <4>2
    <3>2. \A i \in 1 .. c : i <= Len(s) => s[i] \notin x .. x
      <4>1. \A i \in 1 .. c : s[i] # x
        BY <1>5, <3>1 DEF ToSet
      <4>2. \A y \in x .. x : y = x
        OBVIOUS
      <4> QED BY <4>1, <4>2
    <3>3. (x - x + 1) * m < n
      <4>1. x \in x .. n - 1
        OBVIOUS
      <4> QED BY <1>3, <1>4, <1>5, <3>2, <4>1, NoGap
    <3>4. (x - x + 1) * m = m
      OBVIOUS
    <3> QED BY <2>2, <3>3, <3>4
  <2> QED BY <1>4, <2>1, <2>2
<1> QED BY <1>3, <1>8, <1>9, <1>10 DEF c, s

\* The cap cuts the order: what is read is a prefix.
LEMMA ReadPrefix ==
  ASSUME NEW A, NEW order \in Seq(A), NEW size \in [A -> Nat], NEW cap \in Nat
  PROVE  ChunksRead(order, size, cap) \in 0 .. Len(order)
<1> DEFINE b == [chars |-> 0, chunks |-> 0]
           S == [chars : Nat, chunks : Nat]
           More1(got, i) == IF got.chars >= cap THEN got
                            ELSE [chars |-> got.chars + size[i], chunks |-> got.chunks + 1]
           F == [got \in S |-> [i \in A |-> More1(got, i)]]
           Fits(h) == h = [T \in SUBSET (DOMAIN order) |->
                             IF T = {} THEN b
                             ELSE IF h[T \ {Max(T)}].chars >= cap THEN h[T \ {Max(T)}]
                                  ELSE [chars |-> h[T \ {Max(T)}].chars + size[order[Max(T)]],
                                        chunks |-> h[T \ {Max(T)}].chunks + 1]]
           h == CHOOSE f : Fits(f)
           n == Len(order)
<1>1. n \in Nat /\ DOMAIN order = 1 .. n /\ \A i \in 1 .. n : order[i] \in A
  OBVIOUS
<1>2. ChunksRead(order, size, cap) = h[DOMAIN order].chunks
  BY DEF ChunksRead, FoldLeft, MapThenFoldSet
<1>3. \A f : Fits(f) <=> f = [T \in SUBSET (DOMAIN order) |->
                                IF T = {} THEN b ELSE More1(f[T \ {Max(T)}], order[Max(T)])]
  <2> HIDE DEF b
  <2> QED OBVIOUS
<1> HIDE DEF Fits, h
<1>4. b \in S /\ b.chunks = 0
  OBVIOUS
<1>5. ASSUME NEW got \in S, NEW i \in A
      PROVE  More1(got, i) \in S /\ More1(got, i).chunks <= got.chunks + 1
  <2>1. got.chars \in Nat /\ got.chunks \in Nat /\ size[i] \in Nat
    OBVIOUS
  <2> QED BY <2>1
<1> HIDE DEF b, n
<1>6. \E f : Fits(f)
  <2>1. Steps(F, S, A)
    <3> HIDE DEF S, More1
    <3> QED BY <1>5 DEF Steps
  <2>2. PICK f : FoldedBy(f, F, S, b, order)
    <3> HIDE DEF F, S
    <3> QED BY <1>4, <2>1, FoldOf, Zenon
  <2>3. /\ f \in [SUBSET (DOMAIN order) -> S]
        /\ \A T \in SUBSET (DOMAIN order) :
             f[T] = IF T = {} THEN b ELSE F[f[T \ {Max(T)}]][order[Max(T)]]
    <3> HIDE DEF F, S
    <3> QED BY <2>2, Zenon DEF FoldedBy
  <2>4. \A T \in SUBSET (DOMAIN order) : T # {} =>
          F[f[T \ {Max(T)}]][order[Max(T)]] = More1(f[T \ {Max(T)}], order[Max(T)])
    <3>1. SUFFICES ASSUME NEW T \in SUBSET (DOMAIN order), T # {}
          PROVE  f[T \ {Max(T)}] \in S /\ order[Max(T)] \in A
      <4> HIDE DEF More1, S
      <4> QED BY DEF F
    <3>2. f[T \ {Max(T)}] \in S
      <4>1. T \ {Max(T)} \in SUBSET (DOMAIN order)
        BY <3>1
      <4> HIDE DEF S, F
      <4> QED BY <2>3, <4>1
    <3>3. order[Max(T)] \in A
      <4> DEFINE i == Max(T)
      <4>1. i \in 1 .. n
        BY <1>1, <3>1, LastOf
      <4> HIDE DEF i
      <4>2. order[i] \in A
        BY <1>1, <4>1
      <4> QED BY <4>2 DEF i
    <3> QED BY <3>2, <3>3
  <2>5. f = [T \in SUBSET (DOMAIN order) |->
               IF T = {} THEN b ELSE More1(f[T \ {Max(T)}], order[Max(T)])]
    <3> HIDE DEF F, S, More1
    <3> QED BY <2>3, <2>4
  <2> HIDE DEF More1
  <2> QED BY <1>3, <2>5, Zenon
<1>7. \A T \in SUBSET (1 .. n) :
        h[T] = IF T = {} THEN b ELSE More1(h[T \ {Max(T)}], order[Max(T)])
  <2> HIDE DEF More1
  <2>1. Fits(h)
    BY <1>6 DEF h
  <2>2. h = [T \in SUBSET (1 .. n) |->
               IF T = {} THEN b ELSE More1(h[T \ {Max(T)}], order[Max(T)])]
    BY <1>1, <1>3, <2>1, Zenon
  <2> QED BY <2>2
<1> DEFINE Q == {e \in 0 .. n : h[1 .. e] \in S /\ h[1 .. e].chunks <= e}
<1>8. 0 \in Q
  <2>1. 1 .. 0 = {} /\ {} \in SUBSET (1 .. n) /\ 0 \in 0 .. n
    BY <1>1, PrefixSets
  <2>2. h[{}] = b
    BY <1>7, <2>1
  <2> QED BY <1>4, <2>1, <2>2
<1>9. ASSUME NEW e \in 0 .. n - 1, e \in Q PROVE e + 1 \in Q
  <2>1. e + 1 \in 1 .. n /\ (e + 1) - 1 = e /\ e + 1 \in 0 .. n /\ e \in Nat
    BY <1>1
  <2>2. /\ 1 .. e + 1 \in SUBSET (1 .. n) /\ 1 .. e + 1 # {}
        /\ Max(1 .. e + 1) = e + 1 /\ (1 .. e + 1) \ {e + 1} = 1 .. e
    BY <1>1, <2>1, PrefixSets
  <2> DEFINE got == h[1 .. e]
             i == order[e + 1]
  <2>3. h[1 .. e + 1] = More1(got, i)
    <3> HIDE DEF More1
    <3> QED BY <1>7, <2>2
  <2>4. got \in S /\ got.chunks <= e /\ i \in A
    BY <1>1, <1>9, <2>1
  <2> HIDE DEF got, i, More1
  <2>5. More1(got, i) \in S /\ More1(got, i).chunks <= got.chunks + 1
    BY <1>5, <2>4
  <2> DEFINE next == More1(got, i)
  <2>6. next.chunks <= e + 1
    <3>1. next.chunks \in Nat /\ got.chunks \in Nat
      BY <2>4, <2>5
    <3> QED BY <2>1, <2>4, <2>5, <3>1
  <2> QED BY <2>1, <2>3, <2>5, <2>6
<1>10. 0 .. n \subseteq Q
  <2> HIDE DEF Q
  <2> QED BY <1>1, <1>8, <1>9, UpTo
<1>11. h[1 .. n] \in S /\ h[1 .. n].chunks <= n
  <2>1. n \in 0 .. n
    BY <1>1
  <2> HIDE DEF S
  <2> QED BY <1>10, <2>1
<1>12. h[1 .. n].chunks \in 0 .. n
  <2>1. h[1 .. n].chunks \in Nat
    BY <1>11
  <2> HIDE DEF S
  <2> QED BY <1>1, <1>11, <2>1
<1> QED BY <1>1, <1>2, <1>12 DEF n

LEMMA SampleKept ==
  ASSUME NEW n \in Nat, NEW cap \in Nat, NEW uneven \in Nat \ {0}
  PROVE  LET read == ToSet(SampledChunks(n, [i \in 0 .. n - 1 |-> 1 + (i % uneven)], cap))
             k == Cardinality(read)
         IN /\ ToSet(SpreadOrder(n)) = 0 .. n - 1 /\ Len(SpreadOrder(n)) = n
            /\ \A from \in 0 .. n - 1 : \A to \in from .. n - 1 :
                 from .. to \cap read = {} => (to - from + 1) * k < 2 * n
<1> DEFINE size == [i \in 0 .. n - 1 |-> 1 + (i % uneven)]
           order == SpreadOrder(n)
           l == ChunksRead(order, size, cap)
           part == SubSeq(order, 1, l)
           read == ToSet(part)
           k == Cardinality(read)
<1>1. read = ToSet(SampledChunks(n, size, cap))
  BY DEF SampledChunks
<1>2. CASE n = 0
  <2>1. order = <<>>
    BY <1>2 DEF SpreadOrder
  <2>2. Len(<<>>) = 0 /\ DOMAIN <<>> = {} /\ 0 .. n - 1 = {}
    BY <1>2
  <2>3. ToSet(order) = 0 .. n - 1 /\ Len(order) = n
    BY <1>2, <2>1, <2>2 DEF ToSet
  <2> HIDE DEF order, read
  <2> QED BY <2>2, <2>3 DEF order
<1>3. CASE n # 0
  <2>1. /\ order \in Seq(0 .. n - 1) /\ Spread(order, n)
        /\ Len(order) = n /\ ToSet(order) = 0 .. n - 1
    BY <1>3, WholeOrder
  <2>2. size \in [0 .. n - 1 -> Nat]
    <3>1. \A i \in 0 .. n - 1 : i % uneven \in Nat
      OBVIOUS
    <3> QED BY <3>1
  <2> HIDE DEF order, size
  <2>3. l \in 0 .. n
    BY <2>1, <2>2, ReadPrefix
  <2> HIDE DEF l
  <2>4. /\ part \in [1 .. l -> 0 .. n - 1] /\ DOMAIN part = 1 .. l
        /\ \A i \in 1 .. l : part[i] = order[i]
    <3>1. 0 \in 0 .. Len(order) /\ l \in 0 .. Len(order) /\ l \in Nat /\ 0 + 1 = 1 /\ l - 0 = l
      BY <2>1, <2>3
    <3> HIDE DEF part
    <3>2. /\ SubSeq(order, 0 + 1, l) \in Seq(0 .. n - 1) /\ Len(SubSeq(order, 0 + 1, l)) = l - 0
          /\ \A i \in 1 .. l - 0 : SubSeq(order, 0 + 1, l)[i] = order[0 + i]
      BY <2>1, <3>1, Stretch
    <3>3. part \in Seq(0 .. n - 1) /\ Len(part) = l /\ \A i \in 1 .. l : part[i] = order[0 + i]
      BY <3>1, <3>2, Zenon DEF part
    <3>4. \A i \in 1 .. l : 0 + i = i
      BY <3>1
    <3> QED BY <3>3, <3>4
  <2> HIDE DEF part
  <2>5. k \in Nat /\ k <= l
    <3>1. part \in Surjection(1 .. l, read)
      <4>1. read = {part[i] : i \in 1 .. l}
        BY <2>4 DEF ToSet
      <4> HIDE DEF read
      <4> QED BY <2>4, <4>1 DEF Surjection
    <3>2. IsFiniteSet(1 .. l) /\ Cardinality(1 .. l) = IF 1 > l THEN 0 ELSE l - 1 + 1
      <4>1. 1 \in Int /\ l \in Int
        BY <2>3
      <4> QED BY <4>1, FS_Interval
    <3> HIDE DEF read
    <3>3. IsFiniteSet(read) /\ Cardinality(read) <= Cardinality(1 .. l)
      BY <3>1, <3>2, FS_Surjection
    <3>4. Cardinality(read) \in Nat
      BY <3>3, FS_CardinalityType
    <3> QED BY <2>3, <3>2, <3>3, <3>4
  <2>6. ASSUME NEW from \in 0 .. n - 1, NEW to \in from .. n - 1, from .. to \cap read = {}
        PROVE  (to - from + 1) * k < 2 * n
    <3> DEFINE g == to - from + 1
    <3>1. g \in Nat
      OBVIOUS
    <3>2. CASE l = 0
      <4>1. k = 0
        BY <2>5, <3>2
      <4>2. g * 0 = 0
        BY <3>1
      <4> HIDE DEF k
      <4> QED BY <1>3, <4>1, <4>2
    <3>3. CASE l # 0
      <4>1. l \in 1 .. Len(order) /\ l \in Nat
        BY <2>1, <2>3, <3>3
      <4>2. PICK m \in Nat \ {0} : l <= 2 * m /\ Covers(order, l, n, m)
        BY <2>1, <4>1 DEF Spread
      <4>3. \A i \in 1 .. l : i <= Len(order) => order[i] \notin from .. to
        <5>1. \A i \in 1 .. l : order[i] \in read
          BY <2>4 DEF ToSet
        <5> HIDE DEF read
        <5> QED BY <2>6, <5>1
      <4>4. g * m < n
        BY <1>3, <2>1, <4>1, <4>2, <4>3, NoGap
      <4> HIDE DEF g, k
      <4> DEFINE x == 2 * m - k
      <4>5. x \in Nat /\ 2 * m = k + x
        BY <2>5, <4>1, <4>2
      <4> HIDE DEF x
      <4>6. g * (2 * m) = 2 * (g * m) /\ g * (k + x) = g * k + g * x
        BY <2>5, <3>1, <4>5
      <4>7. g * m \in Nat /\ g * k \in Nat /\ g * x \in Nat
        BY <2>5, <3>1, <4>5
      <4>8. g * k < 2 * n
        BY <4>4, <4>5, <4>6, <4>7
      <4> QED BY <4>8 DEF g
    <3> QED BY <3>2, <3>3
  <2> QED BY <1>1, <2>1, <2>6 DEF order, size
<1> QED BY <1>2, <1>3

-----------------------------------------------------------------------------
(* The theorems: a behaviour keeps the job it takes. *)

Given == job \in Jobs \/ job = [kind |-> "chunking"]

LEMMA JobKept == Spec => []Given
<1>1. Init => Given
  BY DEF Init, Given
<1>2. Given /\ [Next]_vars => Given'
  BY DEF Given, Next, vars
<1> QED BY <1>1, <1>2, PTL DEF Spec

LEMMA Arguments ==
  ASSUME Given
  PROVE  /\ job.kind = "clean" => job.letters \in Seq(Letters)
         /\ job.kind = "sample" => job.n \in Nat /\ job.cap \in Nat /\ job.uneven \in Nat \ {0}
         /\ job.kind = "vocabulary" => VocabularyJob(job.author, job.others, job.n)
         /\ job.kind = "prompt" => PromptJob(job.fixed, job.passages, job.drift)
         /\ job.kind = "score" => ScoreJob(job)
         /\ job.kind = "passport" => PassportJob(job.call, job.envUrl)
         /\ job.kind = "corpus" => FolderJob(job.folder)
<1>1. CASE job = [kind |-> "chunking"]
  BY <1>1
<1>2. CASE job \in Jobs
  <2>1. job.kind = "sample" => job.n \in Nat /\ job.cap \in Nat /\ job.uneven \in Nat \ {0}
    BY <1>2, JobAssumption
  <2>2. job.kind = "score" => ScoreJob(job)
    BY <1>2, JobAssumption DEF ScoreJob
  <2>3. job.kind = "passport" => PassportJob(job.call, job.envUrl)
    BY <1>2, JobAssumption DEF PassportJob, Range
  <2>4. job.kind = "corpus" => FolderJob(job.folder)
    BY <1>2, JobAssumption DEF FolderJob, Range
  <2>5. job.kind = "prompt" => PromptJob(job.fixed, job.passages, job.drift)
    <3>1. SUFFICES ASSUME job.kind = "prompt"
          PROVE  PromptJob(job.fixed, job.passages, job.drift)
      OBVIOUS
    <3> DEFINE ps == job.passages
    <3>2. /\ job.fixed \in Nat /\ job.drift \in [1 .. MaxChunks -> Int]
          /\ ps \in Seq(Range(ps)) /\ \A p \in Range(ps) : PassageOK(p)
      BY <1>2, <3>1, JobAssumption DEF PassageOK
    <3> HIDE DEF ps
    <3>3. \A i \in 1 .. Len(ps) : ps[i] \in Range(ps)
      BY <3>2
    <3> QED BY <3>2, <3>3 DEF PromptJob, Passages, ps
  <2>6. job.kind = "vocabulary" => VocabularyJob(job.author, job.others, job.n)
    BY <1>2, JobAssumption DEF VocabularyJob
  <2>7. job.kind = "clean" => job.letters \in Seq(Letters)
    BY <1>2, JobAssumption
  <2> QED BY <2>1, <2>2, <2>3, <2>4, <2>5, <2>6, <2>7
<1> QED BY <1>1, <1>2 DEF Given

\* Whatever the raw text, clean_text keeps the words between the first start line and the
\* next end line and no others; no footer, illustration, curly quote or third line break in
\* a row survives it.
THEOREM ProseKept == Spec => []CleanKeepsProse
<1>1. Given => CleanKeepsProse
  <2>1. SUFFICES ASSUME Given, job.kind = "clean" PROVE CleanKeepsProse
    BY DEF CleanKeepsProse
  <2>2. job.letters \in Seq(Letters)
    BY <2>1, Arguments
  <2> DEFINE raw == job.letters
             clean == CleanText(raw)
  <2>3. /\ Ink(clean) = Ink(ReplaceAll(SubSeq(raw, From(raw) + 1, To(raw) - 1), "curly", "quote"))
        /\ \A i \in DOMAIN clean : clean[i] \notin {"end", "plate", "curly"}
        /\ \A i \in 3 .. Len(clean) : \E j \in i - 2 .. i : clean[j] # "newline"
        /\ clean # <<>> => clean[1] # "newline" /\ clean[Len(clean)] # "newline"
    <3> HIDE DEF raw
    <3> QED BY <2>2, CleanKept DEF NoThree, raw
  <2> QED BY <2>1, <2>3 DEF CleanKeepsProse, From, To
<1> QED BY <1>1, JobKept, PTL

\* However many chunks an author has, _spread_order orders them all, and where the cap cuts
\* the lemmas, k chunks read of n leave no gap of 2n/k chunks.
THEOREM SamplesSpread == Spec => []SampleSpread
<1>1. Given => SampleSpread
  <2>1. SUFFICES ASSUME Given, job.kind = "sample" PROVE SampleSpread
    BY DEF SampleSpread
  <2>2. job.n \in Nat /\ job.cap \in Nat /\ job.uneven \in Nat \ {0}
    BY <2>1, Arguments
  <2> QED BY <2>2, SampleKept, Zenon DEF SampleSpread
<1> QED BY <1>1, JobKept, PTL

\* Whatever the numbers of chunks and the cap, _subsample keeps exactly the cap, both
\* ends, and steps that differ by one at most.
THEOREM Subsampled == Spec => []SubsampleEven
<1>1. Given => SubsampleEven
  BY Arguments, SubsampleSpread
<1> QED BY <1>1, JobKept, PTL

\* Whatever the corpora, a term is listed for one side only, the author uses it, and more
\* than the others in a text of their length; without others four terms are left at most.
THEOREM VocabularySided == Spec => []VocabularyDistinctive
<1>1. Given => VocabularyDistinctive
  BY Arguments, VocabularyKept
<1> QED BY <1>1, JobKept, PTL

\* Whatever the passages, the fixed part of the prompt and what the encoder merges, the
\* prompt keeps its limit, and the packer's sum is right.
THEOREM PromptFits == Spec => []PromptBudget
<1>1. Given => PromptBudget
  BY Arguments, BudgetHolds
<1> QED BY <1>1, JobKept, PTL

\* Whatever the passages, they are shown whole but for the last, which ends at a
\* boundary, and one is left out for room alone.
THEOREM PassagesPacked == Spec => []PassagesWhole
<1>1. Given => PassagesWhole
  BY Arguments, PassagesKept
<1> QED BY <1>1, JobKept, PTL

\* However wrong one measure goes, compute_fit_score moves by the weight of that measure
\* at most, and what it returns is a score that build_passport accepts.
THEOREM ScoreBounded == Spec => []NoMeasureDominates
<1>1. Given => NoMeasureDominates
  BY Arguments, ScoreSteady
<1> QED BY <1>1, JobKept, PTL

\* Whatever orchestrate's model, passages and environment are, build_passport builds, and
\* what it returns for any caller the verifier's schema accepts but for the four forms that
\* the property names.
THEOREM PassportsConform == Spec => []BuiltConforms
<1>1. Given => BuiltConforms
  BY Arguments, BuilderConforms
<1> QED BY <1>1, JobKept, PTL

\* For every folder and manifest, a dry run without a warning means a corpus that seeds,
\* and the two dry runs agree on the manifest's files.
THEOREM DryRunsSound == Spec => []DryRunSound
<1>1. Given => DryRunSound
  BY Arguments, DryRuns
<1> QED BY <1>1, JobKept, PTL
=============================================================================
