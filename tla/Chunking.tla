------------------------------ MODULE Chunking ------------------------------
(***************************************************************************)
(* The three loops that cut a token sequence into overlapping windows:     *)
(* chunk_text, which profiles read; _chunk_and_insert, which an upload     *)
(* stores; _chunk_document, which the seeding script stores.  The script   *)
(* says of its own that it must stay in lockstep with the upload's.        *)
(*                                                                         *)
(* A text is its number of tokens, a window its half-open range of them.   *)
(***************************************************************************)
EXTENDS Integers, Sequences

CONSTANT Texts   \* [total, size, overlap]: tokens, window and overlap; 500 and 50 in production

\* chunk_text raises ValueError for any other overlap; the two others have constants.
ASSUME TextAssumption ==
  /\ Texts \subseteq [total : Nat, size : Nat, overlap : Nat]
  /\ \A t \in Texts : t.overlap < t.size

VARIABLES text, pos, win, over
chunkVars == <<text, pos, win, over>>

Loops == {"chunk_text", "_chunk_and_insert", "_chunk_document"}

\* mutant: the windows do not overlap.
StepWhole == text.size

Step == text.size - text.overlap
Window == [start : Nat, end : Nat]

ChunkTypeOK ==
  /\ text \in Texts
  /\ pos \in [Loops -> Nat]
  /\ win \in [Loops -> Seq(Window)]
  /\ over \in [Loops -> BOOLEAN]

ChunkInit ==
  /\ text \in Texts
  /\ pos = [l \in Loops |-> 0]
  /\ win = [l \in Loops |-> <<>>]
  /\ over = [l \in Loops |-> FALSE]

Least(a, b) == IF a <= b THEN a ELSE b

\* Loop l stores the window [pos, end) and goes on unless it is the last.
Store(l, end, last) ==
  /\ win' = [win EXCEPT ![l] = Append(@, [start |-> pos[l], end |-> end])]
  /\ over' = [over EXCEPT ![l] = last]
  /\ pos' = [pos EXCEPT ![l] = IF last THEN @ ELSE @ + Step]
  /\ UNCHANGED text

\* mutant: the loop runs until no token is left.
StoreAll(l, end) ==
  /\ win' = [win EXCEPT ![l] = Append(@, [start |-> pos[l], end |-> end])]
  /\ pos' = [pos EXCEPT ![l] = @ + Step]
  /\ over' = [over EXCEPT ![l] = pos[l] + Step >= text.total]
  /\ UNCHANGED text

\* An empty text has no window.
NoWindow(l) ==
  /\ pos[l] >= text.total /\ ~over[l]
  /\ over' = [over EXCEPT ![l] = TRUE]
  /\ UNCHANGED <<text, pos, win>>

ChunkText ==
  LET l == "chunk_text" IN
  /\ ~over[l] /\ pos[l] < text.total
  /\ IF pos[l] + text.size >= text.total
     THEN Store(l, text.total, TRUE)
     ELSE Store(l, pos[l] + text.size, FALSE)

\* mutant: the script's loop has lost its break.
ChunkDocumentOverruns ==
  LET l == "_chunk_document" IN
  /\ ~over[l] /\ pos[l] < text.total
  /\ StoreAll(l, Least(pos[l] + text.size, text.total))

ChunkAndInsert ==
  LET l == "_chunk_and_insert"
      end == Least(pos[l] + text.size, text.total) IN
  /\ ~over[l] /\ pos[l] < text.total
  /\ Store(l, end, end = text.total)

ChunkDocument ==
  LET l == "_chunk_document"
      end == Least(pos[l] + text.size, text.total) IN
  /\ ~over[l] /\ pos[l] < text.total
  /\ Store(l, end, end = text.total)

ChunkNext ==
  \/ ChunkText
  \/ ChunkAndInsert
  \/ ChunkDocument
  \/ \E l \in Loops : NoWindow(l)

ChunkSpec == ChunkInit /\ [][ChunkNext]_chunkVars

-----------------------------------------------------------------------------
(* Properties. *)

\* The windows of every loop tile the text: the first starts at 0, each shares
\* exactly the overlap with the one before, none lies inside the one before,
\* and when the loop ends the last one ends with the text.
WindowsTile ==
  \A l \in Loops :
    /\ win[l] # <<>> => win[l][1].start = 0
    /\ \A i \in 1 .. Len(win[l]) : win[l][i].start < win[l][i].end
    /\ \A i \in 2 .. Len(win[l]) :
         /\ win[l][i - 1].end - win[l][i].start = text.overlap
         /\ win[l][i - 1].end < win[l][i].end
    /\ over[l] /\ text.total > 0 =>
         win[l] # <<>> /\ win[l][Len(win[l])].end = text.total

\* A chunk_index means the same passage whoever made it: once they end, the
\* three loops have the same windows (rag_sources[].chunk_id relies on it).
Lockstep ==
  \A l, m \in Loops :
    /\ \A i \in 1 .. Len(win[l]) : i <= Len(win[m]) => win[l][i] = win[m][i]
    /\ over[l] /\ over[m] => Len(win[l]) = Len(win[m])
=============================================================================
