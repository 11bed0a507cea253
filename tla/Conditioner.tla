---------------------------- MODULE Conditioner -----------------------------
(***************************************************************************)
(* The token budget of the conditioned system prompt.                      *)
(*                                                                         *)
(* A passage is its number of tokens and the tokens after which a sentence *)
(* or a word ends and another one follows.  The rest of the prompt costs   *)
(* its fixed tokens.  Tokens of the pieces do not add up exactly, for the  *)
(* encoder merges across their borders: rendering n pieces together costs  *)
(* drift[n] tokens more than the sum.                                      *)
(***************************************************************************)
EXTENDS SequencesExt, Sums

CONSTANTS
  MaxPromptTokens,  \* _MAX_PROMPT_TOKENS, 1200
  MaxChunks,        \* _MAX_CHUNKS, 5
  SepTokens,        \* tokens of _CHUNK_SEPARATOR
  FallbackTokens    \* tokens of _NO_CHUNKS_FALLBACK

ASSUME PromptAssumption ==
  {MaxPromptTokens, MaxChunks, SepTokens, FallbackTokens} \subseteq Nat

\* mutant: cut where the budget ends.
ClipAnywhere(passage, room) == room

\* _clip_to_boundary of the first room tokens of a passage: how many remain.  A
\* boundary counts only when something follows it, for the text was stripped.
ClipToBoundary(passage, room) ==
  LET sentences == {e \in passage.sentences : e < room}
      words == {e \in passage.words : e < room}
  IN IF sentences # {} THEN Max(sentences)
     ELSE IF words # {} THEN Max(words)
     ELSE 0

\* mutant: the separators are left out of the sum.
PackWithoutSeparators(got, passage, budget) ==
  LET room == budget - got.used IN
  IF got.full \/ room <= 0 THEN [got EXCEPT !.full = TRUE]
  ELSE IF passage.len <= room
       THEN [got EXCEPT !.kept = Append(@, passage.len), !.used = @ + passage.len]
       ELSE [got EXCEPT !.full = TRUE,
                        !.kept = IF ClipToBoundary(passage, room) = 0 THEN @
                                 ELSE Append(@, ClipToBoundary(passage, room))]

\* One turn of the loop of _fit_chunks_to_token_budget.
Pack(got, passage, budget) ==
  LET sep == IF got.kept = <<>> THEN 0 ELSE SepTokens
      room == budget - got.used - sep
      clipped == ClipToBoundary(passage, room)
  IN IF got.full \/ room <= 0 THEN [got EXCEPT !.full = TRUE]
     ELSE IF passage.len <= room
          THEN [got EXCEPT !.kept = Append(@, passage.len), !.used = @ + sep + passage.len]
          ELSE [got EXCEPT !.full = TRUE,
                           !.kept = IF clipped = 0 THEN @ ELSE Append(@, clipped)]

\* _fit_chunks_to_token_budget: how many tokens of each passage are kept.
FitChunks(passages, budget) ==
  IF budget <= 0 THEN <<>>
  ELSE LET got[n \in 0 .. Len(passages)] ==
             IF n = 0 THEN [kept |-> <<>>, used |-> 0, full |-> FALSE]
             ELSE Pack(got[n - 1], passages[n], budget)
       IN got[Len(passages)].kept

\* The tokens of the prompt that shows the first n of the kept passages.
PromptTokens(fixed, kept, n, drift) ==
  IF n = 0 THEN fixed + FallbackTokens
  ELSE fixed + Sum(kept, 1 .. n) + (n - 1) * SepTokens + drift[n]

\* The last loop of build_system_prompt: passages go, last first, until the
\* prompt fits or none is left.
Trim(fixed, kept, drift) ==
  LET fits == {n \in 1 .. Len(kept) :
                 PromptTokens(fixed, kept, n, drift) <= MaxPromptTokens}
  IN SubSeq(kept, 1, IF fits = {} THEN 0 ELSE Max(fits))

\* The passages that pass the count and the token budget.
PackedPassages(fixed, passages) ==
  FitChunks(SubSeq(passages, 1, IF Len(passages) < MaxChunks THEN Len(passages) ELSE MaxChunks),
            IF fixed < MaxPromptTokens THEN MaxPromptTokens - fixed ELSE 0)

\* build_system_prompt: the tokens it shows of each passage.
BuildSystemPrompt(fixed, passages, drift) ==
  Trim(fixed, PackedPassages(fixed, passages), drift)
=============================================================================
