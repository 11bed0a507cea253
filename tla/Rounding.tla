------------------------------ MODULE Rounding ------------------------------
(* Python's round, which _subsample and compute_fit_score use. *)
EXTENDS Integers

\* num / den to the nearest integer, halves to the even one.
RoundHalfEven(num, den) ==
  LET down == num \div den
      rest == 2 * (num % den)
  IN IF rest > den \/ (rest = den /\ down % 2 = 1) THEN down + 1 ELSE down
=============================================================================
