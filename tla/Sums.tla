-------------------------------- MODULE Sums --------------------------------
(* Python's sum over the values of a dictionary or of a list. *)
EXTENDS Integers, FiniteSetsExt

\* The sum of f[k] for k in S.
Sum(f, S) == MapThenSumSet(LAMBDA k : f[k], S)
=============================================================================
