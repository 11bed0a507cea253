----------------------------- MODULE MCPassport -----------------------------
(* An instance of Passport for TLC: three pairs, the first two of one month. *)
EXTENDS Passport

CONSTANTS k1, k2, k3, july, august

MCKidOf == [k \in Keys |-> IF k = k3 THEN august ELSE july]
PemOrPath == {{"pem"}, {"path"}}
Both == {{"pem", "path"}}
=============================================================================
