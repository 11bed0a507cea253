----------------------------- MODULE MCUmapCli -----------------------------
(* Instances of UmapCli for TLC: no, one or two seeded authors, of which the   *)
(* protected one has enough chunks for a fit by itself.                      *)
EXTENDS UmapCli, TLC

CONSTANTS u1, u2, d1, d2, austen, guest

MCChunkCount == [d \in Docs |-> IF d = d1 THEN 2 ELSE 1]
MCSeedings ==
  {[d \in Docs |-> NoUuid],
   [d \in Docs |-> IF d = d1 THEN u1 ELSE NoUuid],
   [d \in Docs |-> CASE d = d1 -> u1 [] d = d2 -> u2 [] OTHER -> NoUuid]}
MCSlugOf == u1 :> austen @@ u2 :> guest
MCPlace == [u \in Uuids |-> CASE u = u1 -> 1 [] u = u2 -> 2 [] OTHER -> 3]

Slots == Permutations(Tasks)
=============================================================================
