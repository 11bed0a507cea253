------------------------------ MODULE Scatter -------------------------------
(***************************************************************************)
(* What the Style DNA scatter promises to whoever looks at it.             *)
(*                                                                         *)
(* Every author is shown at a position of the plane of some UMAP fit, or   *)
(* not yet placed.  Positions of different fits cannot be compared, so a   *)
(* new fit replaces all the positions at once; an author may also lose its *)
(* position alone, by a new profile or by being deleted.                   *)
(***************************************************************************)
CONSTANTS Authors, Fits, NoFit

VARIABLE shown   \* author -> the fit its position belongs to, or NoFit

Init == shown = [a \in Authors |-> NoFit]

\* A fit f is published for the authors in moved: it leaves nobody behind.
Publish(f, moved) ==
  /\ \A a \in Authors \ moved : shown[a] = NoFit
  /\ shown' = [a \in Authors |-> IF a \in moved THEN f ELSE NoFit]

Unplace(a) == shown' = [shown EXCEPT ![a] = NoFit]

Next == \/ \E f \in Fits, moved \in SUBSET Authors : Publish(f, moved)
        \/ \E a \in Authors : Unplace(a)

Spec == Init /\ [][Next]_shown
=============================================================================
