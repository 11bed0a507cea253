------------------------------ MODULE Exchange ------------------------------
(***************************************************************************)
(* What a caller may rely on, of a Watsonx call and of POST /api/generate: *)
(* whoever asks is answered at most once, with a proper answer or with the *)
(* one failure, and an answer given is never taken back or replaced.       *)
(***************************************************************************)
CONSTANTS Clients, Proper, Failure, NoAnswer

VARIABLES asked, answer

Init == /\ asked = {}
        /\ answer = [c \in Clients |-> NoAnswer]

Ask(c) == /\ c \notin asked
          /\ asked' = asked \cup {c}
          /\ UNCHANGED answer

Reply(c, v) == /\ c \in asked
               /\ answer[c] = NoAnswer
               /\ v \in Proper \cup {Failure}
               /\ answer' = [answer EXCEPT ![c] = v]
               /\ UNCHANGED asked

\* A call that cannot even start is asked and answered in one step.
Refuse(c) == /\ c \notin asked
             /\ asked' = asked \cup {c}
             /\ answer' = [answer EXCEPT ![c] = Failure]

Next == \E c \in Clients : \/ Ask(c) \/ Refuse(c)
                           \/ \E v \in Proper \cup {Failure} : Reply(c, v)

Spec == Init /\ [][Next]_<<asked, answer>>
=============================================================================
