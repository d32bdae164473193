------------------------------ MODULE MCDemand ------------------------------
EXTENDS Demand, TLC

CONSTANTS t1, t2, b1

MCBrowserOf == t1 :> b1 @@ t2 :> b1

(* The poll and the chat share the cookie and the restarts and nothing     *)
(* else: time passes and questions are asked only while no answer has been *)
(* chosen.                                                                 *)
OneConcern ==
  \/ now = 0 /\ granted = <<>>
  \/ /\ \A t \in Tabs : tab[t].choice = Nil
     /\ \A c \in Credentials : responses[c] = Nil

Symmetry == Permutations(Tabs) \cup Permutations(Requests) \cup Permutations(Credentials) \cup Permutations(Answers)
=============================================================================
