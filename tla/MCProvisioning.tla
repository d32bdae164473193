--------------------------- MODULE MCProvisioning ---------------------------
EXTENDS Provisioning, TLC

Symmetry ==
  Permutations(Persons) \cup Permutations(Providers) \cup Permutations(Pages) \cup Permutations(Requests)
    \cup Permutations(Attempts) \cup Permutations(Tokens) \cup Permutations(Polls) \cup Permutations(Trustees)

InProgress == {r \in Requests : req[r] # Free}

(* Two requests at once matter to the identity service alone: the ceremony *)
(* meets people being known and revoked, and published polls being voted,  *)
(* one request at a time.                                                  *)
OneConcern ==
  \/ /\ approval = NoApproval /\ input = Nil /\ made = {}
     /\ \A r \in InProgress : req[r].step \notin {"credential", "entitled"}
  \/ /\ published # Nil /\ approval = NoApproval /\ Cardinality(InProgress) <= 1
     /\ \A r \in InProgress : req[r].page # Nil
  \/ /\ now = 0 /\ Cardinality(InProgress) <= 1
     /\ \A r \in InProgress : req[r].page # Nil
     /\ \A c \in Pages : page[c].token = Nil /\ page[c].tries <= 1
=============================================================================
