-------------------------- MODULE MCBallotService --------------------------
(* Instances of BallotService for TLC.                                     *)
EXTENDS BallotService, TLC

CONSTANTS b1, b2, b3, b1x   \* b1x: a second ballot made with the credential of b1

MCCredentialOf == (b1 :> "c1") @@ (b1x :> "c1") @@ (b2 :> "c2") @@ (b3 :> "c3")

RequestSymmetry == Permutations(Requests)
=============================================================================
