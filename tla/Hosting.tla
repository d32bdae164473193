------------------------------ MODULE Hosting ------------------------------
(***************************************************************************)
(* One election on its host, as the people see it who trust the host with  *)
(* nothing: a service that keeps the promises of Election until its        *)
(* database is lost and an old backup is restored (docs/RECOVERY.md).  The *)
(* signing key is not lost: a restored service signs its own history, and  *)
(* may come to sign another one than before.                               *)
(*                                                                         *)
(* A signature is deterministic, so what was announced determines the      *)
(* envelopes; a file that holds envelopes, or the digest of a final set,   *)
(* is represented by the announcements.                                    *)
(***************************************************************************)
EXTENDS Election, Checkpoints

CONSTANTS
  Trustees,
  Quorums,      \* the sets of trustees whose shares open the tally
  MaxRestores,  \* bound: backups restored
  Horizon       \* bound: the clock stops here

ASSUME HostingAssumption ==
  /\ Quorums \subseteq SUBSET Trustees
  /\ \A P, Q \in Quorums : P \cap Q # {}
  /\ IsFiniteSet(Ballots)
  /\ {OpensAt, ClosesAt, Threshold, MaxRestores, Horizon} \subseteq Nat

Phases == {"None"} \cup States

Histories == Seq([phase : States, ballots : SUBSET Ballots])

Archives == [ballots : SUBSET Ballots, stage : Stages]

VARIABLES
  shares,    \* the shares table: trustee -> share
  visible,   \* whether management shows the poll as Published
  backup,    \* the latest backup of the ballot service's database
  restores,  \* how many backups have been restored
  published  \* history: the final sets whose tally has been published

hostVars == <<vars, shares, visible, backup, restores, published>>

Database == [phase |-> phase, cast |-> cast, history |-> history, outcome |-> outcome, shares |-> shares]

NoShares == [t \in Trustees |-> Nil]

HostInit ==
  /\ Init
  /\ shares = NoShares
  /\ visible = FALSE
  /\ backup = Database
  /\ restores = 0
  /\ published = {}

(* A withdrawal leaves the archive as it was; nobody reads it then.        *)
Stage(p) ==
  CASE p \in {"Closed", "ResultsSuppressed"} -> "ended"
    [] p \in {"Published", "Invalidated"} -> "tallied"
    [] OTHER -> "open"

Archive(announced) == [ballots |-> announced.ballots, stage |-> Stage(announced.phase)]

(* The signed checkpoints of a history.                                    *)
Envelopes(h) ==
  LET chain[n \in 0 .. Len(h)] ==
        IF n = 0 THEN <<>>
        ELSE Append(chain[n - 1],
               [sequence |-> n - 1, previous |-> PreviousDigest(chain[n - 1]), archive |-> Archive(h[n]),
                state |-> h[n].phase, receipts |-> h[n].ballots])
  IN chain[Len(h)]

FinalSet(h) == [archive |-> Archive(h[Len(h)]), checkpoints |-> Envelopes(h)]

Audit(h) == [archive |-> Archive(h[Len(h)]), checkpoints |-> Envelopes(h), result |-> Cardinality(h[Len(h)].ballots)]

Serve ==
  /\ \/ Schedule \/ Close \/ Withdraw \/ Invalidate
     \/ \E b \in Ballots : Cast(b)
     \/ clock < Horizon /\ Tick
  /\ UNCHANGED <<shares, visible, backup, restores, published>>

(* The tally is published with the shares of a quorum.                     *)
PublishTally ==
  /\ Publish
  /\ \E Q \in Quorums : \A t \in Q : shares[t] # Nil
  /\ published' = published \cup {history}
  /\ UNCHANGED <<shares, visible, backup, restores>>

(* Management shows it afterwards, and withdraws it afterwards; after a    *)
(* restore it is behind in the same way.                                   *)
Show ==
  /\ ~visible /\ phase = "Published"
  /\ visible' = TRUE
  /\ UNCHANGED <<vars, shares, backup, restores, published>>

Hide ==
  /\ visible /\ phase # "Published"
  /\ visible' = FALSE
  /\ UNCHANGED <<vars, shares, backup, restores, published>>

Backup ==
  /\ restores < MaxRestores /\ backup # Database
  /\ backup' = Database
  /\ UNCHANGED <<vars, shares, visible, restores, published>>

Restore ==
  /\ restores < MaxRestores
  /\ backup # Database
  /\ phase' = backup.phase /\ cast' = backup.cast /\ history' = backup.history
  /\ outcome' = backup.outcome /\ shares' = backup.shares
  /\ restores' = restores + 1
  /\ UNCHANGED <<clock, visible, backup, published>>

HostNext == Serve \/ PublishTally \/ Show \/ Hide \/ Backup \/ Restore
=============================================================================
