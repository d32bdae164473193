---------------------------- MODULE Checkpoints ----------------------------
(***************************************************************************)
(* The signed checkpoints of one election and the three verifiers that     *)
(* read them: verifyChain and verifyFinal (packages/domain/src/            *)
(* checkpoints.ts, run by every trustee before a decryption) and           *)
(* observerChain and verifyPublicAudit (packages/domain/src/observer.ts,   *)
(* run by anybody).  Pure operators, used by the service that writes the   *)
(* chain and by the modules of those who read it.                          *)
(*                                                                         *)
(* A checkpoint is [sequence, previous, archive, state, receipts].  The    *)
(* Ed25519 signature is abstracted to "the service wrote it"; a SHA-256    *)
(* digest is a free constructor (no collisions), so archiveHash is the     *)
(* archive itself.  The poll id and manifest hash of a payload are those   *)
(* of the single election modelled.                                        *)
(*                                                                         *)
(* An archive is [ballots, stage]: the ballots its events hold, and        *)
(* whether it has its EndBallots event ("ended") and its Result event      *)
(* ("tallied").                                                            *)
(***************************************************************************)
EXTENDS Naturals, Sequences, FiniteSets

CONSTANT Nil  \* JSON null, an absent row or column

States == {"Scheduled", "Open", "Closed", "Published", "ResultsSuppressed",
           "Cancelled", "Invalidated"}

Stages == {"open", "ended", "tallied"}

Digest(envelope) == <<"sha256", envelope>>

PreviousDigest(chain) == IF chain = <<>> THEN Nil ELSE Digest(chain[Len(chain)])

VerifyChain(chain) ==
  \A i \in DOMAIN chain :
    /\ chain[i].sequence = i - 1
    /\ chain[i].previous = PreviousDigest(SubSeq(chain, 1, i - 1))
    /\ i > 1 => chain[i - 1].receipts \subseteq chain[i].receipts

Transitions ==
  [Scheduled         |-> {"Open", "Closed", "ResultsSuppressed", "Cancelled"},
   Open              |-> {"Closed", "ResultsSuppressed", "Cancelled"},
   Closed            |-> {"Published", "Cancelled"},
   Published         |-> {"Invalidated"},
   ResultsSuppressed |-> {"Cancelled"},
   Cancelled         |-> {},
   Invalidated       |-> {}]

ObserverChain(chain) ==
  /\ chain # <<>>
  /\ VerifyChain(chain)
  /\ chain[1].state = "Scheduled"
  /\ \A i \in 2 .. Len(chain) : chain[i].state \in Transitions[chain[i - 1].state]
  /\ \A i, j \in DOMAIN chain :
       /\ i < j
       /\ chain[i].state \in {"Closed", "ResultsSuppressed", "Cancelled"}
       => chain[j].receipts = chain[i].receipts

(* Mutant: the last checkpoint may announce another state. *)
VerifyFinalAnyState(final, threshold, expired) ==
  /\ expired
  /\ final.archive.stage = "ended"
  /\ Cardinality(final.archive.ballots) >= threshold
  /\ final.checkpoints # <<>>
  /\ VerifyChain(final.checkpoints)
  /\ LET last == final.checkpoints[Len(final.checkpoints)] IN
       /\ last.archive = final.archive
       /\ last.receipts = final.archive.ballots

(* What a trustee demands of a final set before it decrypts anything.      *)
VerifyFinal(final, threshold, expired) ==
  /\ expired
  /\ final.archive.stage = "ended"
  /\ Cardinality(final.archive.ballots) >= threshold
  /\ final.checkpoints # <<>>
  /\ VerifyChain(final.checkpoints)
  /\ LET last == final.checkpoints[Len(final.checkpoints)] IN
       /\ last.state = "Closed"
       /\ last.archive = final.archive
       /\ last.receipts = final.archive.ballots

(* Mutant: the last checkpoint may announce another state. *)
VerifyAuditAnyState(audit, threshold, expired) ==
  /\ expired
  /\ audit.archive.stage = "tallied"
  /\ Cardinality(audit.archive.ballots) >= threshold
  /\ ObserverChain(audit.checkpoints)
  /\ LET last == audit.checkpoints[Len(audit.checkpoints)] IN
       /\ last.archive = audit.archive
       /\ last.receipts = audit.archive.ballots
  /\ audit.result = Cardinality(audit.archive.ballots)

(* What anybody demands of a published audit package.                      *)
VerifyPublicAudit(audit, threshold, expired) ==
  /\ expired
  /\ audit.archive.stage = "tallied"
  /\ Cardinality(audit.archive.ballots) >= threshold
  /\ ObserverChain(audit.checkpoints)
  /\ LET last == audit.checkpoints[Len(audit.checkpoints)] IN
       /\ last.state = "Published"
       /\ last.archive = audit.archive
       /\ last.receipts = audit.archive.ballots
  /\ audit.result = Cardinality(audit.archive.ballots)
=============================================================================
