------------------------------ MODULE Election ------------------------------
(***************************************************************************)
(* What the ballot service promises about one election, with no archive,   *)
(* no transactions, no shares and no concurrent requests: a lifecycle, a   *)
(* set of accepted ballots and a public history that grows by one          *)
(* announcement per change of the lifecycle.  BallotService is shown to    *)
(* implement it.                                                           *)
(*                                                                         *)
(* The lifecycle is the one of the handlers of apps/api/src/ballot.ts.     *)
(* Withdraw may be repeated, as /internal/state allows.                    *)
(***************************************************************************)
EXTENDS Naturals, Sequences, FiniteSets

CONSTANTS
  Ballots,       \* the encrypted ballots voters may send, each one byte string
  CredentialOf,  \* the voting credential that signed each ballot
  OpensAt, ClosesAt,
  Threshold      \* the publication threshold of the manifest

VARIABLES
  clock,    \* the service host's clock
  phase,    \* the lifecycle state, "None" before registration
  cast,     \* the ballots accepted so far
  history,  \* the announcements, each a phase and the ballots counted in it
  outcome   \* the number of votes of the published result, 0 before

vars == <<clock, phase, cast, history, outcome>>

Init ==
  /\ clock = 0
  /\ phase = "None"
  /\ cast = {}
  /\ history = <<>>
  /\ outcome = 0

Announce(p) ==
  /\ phase' = p
  /\ history' = Append(history, [phase |-> p, ballots |-> cast])

Schedule ==
  /\ phase = "None"
  /\ Announce("Scheduled")
  /\ UNCHANGED <<clock, cast, outcome>>

(* A ballot may still be recorded after the deadline, never after Close.   *)
Cast(b) ==
  /\ phase \in {"Scheduled", "Open"}
  /\ clock >= OpensAt
  /\ \A c \in cast : CredentialOf[c] # CredentialOf[b]
  /\ cast' = cast \cup {b}
  /\ phase' = "Open"
  /\ UNCHANGED <<clock, history, outcome>>

Close ==
  /\ phase \in {"Scheduled", "Open"}
  /\ clock >= ClosesAt
  /\ Announce(IF Cardinality(cast) < Threshold THEN "ResultsSuppressed" ELSE "Closed")
  /\ UNCHANGED <<clock, cast, outcome>>

Publish ==
  /\ phase = "Closed"
  /\ Cardinality(cast) >= Threshold
  /\ Announce("Published")
  /\ outcome' = Cardinality(cast)
  /\ UNCHANGED <<clock, cast>>

Withdraw ==
  /\ phase \notin {"None", "Published"}
  /\ Announce("Cancelled")
  /\ UNCHANGED <<clock, cast, outcome>>

Invalidate ==
  /\ phase = "Published"
  /\ Announce("Invalidated")
  /\ UNCHANGED <<clock, cast, outcome>>

Tick ==
  /\ clock' = clock + 1
  /\ UNCHANGED <<phase, cast, history, outcome>>

Next ==
  \/ Schedule
  \/ \E b \in Ballots : Cast(b)
  \/ Close
  \/ Publish
  \/ Withdraw
  \/ Invalidate
  \/ Tick

Spec == Init /\ [][Next]_vars
=============================================================================
