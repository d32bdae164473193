--------------------------- MODULE BallotService ---------------------------
(***************************************************************************)
(* The ballot service (apps/api/src/ballot.ts): one election, the requests *)
(* the service works on at the same time, and its four tables.  Elections  *)
(* share no row and no lock, so one is enough.                             *)
(*                                                                         *)
(* Every write happens in a transaction that takes the row of the election *)
(* with SELECT ... FOR UPDATE, calls the Belenios core (up to 90 seconds,  *)
(* during which the clock goes on and other requests arrive) and commits.  *)
(* A handler with a core call is two actions: the one that takes the row   *)
(* and makes the handler's checks, and the one that uses the core's answer *)
(* and commits.  Abort is everything else that can end a request between   *)
(* the two, and changes no table.  A handler without a core call           *)
(* (SetState) is one action.  /internal/final and /audit read two tables   *)
(* with no transaction, so other requests may commit between the two.      *)
(***************************************************************************)
EXTENDS Checkpoints

CONSTANTS
  Requests,        \* the requests in progress at any time
  Ballots,         \* the encrypted ballots voters may send, each one byte string
  CredentialOf,    \* the voting credential that signed each ballot
  Setups,          \* manifest and genesis archive pairs that may be registered
  ShareBytes,      \* the byte strings a trustee's decryption share may have
  OpensAt, ClosesAt, Threshold,  \* from the manifest
  Horizon,         \* bound: the clock stops here
  MaxCheckpoints   \* bound: no withdrawal once the chain is this long

ASSUME ConstantsAssumption ==
  /\ OpensAt \in Nat /\ ClosesAt \in Nat /\ OpensAt < ClosesAt
  /\ Threshold \in Nat /\ Threshold >= 1
  /\ Horizon \in Nat /\ MaxCheckpoints \in Nat
  /\ IsFiniteSet(Ballots)
  /\ Nil \notin Nat
  /\ Nil \notin Setups
  /\ Nil \notin ShareBytes

Trustees == 1 .. 4

VARIABLES
  now,           \* the host clock
  setup,         \* the registered manifest and roster, Nil before
  state, archive, finalArchive, result,  \* the columns of the elections row
  ballots,       \* the ballots table
  shares,        \* the shares table: trustee -> share
  checkpoints,   \* the checkpoints table, by sequence
  pc, arg, row,  \* per request: where it waits, its input, the row it read
  acked,         \* the ballots whose receipt a voter has received
  finals,        \* what /internal/final has answered
  audits         \* what /audit has answered

tables == <<setup, state, archive, finalArchive, result, ballots, shares, checkpoints>>
replies == <<acked, finals, audits>>
vars == <<now, tables, pc, arg, row, replies>>

Archives == [ballots : SUBSET Ballots, stage : Stages]

Registered == state # "None"

Row == [archive |-> archive, finalArchive |-> finalArchive, result |-> result]

(* The requests that hold the row lock while the core works for them.      *)
Locking == {"accept", "close", "share", "tally"}

(* Mutant: no SELECT ... FOR UPDATE anywhere. *)
NeverLocked == TRUE

RowFree == \A q \in Requests : pc[q] \notin Locking

Arrive(r, step, input, read) ==
  /\ pc[r] = "idle"
  /\ pc' = [pc EXCEPT ![r] = step]
  /\ arg' = [arg EXCEPT ![r] = input]
  /\ row' = [row EXCEPT ![r] = read]

Finish(r) ==
  /\ pc' = [pc EXCEPT ![r] = "idle"]
  /\ arg' = [arg EXCEPT ![r] = Nil]
  /\ row' = [row EXCEPT ![r] = Nil]

(* checkpoint(): the next checkpoint of the chain, written in the          *)
(* transaction of the change it announces.                                 *)
Checkpoint(s, a) ==
  checkpoints' = Append(checkpoints,
    [sequence |-> Len(checkpoints), previous |-> PreviousDigest(checkpoints),
     archive |-> a, state |-> s, receipts |-> ballots])

Init ==
  /\ now = 0
  /\ setup = Nil
  /\ state = "None"
  /\ archive = [ballots |-> {}, stage |-> "open"]
  /\ finalArchive = Nil
  /\ result = Nil
  /\ ballots = {}
  /\ shares = [t \in Trustees |-> Nil]
  /\ checkpoints = <<>>
  /\ pc = [r \in Requests |-> "idle"]
  /\ arg = [r \in Requests |-> Nil]
  /\ row = [r \in Requests |-> Nil]
  /\ acked = {} /\ finals = {} /\ audits = {}

----------------------------------------------------------------------------
(* POST /internal/register.  The core has checked an archive without       *)
(* ballots; the transaction holds an advisory lock, not the row's.         *)

Register(r, s) ==
  /\ now < ClosesAt
  /\ Arrive(r, "register", s, Nil)
  /\ UNCHANGED <<now, tables, replies>>

RegisterCommit(r) ==
  /\ pc[r] = "register"
  /\ setup = Nil
  /\ setup' = arg[r]
  /\ state' = "Scheduled"
  /\ Checkpoint("Scheduled", archive)
  /\ Finish(r)
  /\ UNCHANGED <<now, archive, finalArchive, result, ballots, shares, replies>>

(* A second registration: the same setup is acknowledged, any other is     *)
(* refused, and neither changes anything.                                  *)
RegisterAgain(r) ==
  /\ pc[r] = "register"
  /\ setup # Nil
  /\ Finish(r)
  /\ UNCHANGED <<now, tables, replies>>

----------------------------------------------------------------------------
(* POST /v1/elections/:id/ballots                                          *)

(* Mutant: the opening time is not checked. *)
VotingOpenEarly == state \in {"Scheduled", "Open"} /\ now < ClosesAt

VotingOpen == state \in {"Scheduled", "Open"} /\ OpensAt <= now /\ now < ClosesAt

(* A ballot already recorded is answered with its receipt, at any time.    *)
ReplayBallot(b) ==
  /\ Registered /\ RowFree
  /\ b \in ballots
  /\ acked' = acked \cup {b}
  /\ UNCHANGED <<now, tables, pc, arg, row, finals, audits>>

(* GET /v1/elections/:id/tracker, which takes no lock.                     *)
Tracker(b) ==
  /\ b \in ballots
  /\ acked' = acked \cup {b}
  /\ UNCHANGED <<now, tables, pc, arg, row, finals, audits>>

PostBallot(r, b) ==
  /\ Registered /\ RowFree
  /\ b \notin ballots
  /\ VotingOpen
  /\ Arrive(r, "accept", b, Row)
  /\ UNCHANGED <<now, tables, replies>>

(* The core's accept: a credential votes once.                             *)
CoreAccept(a, b) ==
  /\ a.stage = "open"
  /\ \A c \in a.ballots : CredentialOf[c] = CredentialOf[b] => c = b

(* The primary key of the ballots table.                                   *)
UniqueCredential(b) == \A c \in ballots : CredentialOf[c] # CredentialOf[b]

(* The ballot, the archive and the state change together; the voter may or *)
(* may not get the answer.                                                 *)
AcceptCommit(r) ==
  LET b == arg[r] IN
  /\ pc[r] = "accept"
  /\ CoreAccept(row[r].archive, b)
  /\ UniqueCredential(b)
  /\ ballots' = ballots \cup {b}
  /\ archive' = [row[r].archive EXCEPT !.ballots = @ \cup {b}]
  /\ state' = "Open"
  /\ acked' \in {acked, acked \cup {b}}
  /\ Finish(r)
  /\ UNCHANGED <<now, setup, finalArchive, result, shares, checkpoints, finals, audits>>

----------------------------------------------------------------------------
(* POST /internal/close/:id                                                *)

(* Mutant: the row is read without FOR UPDATE. *)
CloseUnlocked(r) ==
  /\ Registered
  /\ now >= ClosesAt
  /\ state \in {"Scheduled", "Open"}
  /\ Arrive(r, "close", Nil, Row)
  /\ UNCHANGED <<now, tables, replies>>

(* Mutant: the deadline is not checked. *)
CloseEarly(r) ==
  /\ Registered /\ RowFree
  /\ state \in {"Scheduled", "Open"}
  /\ Arrive(r, "close", Nil, Row)
  /\ UNCHANGED <<now, tables, replies>>

Close(r) ==
  /\ Registered /\ RowFree
  /\ now >= ClosesAt
  /\ state \in {"Scheduled", "Open"}
  /\ Arrive(r, "close", Nil, Row)
  /\ UNCHANGED <<now, tables, replies>>

(* Mutant: a state the schema does not have. *)
VerdictTypo(a) == IF Cardinality(a.ballots) < Threshold THEN "Suppressed" ELSE "Closed"

Verdict(a) == IF Cardinality(a.ballots) < Threshold THEN "ResultsSuppressed" ELSE "Closed"

CloseCommit(r) ==
  LET closed == [row[r].archive EXCEPT !.stage = "ended"] IN
  /\ pc[r] = "close"
  /\ row[r].archive.stage = "open"
  /\ archive' = closed
  /\ finalArchive' = closed
  /\ state' = Verdict(closed)
  /\ Checkpoint(Verdict(closed), closed)
  /\ Finish(r)
  /\ UNCHANGED <<now, setup, result, ballots, shares, replies>>

----------------------------------------------------------------------------
(* POST /internal/share/:id                                                *)

Share(r, t, s) ==
  /\ Registered /\ RowFree
  /\ state = "Closed"
  /\ Arrive(r, "share", <<t, s>>, Row)
  /\ UNCHANGED <<now, tables, replies>>

(* Mutant: a later share replaces the recorded one. *)
ShareReplace(r) ==
  LET t == arg[r][1]
      s == arg[r][2]
  IN
  /\ pc[r] = "share"
  /\ row[r].finalArchive.stage = "ended"
  /\ Cardinality(row[r].finalArchive.ballots) >= Threshold
  /\ shares' = [shares EXCEPT ![t] = s]
  /\ Finish(r)
  /\ UNCHANGED <<now, setup, state, archive, finalArchive, result, ballots, checkpoints, replies>>

(* The core has verified the share against the final archive.  The first   *)
(* share of a trustee is kept; a different one is refused.                 *)
ShareCommit(r) ==
  LET t == arg[r][1]
      s == arg[r][2]
  IN
  /\ pc[r] = "share"
  /\ row[r].finalArchive.stage = "ended"
  /\ Cardinality(row[r].finalArchive.ballots) >= Threshold
  /\ shares[t] \in {Nil, s}
  /\ shares' = [shares EXCEPT ![t] = s]
  /\ Finish(r)
  /\ UNCHANGED <<now, setup, state, archive, finalArchive, result, ballots, checkpoints, replies>>

----------------------------------------------------------------------------
(* POST /internal/tally/:id                                                *)

(* The mandatory trustee and two of the three threshold trustees.          *)
Quorum == shares[1] # Nil /\ Cardinality({t \in 2 .. 4 : shares[t] # Nil}) >= 2

(* Mutant: any three shares are taken for a quorum. *)
TallyAnyThree(r) ==
  /\ Registered /\ RowFree
  /\ state = "Closed"
  /\ Cardinality({t \in Trustees : shares[t] # Nil}) >= 3
  /\ Arrive(r, "tally", Nil, Row)
  /\ UNCHANGED <<now, tables, replies>>

Tally(r) ==
  /\ Registered /\ RowFree
  /\ state = "Closed"
  /\ Quorum
  /\ Arrive(r, "tally", Nil, Row)
  /\ UNCHANGED <<now, tables, replies>>

(* The core's finalize, then the check of its total against the table.     *)
TallyCommit(r) ==
  LET counted == row[r].archive.ballots
      tallied == [row[r].archive EXCEPT !.stage = "tallied"]
  IN
  /\ pc[r] = "tally"
  /\ row[r].archive.stage = "ended"
  /\ Cardinality(counted) = Cardinality(ballots)
  /\ Cardinality(counted) >= Threshold
  /\ archive' = tallied
  /\ result' = Cardinality(counted)
  /\ state' = "Published"
  /\ Checkpoint("Published", tallied)
  /\ Finish(r)
  /\ UNCHANGED <<now, setup, finalArchive, ballots, shares, replies>>

----------------------------------------------------------------------------
(* POST /internal/state/:id, the two exceptional outcomes.                 *)

Cancel ==
  /\ Registered /\ RowFree
  /\ state # "Published"
  /\ Len(checkpoints) < MaxCheckpoints
  /\ state' = "Cancelled"
  /\ Checkpoint("Cancelled", archive)
  /\ UNCHANGED <<now, setup, archive, finalArchive, result, ballots, shares, pc, arg, row, replies>>

(* Mutant: the state is not checked. *)
InvalidateAnyState ==
  /\ Registered /\ RowFree
  /\ Len(checkpoints) < MaxCheckpoints
  /\ state' = "Invalidated"
  /\ Checkpoint("Invalidated", archive)
  /\ UNCHANGED <<now, setup, archive, finalArchive, result, ballots, shares, pc, arg, row, replies>>

Invalidate ==
  /\ Registered /\ RowFree
  /\ state = "Published"
  /\ state' = "Invalidated"
  /\ Checkpoint("Invalidated", archive)
  /\ UNCHANGED <<now, setup, archive, finalArchive, result, ballots, shares, pc, arg, row, replies>>

----------------------------------------------------------------------------
(* POST /internal/final/:id and GET /v1/elections/:id/audit: the row first,*)
(* the checkpoints in a later query.                                       *)

ReadFinal(r) ==
  /\ state = "Closed"
  /\ finalArchive # Nil
  /\ Arrive(r, "final", Nil, Row)
  /\ UNCHANGED <<now, tables, replies>>

ReturnFinal(r) ==
  /\ pc[r] = "final"
  /\ finals' = finals \cup {[archive |-> row[r].finalArchive, checkpoints |-> checkpoints]}
  /\ Finish(r)
  /\ UNCHANGED <<now, tables, acked, audits>>

ReadAudit(r) ==
  /\ state = "Published"
  /\ Arrive(r, "audit", Nil, Row)
  /\ UNCHANGED <<now, tables, replies>>

ReturnAudit(r) ==
  /\ pc[r] = "audit"
  /\ audits' = audits \cup {[archive |-> row[r].archive, result |-> row[r].result,
                             checkpoints |-> checkpoints]}
  /\ Finish(r)
  /\ UNCHANGED <<now, tables, acked, finals>>

----------------------------------------------------------------------------
(* A request that ends without an effect: the core refuses or times out, a *)
(* statement fails, a check after the core call fails, the connection is   *)
(* lost or the process dies.  The transaction is rolled back.              *)
Abort(r) ==
  /\ pc[r] # "idle"
  /\ Finish(r)
  /\ UNCHANGED <<now, tables, replies>>

Tick ==
  /\ now < Horizon
  /\ now' = now + 1
  /\ UNCHANGED <<tables, pc, arg, row, replies>>

Next ==
  \/ \E r \in Requests, s \in Setups : Register(r, s)
  \/ \E r \in Requests : RegisterCommit(r)
  \/ \E r \in Requests : RegisterAgain(r)
  \/ \E b \in Ballots : ReplayBallot(b)
  \/ \E b \in Ballots : Tracker(b)
  \/ \E r \in Requests, b \in Ballots : PostBallot(r, b)
  \/ \E r \in Requests : AcceptCommit(r)
  \/ \E r \in Requests : Close(r)
  \/ \E r \in Requests : CloseCommit(r)
  \/ \E r \in Requests, t \in Trustees, s \in ShareBytes : Share(r, t, s)
  \/ \E r \in Requests : ShareCommit(r)
  \/ \E r \in Requests : Tally(r)
  \/ \E r \in Requests : TallyCommit(r)
  \/ Cancel
  \/ Invalidate
  \/ \E r \in Requests : ReadFinal(r)
  \/ \E r \in Requests : ReturnFinal(r)
  \/ \E r \in Requests : ReadAudit(r)
  \/ \E r \in Requests : ReturnAudit(r)
  \/ \E r \in Requests : Abort(r)
  \/ Tick

Spec == Init /\ [][Next]_vars

----------------------------------------------------------------------------
TablesTypeOK ==
  /\ now \in Nat
  /\ setup \in Setups \cup {Nil}
  /\ state \in States \cup {"None"}
  /\ archive \in Archives
  /\ finalArchive \in Archives \cup {Nil}
  /\ result \in Nat \cup {Nil}
  /\ ballots \subseteq Ballots
  /\ shares \in [Trustees -> ShareBytes \cup {Nil}]
  /\ checkpoints \in Seq({checkpoints[i] : i \in DOMAIN checkpoints})
  /\ \A i \in DOMAIN checkpoints :
       /\ checkpoints[i].archive \in Archives
       /\ checkpoints[i].state \in States
       /\ checkpoints[i].receipts \subseteq Ballots

RequestsTypeOK ==
  /\ pc \in [Requests -> Locking \cup {"idle", "register", "final", "audit"}]
  /\ DOMAIN arg = Requests /\ DOMAIN row = Requests
  /\ \A r \in Requests :
       /\ pc[r] = "register" => arg[r] \in Setups
       /\ pc[r] = "accept" => arg[r] \in Ballots
       /\ pc[r] = "share" => arg[r] \in Trustees \X ShareBytes

(* Types.  A request that waits for the core holds its input.              *)
TypeOK == TablesTypeOK /\ RequestsTypeOK /\ acked \subseteq Ballots

(* The two records of the accepted ballots, the table and the archive that *)
(* the core keeps, never disagree, and hold one ballot per credential.     *)
BoxConsistent ==
  /\ archive.ballots = ballots
  /\ \A b, c \in ballots : CredentialOf[b] = CredentialOf[c] => b = c

(* A receipt in a voter's hands is in every checkpoint after the genesis:  *)
(* also when its ballot was posted before the deadline and recorded after. *)
AcknowledgedAnnounced ==
  \A i \in DOMAIN checkpoints :
    checkpoints[i].state # "Scheduled" => acked \subseteq checkpoints[i].receipts

(* After the close no request, however long it was under way, changes the  *)
(* final archive or the set of ballots, or opens the election again.       *)
ClosedSetFrozen ==
  [][finalArchive # Nil =>
       /\ finalArchive' = finalArchive
       /\ ballots' = ballots
       /\ state' \notin {"Scheduled", "Open"}]_vars

(* Nothing that was recorded is taken back or replaced: the manifest and   *)
(* the roster of the first registration, a ballot, a share, a checkpoint.  *)
RecordsOnlyGrow ==
  [][/\ setup # Nil => setup' = setup
     /\ ballots \subseteq ballots'
     /\ \A t \in Trustees : shares[t] # Nil => shares'[t] = shares[t]
     /\ Len(checkpoints) <= Len(checkpoints')
     /\ SubSeq(checkpoints', 1, Len(checkpoints)) = checkpoints]_vars

(* A withdrawal is announced at most once, and not after an invalidation.  *)
WithdrawnOnce ==
  \A i \in 2 .. Len(checkpoints) :
    checkpoints[i].state = "Cancelled" =>
      checkpoints[i - 1].state \notin {"Cancelled", "Invalidated"}

(* Every public observer accepts the chain, whatever the requests did.     *)
HistoryVerifiable == Registered => ObserverChain(checkpoints)

(* The same, as long as the operator withdraws an election at most once.   *)
HistoryVerifiableIfWithdrawnOnce == WithdrawnOnce => HistoryVerifiable

(* All the trustees that accept a final set accept the same one, although  *)
(* /internal/final reads the row and the checkpoints apart: two trustees   *)
(* never bind their keys to different sets of ballots.                     *)
OneFinalSet ==
  \A f, g \in finals :
    /\ VerifyFinal(f, Threshold, now >= ClosesAt)
    /\ VerifyFinal(g, Threshold, now >= ClosesAt)
    => f = g /\ f.archive.ballots = ballots

(* A verified audit package is the only one, and counts every ballot whose *)
(* receipt a voter holds.                                                  *)
OneAudit ==
  \A a, b \in audits :
    /\ VerifyPublicAudit(a, Threshold, now >= ClosesAt)
    /\ VerifyPublicAudit(b, Threshold, now >= ClosesAt)
    => a = b /\ acked \subseteq a.archive.ballots /\ a.result = Cardinality(ballots)

(* A share exists only for a set of ballots that was closed after the      *)
(* deadline, announced, and large enough to be published.                  *)
DecryptedOnlyAfterClose ==
  (\E t \in Trustees : shares[t] # Nil) =>
    \E i \in DOMAIN checkpoints :
      /\ checkpoints[i].state = "Closed"
      /\ checkpoints[i].receipts = ballots
      /\ Cardinality(ballots) >= Threshold
      /\ now >= ClosesAt

(* A result is recorded once, by a quorum of trustees, and is the number   *)
(* of ballots in the table.                                                *)
ResultHonest ==
  result # Nil =>
    /\ Quorum
    /\ result = Cardinality(ballots) /\ result >= Threshold
    /\ \E i \in DOMAIN checkpoints : checkpoints[i].state = "Published"

(* The inductive strengthening of the safety properties.                   *)

Voting == state \in {"None", "Scheduled", "Open"}

(* One request at a time holds the row, and the row it read is current.    *)
RowHeld ==
  /\ \A q, r \in Requests : pc[q] \in Locking /\ pc[r] \in Locking => q = r
  /\ \A r \in Requests : pc[r] \in Locking => Registered /\ row[r] = Row

(* What the checks before the core call found still holds.                 *)
ChecksHold ==
  \A r \in Requests :
    /\ pc[r] = "accept" => Voting /\ arg[r] \notin ballots /\ now >= OpensAt
    /\ pc[r] = "close" => Voting /\ now >= ClosesAt
    /\ pc[r] = "share" => state = "Closed"
    /\ pc[r] = "tally" => state = "Closed" /\ Quorum

(* What the columns of the row say in each part of the lifecycle.          *)
RowConsistent ==
  /\ setup = Nil <=> state = "None"
  /\ state = "None" => ballots = {} /\ checkpoints = <<>>
  /\ Voting => archive.stage = "open" /\ finalArchive = Nil
  /\ state \in {"Closed", "Published"} => finalArchive = [archive EXCEPT !.stage = "ended"]
  /\ state = "Closed" =>
       /\ archive.stage = "ended" /\ result = Nil
       /\ Cardinality(ballots) >= Threshold
       /\ now >= ClosesAt
       /\ \E i \in DOMAIN checkpoints : checkpoints[i].state = "Closed"

(* Every checkpoint but the genesis announces the final set of ballots.    *)
FinalSetAnnounced ==
  /\ acked \subseteq ballots
  /\ \A i \in DOMAIN checkpoints :
       checkpoints[i].state # "Scheduled" => checkpoints[i].receipts = ballots /\ ~Voting

OutcomeConsistent ==
  /\ Voting => result = Nil /\ \A t \in Trustees : shares[t] = Nil
  /\ DecryptedOnlyAfterClose
  /\ ResultHonest

IInv ==
  /\ TypeOK
  /\ BoxConsistent
  /\ RowHeld
  /\ ChecksHold
  /\ RowConsistent
  /\ FinalSetAnnounced
  /\ OutcomeConsistent

(* The service implements Election: what is committed is a lifecycle of    *)
(* whole steps, whatever the requests in progress.                         *)
Promise == INSTANCE Election WITH
  clock <- now,
  phase <- state,
  cast <- ballots,
  history <- [i \in DOMAIN checkpoints |->
                [phase |-> checkpoints[i].state, ballots |-> checkpoints[i].receipts]],
  outcome <- IF result = Nil THEN 0 ELSE result

ElectionSpec == Promise!Spec
=============================================================================
