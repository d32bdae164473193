------------------------ MODULE BallotServiceProofs ------------------------
(***************************************************************************)
(* Theorems of the ballot service, for every number of concurrent          *)
(* requests, every set of ballots and setups, every threshold and window   *)
(* and every length of the history.  They rest on one inductive invariant, *)
(* IInv, whose heart is RowHeld: the row a transaction read under the lock *)
(* is still the row when it commits.                                       *)
(***************************************************************************)
EXTENDS BallotService, FiniteSetTheorems, SequenceTheorems, TLAPS

(* What Append does, in the form the steps below use it.                   *)
LEMMA AppendFacts ==
  ASSUME NEW s, NEW e, s \in Seq({s[i] : i \in DOMAIN s})
  PROVE  LET t == Append(s, e) IN
         /\ Len(s) \in Nat /\ DOMAIN s = 1 .. Len(s)
         /\ Len(t) = Len(s) + 1 /\ DOMAIN t = 1 .. (Len(s) + 1)
         /\ \A i \in DOMAIN s : i \in DOMAIN t /\ t[i] = s[i]
         /\ t[Len(s) + 1] = e
         /\ t \in Seq({t[i] : i \in DOMAIN t})
         /\ SubSeq(t, 1, Len(s)) = s
<1> DEFINE S == {s[i] : i \in DOMAIN s} \cup {e}
           t == Append(s, e)
<1>1. s \in Seq(S)
  OBVIOUS
<1>2. /\ Len(s) \in Nat /\ DOMAIN s = 1 .. Len(s)
      /\ t \in Seq(S)
      /\ Len(t) = Len(s) + 1
      /\ \A i \in 1 .. Len(s) : t[i] = s[i]
      /\ t[Len(s) + 1] = e
  BY <1>1
<1>3. DOMAIN t = 1 .. (Len(s) + 1)
  BY <1>2
<1>4. t \in Seq({t[i] : i \in DOMAIN t})
  BY <1>2, <1>3
<1>5. SubSeq(t, 1, Len(s)) = s
  BY <1>2
<1> HIDE DEF t
<1>6. QED
  BY <1>2, <1>3, <1>4, <1>5 DEF t

(* Any set of ballots has a size.                                          *)
LEMMA BallotsCounted ==
  ASSUME NEW B \in SUBSET Ballots
  PROVE  Cardinality(B) \in Nat
<1>1. IsFiniteSet(B)
  BY ConstantsAssumption, FS_Subset
<1>2. QED
  BY <1>1, FS_CardinalityType

(* A new checkpoint keeps the chain well typed, and keeps what is known of *)
(* the earlier ones.                                                       *)
LEMMA CheckpointAppends ==
  ASSUME TablesTypeOK,
         NEW s \in States, NEW a \in Archives, Checkpoint(s, a), ballots' \subseteq Ballots
  PROVE  /\ checkpoints' \in Seq({checkpoints'[i] : i \in DOMAIN checkpoints'})
         /\ DOMAIN checkpoints' = DOMAIN checkpoints \cup {Len(checkpoints) + 1}
         /\ \A i \in DOMAIN checkpoints : checkpoints'[i] = checkpoints[i]
         /\ checkpoints'[Len(checkpoints) + 1].state = s
         /\ checkpoints'[Len(checkpoints) + 1].archive = a
         /\ checkpoints'[Len(checkpoints) + 1].receipts = ballots
         /\ \A i \in DOMAIN checkpoints' :
              /\ checkpoints'[i].archive \in Archives
              /\ checkpoints'[i].state \in States
              /\ checkpoints'[i].receipts \subseteq Ballots
<1> DEFINE e == [sequence |-> Len(checkpoints), previous |-> PreviousDigest(checkpoints),
                 archive |-> a, state |-> s, receipts |-> ballots]
<1>1. checkpoints \in Seq({checkpoints[i] : i \in DOMAIN checkpoints})
  BY DEF TablesTypeOK
<1>2. checkpoints' = Append(checkpoints, e)
  BY DEF Checkpoint
<1>3. e.state = s /\ e.archive = a /\ e.receipts = ballots
  OBVIOUS
<1> HIDE DEF e
<1>4. /\ Len(checkpoints) \in Nat /\ DOMAIN checkpoints = 1 .. Len(checkpoints)
      /\ DOMAIN checkpoints' = 1 .. (Len(checkpoints) + 1)
      /\ \A i \in DOMAIN checkpoints : checkpoints'[i] = checkpoints[i]
      /\ checkpoints'[Len(checkpoints) + 1] = e
      /\ checkpoints' \in Seq({checkpoints'[i] : i \in DOMAIN checkpoints'})
  BY <1>1, <1>2, AppendFacts
<1>5. DOMAIN checkpoints' = DOMAIN checkpoints \cup {Len(checkpoints) + 1}
  BY <1>4
<1>6. QED
  BY <1>3, <1>4, <1>5 DEF TablesTypeOK

LEMMA InitIInv == Init => IInv
<1> SUFFICES ASSUME Init PROVE IInv
  OBVIOUS
<1> USE DEF Init
<1>1. TablesTypeOK
  BY DEF TablesTypeOK, Archives, Stages, States
<1>2. RequestsTypeOK
  BY DEF RequestsTypeOK, Locking
<1>3. RowHeld /\ ChecksHold
  BY DEF RowHeld, ChecksHold, Locking
<1>4. BoxConsistent /\ RowConsistent /\ FinalSetAnnounced
  BY DEF BoxConsistent, RowConsistent, FinalSetAnnounced, Voting
<1>5. OutcomeConsistent
  BY DEF OutcomeConsistent, DecryptedOnlyAfterClose, ResultHonest
<1>6. QED
  BY <1>1, <1>2, <1>3, <1>4, <1>5 DEF IInv, TypeOK

(* What a request finds is recorded, and the tables stay: an arrival, the  *)
(* end of a read, a rollback, a step of the clock.                         *)
LEMMA TablesStay ==
  ASSUME IInv, UNCHANGED tables, now' \in Nat, now' >= now
  PROVE  /\ TablesTypeOK' /\ BoxConsistent' /\ RowConsistent' /\ OutcomeConsistent'
         /\ acked' \subseteq ballots => FinalSetAnnounced' /\ acked' \subseteq Ballots
<1> USE DEF IInv, TypeOK, tables
<1>1. TablesTypeOK'
  BY DEF TablesTypeOK
<1>2. BoxConsistent'
  BY DEF BoxConsistent
<1>3. RowConsistent'
  BY ConstantsAssumption DEF RowConsistent, Voting, TablesTypeOK
<1>4. OutcomeConsistent'
  <2>1. DecryptedOnlyAfterClose'
    BY ConstantsAssumption DEF OutcomeConsistent, DecryptedOnlyAfterClose, TablesTypeOK
  <2>2. ResultHonest'
    BY DEF OutcomeConsistent, ResultHonest, Quorum
  <2>3. QED
    BY <2>1, <2>2 DEF OutcomeConsistent, Voting
<1>5. acked' \subseteq ballots => FinalSetAnnounced' /\ acked' \subseteq Ballots
  BY DEF FinalSetAnnounced, Voting, TablesTypeOK
<1>6. QED
  BY <1>1, <1>2, <1>3, <1>4, <1>5

(* A request that waits without the row lock disturbs no holder.           *)
LEMMA ArriveUnlocked ==
  ASSUME IInv, NEW r \in Requests, NEW step \in {"register", "final", "audit"}, NEW input, NEW read,
         Arrive(r, step, input, read), UNCHANGED <<now, tables>>,
         step = "register" => input \in Setups
  PROVE  RequestsTypeOK' /\ RowHeld' /\ ChecksHold'
<1> USE DEF IInv, TypeOK, tables, Arrive, Locking
<1>1. RequestsTypeOK'
  BY DEF RequestsTypeOK
<1>2. RowHeld'
  BY DEF RowHeld, Registered, Row, RequestsTypeOK
<1>3. ChecksHold'
  BY DEF ChecksHold, Voting, Quorum, RequestsTypeOK
<1>4. QED
  BY <1>1, <1>2, <1>3

(* A request that takes the free row reads the current one.                *)
LEMMA ArriveLocked ==
  ASSUME IInv, NEW r \in Requests, NEW step \in Locking, NEW input,
         Registered, RowFree, Arrive(r, step, input, Row), UNCHANGED <<now, tables>>,
         step = "accept" => input \in Ballots /\ input \notin ballots /\ Voting /\ now >= OpensAt,
         step = "close" => Voting /\ now >= ClosesAt,
         step = "share" => input \in Trustees \X ShareBytes /\ state = "Closed",
         step = "tally" => state = "Closed" /\ Quorum
  PROVE  RequestsTypeOK' /\ RowHeld' /\ ChecksHold'
<1> USE DEF IInv, TypeOK, tables, Arrive, RequestsTypeOK
<1>1. RequestsTypeOK'
  BY DEF Locking
<1>2. \A q \in Requests : pc'[q] \in Locking => q = r
  BY DEF RowFree, Locking
<1>3. RowHeld'
  BY <1>2 DEF RowHeld, Registered, Row
<1>4. \A q \in Requests : pc'[q] \in {"accept", "close", "share", "tally"} =>
         pc'[q] = step /\ arg'[q] = input
  BY <1>2 DEF Locking
<1>5. ChecksHold'
  BY <1>4 DEF ChecksHold, Voting, Quorum
<1>6. QED
  BY <1>1, <1>3, <1>5

(* A request that ends while the tables stay leaves the others as they are.*)
LEMMA FinishStays ==
  ASSUME IInv, NEW r \in Requests, Finish(r), UNCHANGED <<now, tables>>
  PROVE  RequestsTypeOK' /\ RowHeld' /\ ChecksHold'
<1> USE DEF IInv, TypeOK, tables, Finish, RequestsTypeOK, Locking
<1>1. RequestsTypeOK'
  OBVIOUS
<1>2. RowHeld'
  BY DEF RowHeld, Registered, Row
<1>3. ChecksHold'
  BY DEF ChecksHold, Voting, Quorum
<1>4. QED
  BY <1>1, <1>2, <1>3

(* When the only holder commits, nobody holds the row.                     *)
LEMMA CommitReleases ==
  ASSUME IInv, NEW r \in Requests, Finish(r),
         \A q \in Requests : pc[q] \in Locking => q = r
  PROVE  RequestsTypeOK' /\ RowHeld' /\ ChecksHold'
<1> USE DEF IInv, TypeOK, Finish, RequestsTypeOK
<1>1. \A q \in Requests : pc'[q] \notin Locking
  BY DEF Locking
<1>2. RequestsTypeOK'
  BY DEF Locking
<1>3. RowHeld' /\ ChecksHold'
  BY <1>1 DEF RowHeld, ChecksHold, Locking
<1>4. QED
  BY <1>2, <1>3

(* The operator's transactions have no core call: the row is free before   *)
(* and after them.                                                         *)
LEMMA RowStaysFree ==
  ASSUME IInv, RowFree, UNCHANGED <<pc, arg, row>>
  PROVE  RequestsTypeOK' /\ RowHeld' /\ ChecksHold'
<1>1. \A q \in Requests : pc'[q] \notin Locking
  BY DEF RowFree
<1>2. RequestsTypeOK'
  BY DEF IInv, TypeOK, RequestsTypeOK
<1>3. RowHeld' /\ ChecksHold'
  BY <1>1 DEF RowHeld, ChecksHold, Locking
<1>4. QED
  BY <1>2, <1>3

----------------------------------------------------------------------------
(* The six actions that change the tables.                                 *)

LEMMA RegisterCommitStep ==
  ASSUME IInv, NEW r \in Requests, RegisterCommit(r)
  PROVE  IInv'
<1> USE DEF RegisterCommit
<1>1. state = "None" /\ Voting /\ checkpoints = <<>> /\ ballots = {} /\ archive.stage = "open"
  BY DEF IInv, RowConsistent, Voting
<1>2. \A q \in Requests : pc[q] \notin Locking
  BY <1>1 DEF IInv, RowHeld, Registered
<1>3. RequestsTypeOK' /\ RowHeld' /\ ChecksHold'
  BY <1>2, CommitReleases
<1>4. arg[r] \in Setups
  BY DEF IInv, TypeOK, RequestsTypeOK
<1>5. /\ checkpoints' \in Seq({checkpoints'[i] : i \in DOMAIN checkpoints'})
      /\ DOMAIN checkpoints' = DOMAIN checkpoints \cup {Len(checkpoints) + 1}
      /\ checkpoints'[Len(checkpoints) + 1].state = "Scheduled"
      /\ \A i \in DOMAIN checkpoints' :
           /\ checkpoints'[i].archive \in Archives
           /\ checkpoints'[i].state \in States
           /\ checkpoints'[i].receipts \subseteq Ballots
  BY CheckpointAppends DEF IInv, TypeOK, TablesTypeOK, States
<1>6. DOMAIN checkpoints = {}
  BY <1>1
<1>7. TablesTypeOK'
  BY <1>4, <1>5 DEF IInv, TypeOK, TablesTypeOK, States
<1>8. BoxConsistent'
  BY DEF IInv, BoxConsistent
<1>9. RowConsistent'
  BY <1>1, <1>4, ConstantsAssumption DEF IInv, RowConsistent, Voting
<1>10. FinalSetAnnounced' /\ acked' \subseteq Ballots
  BY <1>5, <1>6 DEF IInv, TypeOK, FinalSetAnnounced, replies
<1>11. OutcomeConsistent'
  BY <1>1 DEF IInv, OutcomeConsistent, DecryptedOnlyAfterClose, ResultHonest, Voting
<1>12. QED
  BY <1>3, <1>7, <1>8, <1>9, <1>10, <1>11 DEF IInv, TypeOK, replies

LEMMA AcceptCommitStep ==
  ASSUME IInv, NEW r \in Requests, AcceptCommit(r)
  PROVE  IInv'
<1> DEFINE b == arg[r]
<1> USE DEF AcceptCommit
<1>1. /\ \A q \in Requests : pc[q] \in Locking => q = r
      /\ state # "None" /\ row[r] = Row /\ Voting /\ b \in Ballots
  BY DEF IInv, RowHeld, ChecksHold, Locking, Registered, TypeOK, RequestsTypeOK
<1>2. RequestsTypeOK' /\ RowHeld' /\ ChecksHold'
  BY <1>1, CommitReleases
<1>3. /\ archive \in Archives /\ archive.stage = "open" /\ finalArchive = Nil /\ result = Nil
      /\ \A t \in Trustees : shares[t] = Nil
      /\ archive.ballots = ballots
      /\ setup # Nil
  BY <1>1 DEF IInv, RowConsistent, OutcomeConsistent, BoxConsistent, TypeOK, TablesTypeOK
<1>4. row[r].archive = archive
  BY <1>1 DEF Row
<1>5. archive' \in Archives /\ archive'.ballots = ballots' /\ archive'.stage = "open"
  BY <1>1, <1>3, <1>4 DEF Archives
<1>6. TablesTypeOK'
  BY <1>1, <1>5 DEF IInv, TypeOK, TablesTypeOK, States
<1>7. BoxConsistent'
  BY <1>1, <1>5 DEF IInv, BoxConsistent, UniqueCredential
<1>8. RowConsistent'
  BY <1>3, <1>5 DEF RowConsistent, Voting
<1>9. FinalSetAnnounced' /\ acked' \subseteq Ballots
  BY <1>1 DEF IInv, TypeOK, FinalSetAnnounced, Voting
<1>10. OutcomeConsistent'
  BY <1>3 DEF OutcomeConsistent, DecryptedOnlyAfterClose, ResultHonest
<1>11. QED
  BY <1>2, <1>6, <1>7, <1>8, <1>9, <1>10 DEF IInv, TypeOK

LEMMA CloseCommitStep ==
  ASSUME IInv, NEW r \in Requests, CloseCommit(r)
  PROVE  IInv'
<1> DEFINE closed == [row[r].archive EXCEPT !.stage = "ended"]
<1> USE DEF CloseCommit
<1>1. /\ \A q \in Requests : pc[q] \in Locking => q = r
      /\ state # "None" /\ row[r] = Row /\ Voting /\ now >= ClosesAt
  BY DEF IInv, RowHeld, ChecksHold, Locking, Registered
<1>2. RequestsTypeOK' /\ RowHeld' /\ ChecksHold'
  BY <1>1, CommitReleases
<1>3. /\ archive \in Archives /\ archive.ballots = ballots /\ result = Nil /\ setup # Nil
      /\ \A t \in Trustees : shares[t] = Nil
      /\ \A i \in DOMAIN checkpoints : checkpoints[i].state = "Scheduled"
      /\ acked \subseteq ballots
  BY <1>1 DEF IInv, RowConsistent, OutcomeConsistent, BoxConsistent, TypeOK, TablesTypeOK,
              FinalSetAnnounced
<1>4. row[r].archive = archive
  BY <1>1 DEF Row
<1>5. closed \in Archives /\ closed.ballots = ballots /\ closed.stage = "ended"
  BY <1>3, <1>4 DEF Archives, Stages
<1>6. closed = [closed EXCEPT !.stage = "ended"]
  BY <1>5 DEF Archives
<1> HIDE DEF closed
<1>7. archive' = closed /\ finalArchive' = closed /\ state' = Verdict(closed)
      /\ Checkpoint(Verdict(closed), closed)
  BY DEF closed
<1>8. /\ Verdict(closed) \in {"Closed", "ResultsSuppressed"}
      /\ Verdict(closed) = "Closed" => Cardinality(ballots) >= Threshold
  BY <1>5, BallotsCounted, ConstantsAssumption DEF Verdict, IInv, TypeOK, TablesTypeOK
<1>9. /\ checkpoints' \in Seq({checkpoints'[i] : i \in DOMAIN checkpoints'})
      /\ DOMAIN checkpoints' = DOMAIN checkpoints \cup {Len(checkpoints) + 1}
      /\ \A i \in DOMAIN checkpoints : checkpoints'[i] = checkpoints[i]
      /\ checkpoints'[Len(checkpoints) + 1].state = Verdict(closed)
      /\ checkpoints'[Len(checkpoints) + 1].receipts = ballots
      /\ \A i \in DOMAIN checkpoints' :
           /\ checkpoints'[i].archive \in Archives
           /\ checkpoints'[i].state \in States
           /\ checkpoints'[i].receipts \subseteq Ballots
  BY <1>5, <1>7, <1>8, CheckpointAppends DEF IInv, TypeOK, TablesTypeOK, States
<1>10. TablesTypeOK'
  BY <1>5, <1>7, <1>8, <1>9 DEF IInv, TypeOK, TablesTypeOK, States
<1>11. BoxConsistent'
  BY <1>5, <1>7 DEF IInv, BoxConsistent
<1>12. RowConsistent'
  BY <1>1, <1>3, <1>5, <1>6, <1>7, <1>8, <1>9 DEF RowConsistent, Voting
<1>13. FinalSetAnnounced' /\ acked' \subseteq Ballots
  BY <1>3, <1>7, <1>8, <1>9 DEF IInv, TypeOK, FinalSetAnnounced, Voting, replies
<1>14. OutcomeConsistent'
  BY <1>3 DEF OutcomeConsistent, DecryptedOnlyAfterClose, ResultHonest
<1>15. QED
  BY <1>2, <1>10, <1>11, <1>12, <1>13, <1>14 DEF IInv, TypeOK

LEMMA ShareCommitStep ==
  ASSUME IInv, NEW r \in Requests, ShareCommit(r)
  PROVE  IInv'
<1> USE DEF ShareCommit
<1>1. /\ \A q \in Requests : pc[q] \in Locking => q = r
      /\ state = "Closed" /\ arg[r] \in Trustees \X ShareBytes
  BY DEF IInv, RowHeld, ChecksHold, Locking, TypeOK, RequestsTypeOK
<1>2. RequestsTypeOK' /\ RowHeld' /\ ChecksHold'
  BY <1>1, CommitReleases
<1>3. /\ result = Nil /\ Cardinality(ballots) >= Threshold /\ now >= ClosesAt
      /\ \E i \in DOMAIN checkpoints :
           checkpoints[i].state = "Closed" /\ checkpoints[i].receipts = ballots
  BY <1>1 DEF IInv, RowConsistent, FinalSetAnnounced
<1>4. TablesTypeOK'
  BY <1>1 DEF IInv, TypeOK, TablesTypeOK
<1>5. BoxConsistent' /\ RowConsistent' /\ FinalSetAnnounced' /\ acked' \subseteq Ballots
  BY DEF IInv, TypeOK, BoxConsistent, RowConsistent, FinalSetAnnounced, Voting, replies
<1>6. DecryptedOnlyAfterClose'
  BY <1>3 DEF DecryptedOnlyAfterClose
<1>7. ResultHonest'
  BY <1>3 DEF ResultHonest
<1>8. OutcomeConsistent'
  BY <1>1, <1>6, <1>7 DEF OutcomeConsistent, Voting
<1>9. QED
  BY <1>2, <1>4, <1>5, <1>8 DEF IInv, TypeOK

LEMMA TallyCommitStep ==
  ASSUME IInv, NEW r \in Requests, TallyCommit(r)
  PROVE  IInv'
<1> DEFINE tallied == [row[r].archive EXCEPT !.stage = "tallied"]
<1> USE DEF TallyCommit
<1>1. /\ \A q \in Requests : pc[q] \in Locking => q = r
      /\ row[r] = Row /\ state = "Closed" /\ Quorum
  BY DEF IInv, RowHeld, ChecksHold, Locking
<1>2. RequestsTypeOK' /\ RowHeld' /\ ChecksHold'
  BY <1>1, CommitReleases
<1>3. /\ archive \in Archives /\ archive.ballots = ballots
      /\ finalArchive = [archive EXCEPT !.stage = "ended"]
      /\ setup # Nil /\ ballots \subseteq Ballots /\ acked \subseteq ballots
      /\ \A i \in DOMAIN checkpoints :
           checkpoints[i].state # "Scheduled" => checkpoints[i].receipts = ballots
  BY <1>1 DEF IInv, RowConsistent, BoxConsistent, TypeOK, TablesTypeOK, FinalSetAnnounced
<1>4. row[r].archive = archive
  BY <1>1 DEF Row
<1>5. /\ tallied \in Archives /\ tallied.ballots = ballots
      /\ finalArchive = [tallied EXCEPT !.stage = "ended"]
  BY <1>3, <1>4 DEF Archives, Stages
<1> HIDE DEF tallied
<1>6. /\ archive' = tallied /\ state' = "Published" /\ Checkpoint("Published", tallied)
      /\ result' = Cardinality(ballots) /\ result' >= Threshold
      /\ UNCHANGED <<now, setup, finalArchive, ballots, shares, acked>>
  BY <1>3, <1>4 DEF tallied, replies
<1>7. result' \in Nat
  BY <1>3, <1>6, BallotsCounted
<1>8. /\ checkpoints' \in Seq({checkpoints'[i] : i \in DOMAIN checkpoints'})
      /\ DOMAIN checkpoints' = DOMAIN checkpoints \cup {Len(checkpoints) + 1}
      /\ \A i \in DOMAIN checkpoints : checkpoints'[i] = checkpoints[i]
      /\ checkpoints'[Len(checkpoints) + 1].state = "Published"
      /\ checkpoints'[Len(checkpoints) + 1].receipts = ballots
      /\ \A i \in DOMAIN checkpoints' :
           /\ checkpoints'[i].archive \in Archives
           /\ checkpoints'[i].state \in States
           /\ checkpoints'[i].receipts \subseteq Ballots
  BY <1>5, <1>6, CheckpointAppends DEF IInv, TypeOK, TablesTypeOK, States
<1> HIDE DEF TallyCommit
<1>9. TablesTypeOK'
  BY <1>5, <1>6, <1>7, <1>8 DEF IInv, TypeOK, TablesTypeOK, States
<1>10. BoxConsistent'
  BY <1>5, <1>6 DEF IInv, BoxConsistent
<1>11. RowConsistent'
  BY <1>3, <1>5, <1>6 DEF RowConsistent, Voting
<1>12. FinalSetAnnounced' /\ acked' \subseteq Ballots
  BY <1>3, <1>6, <1>8 DEF FinalSetAnnounced, Voting
<1>13. DecryptedOnlyAfterClose'
  BY <1>1, <1>6, <1>8 DEF IInv, RowConsistent, FinalSetAnnounced, DecryptedOnlyAfterClose
<1>14. ResultHonest'
  BY <1>1, <1>6, <1>8 DEF ResultHonest, Quorum
<1>15. OutcomeConsistent'
  BY <1>6, <1>13, <1>14 DEF OutcomeConsistent, Voting
<1>16. QED
  BY <1>2, <1>9, <1>10, <1>11, <1>12, <1>15 DEF IInv, TypeOK

(* An exceptional outcome is one more announcement of the same ballots.    *)
LEMMA ExceptionStep ==
  ASSUME IInv, RowFree, Registered, NEW s \in {"Cancelled", "Invalidated"}, state' = s,
         Checkpoint(s, archive),
         UNCHANGED <<now, setup, archive, finalArchive, result, ballots, shares, pc, arg, row, acked>>
  PROVE  IInv'
<1>1. RequestsTypeOK' /\ RowHeld' /\ ChecksHold'
  BY RowStaysFree
<1>2. /\ checkpoints' \in Seq({checkpoints'[i] : i \in DOMAIN checkpoints'})
      /\ DOMAIN checkpoints' = DOMAIN checkpoints \cup {Len(checkpoints) + 1}
      /\ \A i \in DOMAIN checkpoints : checkpoints'[i] = checkpoints[i]
      /\ checkpoints'[Len(checkpoints) + 1].state = s
      /\ checkpoints'[Len(checkpoints) + 1].receipts = ballots
      /\ \A i \in DOMAIN checkpoints' :
           /\ checkpoints'[i].archive \in Archives
           /\ checkpoints'[i].state \in States
           /\ checkpoints'[i].receipts \subseteq Ballots
  BY CheckpointAppends DEF IInv, TypeOK, TablesTypeOK, States
<1>3. TablesTypeOK'
  BY <1>2 DEF IInv, TypeOK, TablesTypeOK, States
<1>4. BoxConsistent' /\ RowConsistent'
  BY DEF IInv, BoxConsistent, RowConsistent, Voting, Registered
<1>5. FinalSetAnnounced' /\ acked' \subseteq Ballots
  BY <1>2 DEF IInv, TypeOK, FinalSetAnnounced, Voting
<1>6. DecryptedOnlyAfterClose'
  BY <1>2 DEF IInv, OutcomeConsistent, DecryptedOnlyAfterClose
<1>7. ResultHonest'
  BY <1>2 DEF IInv, OutcomeConsistent, ResultHonest, Quorum
<1>8. OutcomeConsistent'
  BY <1>6, <1>7 DEF OutcomeConsistent, Voting
<1>9. QED
  BY <1>1, <1>3, <1>4, <1>5, <1>8 DEF IInv, TypeOK

----------------------------------------------------------------------------

(* No step of the service breaks the invariant: the arrivals and the ends  *)
(* without effect leave the tables, the others are the lemmas above.       *)
LEMMA NextIInv == IInv /\ [Next]_vars => IInv'
<1> SUFFICES ASSUME IInv, [Next]_vars PROVE IInv'
  OBVIOUS
<1>1. now \in Nat /\ now >= now /\ acked \subseteq ballots
  BY DEF IInv, TypeOK, TablesTypeOK, FinalSetAnnounced
<1>2. ASSUME UNCHANGED <<now, tables, replies>>, RequestsTypeOK' /\ RowHeld' /\ ChecksHold'
      PROVE  IInv'
  BY <1>1, <1>2, TablesStay DEF IInv, TypeOK, replies
<1>3. ASSUME NEW r \in Requests, NEW s \in Setups, Register(r, s) PROVE IInv'
  BY <1>2, <1>3, ArriveUnlocked DEF Register
<1>4. ASSUME NEW r \in Requests, RegisterAgain(r) PROVE IInv'
  BY <1>2, <1>4, FinishStays DEF RegisterAgain
<1>5. ASSUME UNCHANGED <<now, tables, pc, arg, row>>, NEW b \in ballots, acked' = acked \cup {b}
      PROVE  IInv'
  <2>1. acked' \subseteq ballots
    BY <1>1, <1>5
  <2>2. RequestsTypeOK' /\ RowHeld' /\ ChecksHold'
    BY <1>5 DEF IInv, TypeOK, RequestsTypeOK, RowHeld, ChecksHold, tables, Registered, Row, Voting, Quorum
  <2>3. QED
    BY <1>1, <1>5, <2>1, <2>2, TablesStay DEF IInv, TypeOK
<1>6. ASSUME NEW b \in Ballots, ReplayBallot(b) \/ Tracker(b) PROVE IInv'
  BY <1>5, <1>6 DEF ReplayBallot, Tracker
<1>7. ASSUME NEW r \in Requests, NEW b \in Ballots, PostBallot(r, b) PROVE IInv'
  <2>1. RequestsTypeOK' /\ RowHeld' /\ ChecksHold'
    BY <1>1, <1>7, ArriveLocked, ConstantsAssumption DEF PostBallot, VotingOpen, Voting, Locking
  <2>2. QED
    BY <1>2, <1>7, <2>1 DEF PostBallot
<1>8. ASSUME NEW r \in Requests, Close(r) PROVE IInv'
  <2>1. RequestsTypeOK' /\ RowHeld' /\ ChecksHold'
    BY <1>8, ArriveLocked DEF Close, Voting, Locking
  <2>2. QED
    BY <1>2, <1>8, <2>1 DEF Close
<1>9. ASSUME NEW r \in Requests, NEW t \in Trustees, NEW s \in ShareBytes, Share(r, t, s) PROVE IInv'
  <2>1. RequestsTypeOK' /\ RowHeld' /\ ChecksHold'
    BY <1>9, ArriveLocked DEF Share, Locking
  <2>2. QED
    BY <1>2, <1>9, <2>1 DEF Share
<1>10. ASSUME NEW r \in Requests, Tally(r) PROVE IInv'
  <2>1. RequestsTypeOK' /\ RowHeld' /\ ChecksHold'
    BY <1>10, ArriveLocked DEF Tally, Locking
  <2>2. QED
    BY <1>2, <1>10, <2>1 DEF Tally
<1>11. ASSUME Cancel \/ Invalidate PROVE IInv'
  BY <1>11, ExceptionStep DEF Cancel, Invalidate, replies
<1>12. ASSUME NEW r \in Requests, ReadFinal(r) \/ ReadAudit(r) PROVE IInv'
  BY <1>2, <1>12, ArriveUnlocked DEF ReadFinal, ReadAudit
<1>13. ASSUME NEW r \in Requests, ReturnFinal(r) \/ ReturnAudit(r) PROVE IInv'
  <2>1. Finish(r) /\ UNCHANGED <<now, tables, acked>>
    BY <1>13 DEF ReturnFinal, ReturnAudit
  <2>2. QED
    BY <1>1, <2>1, FinishStays, TablesStay DEF IInv, TypeOK
<1>14. ASSUME NEW r \in Requests, Abort(r) PROVE IInv'
  BY <1>2, <1>14, FinishStays DEF Abort
<1>15. ASSUME Tick PROVE IInv'
  <2>1. now' \in Nat /\ now' >= now
    BY <1>1, <1>15 DEF Tick
  <2>2. RequestsTypeOK' /\ RowHeld' /\ ChecksHold'
    BY <1>1, <1>15, <2>1, ConstantsAssumption
       DEF Tick, IInv, TypeOK, RequestsTypeOK, RowHeld, ChecksHold, tables, Registered, Row, Voting, Quorum
  <2>3. QED
    BY <1>1, <1>15, <2>1, <2>2, TablesStay DEF Tick, IInv, TypeOK, replies
<1>16. ASSUME UNCHANGED vars PROVE IInv'
  <2>1. RequestsTypeOK' /\ RowHeld' /\ ChecksHold'
    BY <1>16 DEF vars, IInv, TypeOK, RequestsTypeOK, RowHeld, ChecksHold, tables, Registered, Row, Voting, Quorum
  <2>2. QED
    BY <1>2, <1>16, <2>1 DEF vars
<1>17. QED
  BY <1>3, <1>4, <1>6, <1>7, <1>8, <1>9, <1>10, <1>11, <1>12, <1>13, <1>14, <1>15, <1>16,
     RegisterCommitStep, AcceptCommitStep, CloseCommitStep, ShareCommitStep, TallyCommitStep
     DEF Next

(* In every reachable state the tables, the row lock, the running requests *)
(* and the replies already sent agree with one another.                    *)
THEOREM Invariance == Spec => []IInv
<1>1. QED
  BY InitIInv, NextIInv, PTL DEF Spec

----------------------------------------------------------------------------
(* The tables and the requests are always well typed.                      *)
THEOREM TypeCorrect == Spec => []TypeOK
<1>1. IInv => TypeOK
  BY DEF IInv
<1>2. QED
  BY <1>1, Invariance, PTL

(* The table of ballots and the archive of the core never disagree, and    *)
(* no credential has two ballots, whatever the interleaving of requests.   *)
THEOREM BallotBoxConsistent == Spec => []BoxConsistent
<1>1. IInv => BoxConsistent
  BY DEF IInv
<1>2. QED
  BY <1>1, Invariance, PTL

(* Every receipt a voter holds is in every checkpoint after the genesis.   *)
THEOREM AcknowledgedBallotsAnnounced == Spec => []AcknowledgedAnnounced
<1>1. IInv => AcknowledgedAnnounced
  BY DEF IInv, FinalSetAnnounced, AcknowledgedAnnounced
<1>2. QED
  BY <1>1, Invariance, PTL

(* No share exists before a set of ballots is closed, announced and large  *)
(* enough.                                                                 *)
THEOREM NoEarlyDecryption == Spec => []DecryptedOnlyAfterClose
<1>1. IInv => DecryptedOnlyAfterClose
  BY DEF IInv, OutcomeConsistent
<1>2. QED
  BY <1>1, Invariance, PTL

(* A result is the count of the accepted ballots, decrypted by a quorum.   *)
THEOREM PublishedResultHonest == Spec => []ResultHonest
<1>1. IInv => ResultHonest
  BY DEF IInv, OutcomeConsistent
<1>2. QED
  BY <1>1, Invariance, PTL

----------------------------------------------------------------------------
(* Which tables each step changes.                                         *)
LEMMA TableSteps ==
  ASSUME IInv, [Next]_vars
  PROVE  \/ UNCHANGED tables
         \/ \E r \in Requests : RegisterCommit(r) \/ AcceptCommit(r) \/ CloseCommit(r)
                                \/ ShareCommit(r) \/ TallyCommit(r)
         \/ Cancel
         \/ Invalidate
BY DEF Next, vars, Register, RegisterAgain, ReplayBallot, Tracker, PostBallot, Close, Share, Tally,
       ReadFinal, ReturnFinal, ReadAudit, ReturnAudit, Abort, Tick

(* Once an election is closed its final archive and its ballots are fixed, *)
(* even by requests that began before, and it never opens again.           *)
THEOREM FinalSetNeverChanges == Spec => ClosedSetFrozen
<1> DEFINE Frozen == finalArchive # Nil => /\ finalArchive' = finalArchive
                                           /\ ballots' = ballots
                                           /\ state' \notin {"Scheduled", "Open"}
<1>1. ASSUME IInv, [Next]_vars PROVE Frozen
  <2> SUFFICES ASSUME finalArchive # Nil
               PROVE  /\ finalArchive' = finalArchive /\ ballots' = ballots
                      /\ state' \notin {"Scheduled", "Open"}
    OBVIOUS
  <2>1. ~Voting /\ setup # Nil
    BY <1>1 DEF IInv, RowConsistent, Voting
  <2>2. CASE UNCHANGED tables
    BY <2>1, <2>2 DEF tables, Voting
  <2>3. ASSUME NEW r \in Requests, RegisterCommit(r) PROVE FALSE
    BY <2>1, <2>3 DEF RegisterCommit
  <2>4. ASSUME NEW r \in Requests, AcceptCommit(r) \/ CloseCommit(r) PROVE FALSE
    BY <1>1, <2>1, <2>4 DEF AcceptCommit, CloseCommit, IInv, ChecksHold
  <2>5. ASSUME NEW r \in Requests, ShareCommit(r) PROVE Frozen
    BY <2>1, <2>5 DEF ShareCommit, Voting
  <2>6. ASSUME NEW r \in Requests, TallyCommit(r) PROVE Frozen
    BY <2>6 DEF TallyCommit
  <2>7. CASE Cancel \/ Invalidate
    BY <2>7 DEF Cancel, Invalidate
  <2>8. QED
    BY <1>1, <2>2, <2>3, <2>4, <2>5, <2>6, <2>7, TableSteps
<1>2. QED
  BY <1>1, Invariance, PTL DEF Spec, ClosedSetFrozen

(* No registration, ballot, share or checkpoint is ever taken back.        *)
THEOREM RecordsNeverLost == Spec => RecordsOnlyGrow
<1> DEFINE Kept == checkpoints' = checkpoints \/ \E e : checkpoints' = Append(checkpoints, e)
           Grows == /\ setup # Nil => setup' = setup
                    /\ ballots \subseteq ballots'
                    /\ \A t \in Trustees : shares[t] # Nil => shares'[t] = shares[t]
                    /\ Len(checkpoints) <= Len(checkpoints')
                    /\ SubSeq(checkpoints', 1, Len(checkpoints)) = checkpoints
<1>1. ASSUME IInv, [Next]_vars PROVE Grows
  <2>1. checkpoints \in Seq({checkpoints[i] : i \in DOMAIN checkpoints})
    BY <1>1 DEF IInv, TypeOK, TablesTypeOK
  <2>2. ASSUME Kept
        PROVE  Len(checkpoints) <= Len(checkpoints') /\ SubSeq(checkpoints', 1, Len(checkpoints)) = checkpoints
    <3>1. CASE checkpoints' = checkpoints
      BY <2>1, <3>1
    <3>2. ASSUME NEW e, checkpoints' = Append(checkpoints, e)
          PROVE  /\ Len(checkpoints) <= Len(checkpoints')
                 /\ SubSeq(checkpoints', 1, Len(checkpoints)) = checkpoints
      BY <2>1, <3>2, AppendFacts
    <3>3. QED
      BY <2>2, <3>1, <3>2
  <2>3. CASE UNCHANGED tables
    BY <2>2, <2>3 DEF tables
  <2>4. ASSUME NEW r \in Requests, RegisterCommit(r) \/ CloseCommit(r) \/ TallyCommit(r) PROVE Grows
    BY <2>2, <2>4 DEF RegisterCommit, CloseCommit, TallyCommit, Checkpoint
  <2>5. ASSUME NEW r \in Requests, AcceptCommit(r) PROVE Grows
    BY <2>2, <2>5 DEF AcceptCommit
  <2>6. ASSUME NEW r \in Requests, ShareCommit(r) PROVE Grows
    BY <1>1, <2>2, <2>6 DEF ShareCommit, IInv, TypeOK, TablesTypeOK
  <2>7. CASE Cancel \/ Invalidate
    BY <2>2, <2>7 DEF Cancel, Invalidate, Checkpoint
  <2>8. QED
    BY <1>1, <2>3, <2>4, <2>5, <2>6, <2>7, TableSteps
<1>2. QED
  BY <1>1, Invariance, PTL DEF Spec, RecordsOnlyGrow

----------------------------------------------------------------------------
(* The abstract history of a chain of checkpoints.                         *)
History(chain) == [i \in DOMAIN chain |-> [phase |-> chain[i].state, ballots |-> chain[i].receipts]]

(* A function on an initial segment of the positive integers is a sequence.*)
LEMMA SegmentIsSeq ==
  ASSUME NEW n \in Nat, NEW h, h = [i \in 1 .. n |-> h[i]]
  PROVE  h \in Seq({h[i] : i \in DOMAIN h}) /\ Len(h) = n
<1> DEFINE S == {h[i] : i \in DOMAIN h}
<1>1. DOMAIN h = 1 .. n
  OBVIOUS
<1>2. \A i \in 1 .. n : h[i] \in S
  BY <1>1
<1> HIDE DEF S
<1>3. h \in [1 .. n -> S]
  BY <1>2
<1>4. h \in Seq(S)
  BY <1>3, SeqDef
<1>5. Len(h) = n
  BY <1>1, <1>4
<1>6. QED
  BY <1>4, <1>5 DEF S

(* The elements of the two FiniteSets instances count alike.               *)
LEMMA SameCardinality == \A S : Promise!Cardinality(S) = Cardinality(S)
BY DEF Promise!Cardinality, Cardinality

(* A checkpoint is one announcement.                                       *)
LEMMA CheckpointAnnounces ==
  ASSUME TablesTypeOK, NEW s \in States, NEW a \in Archives, Checkpoint(s, a)
  PROVE  History(checkpoints') = Append(History(checkpoints), [phase |-> s, ballots |-> ballots])
<1> DEFINE e == [sequence |-> Len(checkpoints), previous |-> PreviousDigest(checkpoints),
                 archive |-> a, state |-> s, receipts |-> ballots]
           h == History(checkpoints)
           x == [phase |-> s, ballots |-> ballots]
<1>1. checkpoints \in Seq({checkpoints[i] : i \in DOMAIN checkpoints})
  BY DEF TablesTypeOK
<1>2. checkpoints' = Append(checkpoints, e)
  BY DEF Checkpoint
<1>3. e.state = s /\ e.receipts = ballots
  OBVIOUS
<1> HIDE DEF e
<1>4. /\ Len(checkpoints) \in Nat /\ DOMAIN checkpoints = 1 .. Len(checkpoints)
      /\ DOMAIN checkpoints' = 1 .. (Len(checkpoints) + 1)
      /\ \A i \in DOMAIN checkpoints : checkpoints'[i] = checkpoints[i]
      /\ checkpoints'[Len(checkpoints) + 1] = e
  BY <1>1, <1>2, AppendFacts
<1>5. DOMAIN h = 1 .. Len(checkpoints) /\ h = [i \in 1 .. Len(checkpoints) |-> h[i]]
  BY <1>4 DEF History
<1> HIDE DEF h, x
<1>6. h \in Seq({h[i] : i \in DOMAIN h}) /\ Len(h) = Len(checkpoints)
  BY <1>4, <1>5, SegmentIsSeq
<1> DEFINE g == History(checkpoints')
           T == {h[i] : i \in DOMAIN h} \cup {g[i] : i \in DOMAIN g} \cup {x}
<1>7. DOMAIN g = 1 .. (Len(checkpoints) + 1) /\ g = [i \in 1 .. (Len(checkpoints) + 1) |-> g[i]]
  BY <1>4 DEF History
<1>8. /\ \A i \in 1 .. Len(checkpoints) : g[i] = h[i]
      /\ g[Len(checkpoints) + 1] = x
  <2> DEFINE next(i) == [phase |-> checkpoints'[i].state, ballots |-> checkpoints'[i].receipts]
             old(i) == [phase |-> checkpoints[i].state, ballots |-> checkpoints[i].receipts]
  <2>1. \A i \in 1 .. (Len(checkpoints) + 1) : g[i] = next(i)
    BY <1>4 DEF History
  <2>2. \A i \in 1 .. Len(checkpoints) : h[i] = old(i)
    BY <1>4 DEF History, h
  <2>3. \A i \in 1 .. Len(checkpoints) : next(i) = old(i)
    BY <1>4
  <2>4. next(Len(checkpoints) + 1) = x
    BY <1>3, <1>4 DEF x
  <2> HIDE DEF g, next, old
  <2>5. QED
    BY <1>4, <2>1, <2>2, <2>3, <2>4
<1> HIDE DEF g
<1>9. g \in Seq({g[i] : i \in DOMAIN g}) /\ Len(g) = Len(checkpoints) + 1
  BY <1>4, <1>7, SegmentIsSeq
<1>10. h \in Seq(T) /\ g \in Seq(T) /\ x \in T
  <2>1. /\ {h[i] : i \in DOMAIN h} \subseteq T
        /\ {g[i] : i \in DOMAIN g} \subseteq T
        /\ x \in T
    OBVIOUS
  <2>2. QED
    BY <1>6, <1>9, <2>1, SeqMonotonic
<1> HIDE DEF T
<1>11. /\ Append(h, x) \in Seq(T)
       /\ Len(Append(h, x)) = Len(h) + 1
       /\ \A i \in 1 .. Len(h) : Append(h, x)[i] = h[i]
       /\ Append(h, x)[Len(h) + 1] = x
  BY <1>10, AppendProperties
<1>12. \A i \in 1 .. Len(g) : g[i] = Append(h, x)[i]
  BY <1>4, <1>6, <1>8, <1>9, <1>11
<1>13. g = Append(h, x)
  BY <1>6, <1>9, <1>10, <1>11, <1>12, SeqEqual
<1>14. QED
  BY <1>13 DEF g, h, x

(* The ballot service implements its abstract election: whatever requests  *)
(* run at the same time, what is committed is one lifecycle of whole steps.*)
THEOREM Implementation == Spec => ElectionSpec
<1>1. Init => Promise!Init
  BY DEF Init, Promise!Init
<1>2. ASSUME IInv, [Next]_vars PROVE [Promise!Next]_(Promise!vars)
  <2> USE DEF Promise!vars
  <2>1. /\ \A s \in States, a \in Archives : Checkpoint(s, a) =>
              History(checkpoints') = Append(History(checkpoints), [phase |-> s, ballots |-> ballots])
        /\ archive \in Archives
    BY <1>2, CheckpointAnnounces DEF IInv, TypeOK, TablesTypeOK
  <2>2. ASSUME NEW s \in States, NEW a \in Archives, Checkpoint(s, a), state' = s
        PROVE  Promise!Announce(s)
    BY <2>1, <2>2 DEF Promise!Announce, History
  <2>3. CASE UNCHANGED <<now, tables>>
    BY <2>3 DEF tables
  <2>4. CASE Tick
    BY <2>4 DEF Tick, tables, Promise!Next, Promise!Tick
  <2>5. ASSUME NEW r \in Requests, RegisterCommit(r) PROVE Promise!Schedule
    <3>1. state = "None"
      BY <1>2, <2>5 DEF RegisterCommit, IInv, RowConsistent
    <3>2. Promise!Announce("Scheduled")
      BY <2>1, <2>2, <2>5 DEF RegisterCommit, States
    <3>3. QED
      BY <2>5, <3>1, <3>2 DEF RegisterCommit, Promise!Schedule
  <2>6. ASSUME NEW r \in Requests, AcceptCommit(r) PROVE \E b \in Ballots : Promise!Cast(b)
    <3>1. state \in {"Scheduled", "Open"} /\ now >= OpensAt /\ arg[r] \in Ballots
      BY <1>2, <2>6 DEF AcceptCommit, IInv, ChecksHold, RowHeld, Registered, Voting, Locking,
                        TypeOK, RequestsTypeOK
    <3>2. Promise!Cast(arg[r])
      BY <2>6, <3>1 DEF AcceptCommit, UniqueCredential, Promise!Cast
    <3>3. QED
      BY <3>1, <3>2
  <2>7. ASSUME NEW r \in Requests, CloseCommit(r) PROVE Promise!Close
    <3> DEFINE closed == [row[r].archive EXCEPT !.stage = "ended"]
    <3>1. state \in {"Scheduled", "Open"} /\ now >= ClosesAt /\ row[r] = Row
      BY <1>2, <2>7 DEF CloseCommit, IInv, ChecksHold, RowHeld, Registered, Voting, Locking
    <3>2. closed \in Archives /\ closed.ballots = ballots
      BY <1>2, <3>1 DEF Row, IInv, BoxConsistent, TypeOK, TablesTypeOK, Archives, Stages
    <3>3. state' = Verdict(closed) /\ Checkpoint(Verdict(closed), closed)
      BY <2>7 DEF CloseCommit
    <3> HIDE DEF closed
    <3>4. CASE Cardinality(ballots) < Threshold
      <4>1. Verdict(closed) = "ResultsSuppressed"
        BY <3>2, <3>4 DEF Verdict
      <4>2. Promise!Announce("ResultsSuppressed")
        BY <2>2, <3>2, <3>3, <4>1 DEF States
      <4>3. QED
        BY <2>7, <3>1, <3>4, <4>2, SameCardinality DEF CloseCommit, Promise!Announce, Promise!Close
    <3>5. CASE ~(Cardinality(ballots) < Threshold)
      <4>1. Verdict(closed) = "Closed"
        BY <3>2, <3>5 DEF Verdict
      <4>2. Promise!Announce("Closed")
        BY <2>2, <3>2, <3>3, <4>1 DEF States
      <4>3. QED
        BY <2>7, <3>1, <3>5, <4>2, SameCardinality DEF CloseCommit, Promise!Announce, Promise!Close
    <3>6. QED
      BY <3>4, <3>5
  <2>8. ASSUME NEW r \in Requests, ShareCommit(r) PROVE UNCHANGED Promise!vars
    BY <2>8 DEF ShareCommit
  <2>9. ASSUME NEW r \in Requests, TallyCommit(r) PROVE Promise!Publish
    <3> DEFINE tallied == [row[r].archive EXCEPT !.stage = "tallied"]
    <3>1. state = "Closed" /\ row[r] = Row
      BY <1>2, <2>9 DEF TallyCommit, IInv, ChecksHold, RowHeld, Locking
    <3>2. /\ row[r].archive = archive /\ archive \in Archives
          /\ archive.ballots = ballots /\ ballots \in SUBSET Ballots
      BY <1>2, <3>1 DEF Row, IInv, BoxConsistent, TypeOK, TablesTypeOK
    <3>3. tallied \in Archives
      BY <3>2 DEF Archives, Stages
    <3>4. state' = "Published" /\ Checkpoint("Published", tallied)
      BY <2>9 DEF TallyCommit
    <3> HIDE DEF tallied
    <3>5. Promise!Announce("Published")
      BY <2>2, <3>3, <3>4 DEF States
    <3>6. /\ Cardinality(ballots) \in Nat /\ Cardinality(ballots) >= Threshold
          /\ result' = Cardinality(ballots)
      BY <2>9, <3>2, BallotsCounted DEF TallyCommit
    <3>7. result' # Nil
      BY <3>6, ConstantsAssumption DEF ConstantsAssumption
    <3>8. QED
      BY <2>9, <3>1, <3>5, <3>6, <3>7, SameCardinality DEF TallyCommit, Promise!Publish
  <2>10. ASSUME Cancel PROVE Promise!Withdraw
    BY <2>1, <2>2, <2>10 DEF Cancel, States, Registered, Promise!Withdraw
  <2>11. ASSUME Invalidate PROVE Promise!Invalidate
    BY <2>1, <2>2, <2>11 DEF Invalidate, States, Registered, Promise!Invalidate
  <2>12. UNCHANGED now \/ Tick
    BY <1>2 DEF Next, vars, Register, RegisterCommit, RegisterAgain, ReplayBallot, Tracker, PostBallot,
       AcceptCommit, Close, CloseCommit, Share, ShareCommit, Tally, TallyCommit, Cancel, Invalidate,
       ReadFinal, ReturnFinal, ReadAudit, ReturnAudit, Abort
  <2>13. QED
    BY <1>2, <2>3, <2>4, <2>5, <2>6, <2>7, <2>8, <2>9, <2>10, <2>11, <2>12, TableSteps DEF Promise!Next
<1>3. QED
  BY <1>1, <1>2, Invariance, PTL DEF Spec, ElectionSpec, Promise!Spec
----------------------------------------------------------------------------
(***************************************************************************)
(* What the service shows to those who do not trust it: the chain of       *)
(* checkpoints that observers verify, the final sets that trustees verify, *)
(* the audit packages that anybody verifies.  A second inductive           *)
(* invariant, HistoryInv, adds to IInv that the chain is linked and        *)
(* follows the lifecycle but for repeated withdrawals, that "Closed" and   *)
(* "Published" are announced once, and that every answer holds a prefix of *)
(* the chain.                                                              *)
(***************************************************************************)

(* Each checkpoint names its place and its predecessor; only the first is  *)
(* of a scheduled election.                                                *)
Linked ==
  \A i \in DOMAIN checkpoints :
    /\ checkpoints[i].sequence = i - 1
    /\ i = 1 => /\ checkpoints[i].previous = Nil
                /\ checkpoints[i].state = "Scheduled"
                /\ checkpoints[i].receipts = {}
    /\ i > 1 => /\ checkpoints[i].previous = Digest(checkpoints[i - 1])
                /\ checkpoints[i].state # "Scheduled"

(* The states follow the lifecycle, but for a withdrawal after an end.     *)
Follows ==
  \A i \in DOMAIN checkpoints : i > 1 =>
    \/ checkpoints[i].state \in Transitions[checkpoints[i - 1].state]
    \/ /\ checkpoints[i].state = "Cancelled"
       /\ checkpoints[i - 1].state \in {"Cancelled", "Invalidated"}

(* The last checkpoint announces the current state, except the opening.    *)
Latest ==
  Registered =>
    /\ Len(checkpoints) >= 1
    /\ \/ checkpoints[Len(checkpoints)].state = state
       \/ (checkpoints[Len(checkpoints)].state = "Scheduled" /\ state = "Open")

Once ==
  /\ \A i, j \in DOMAIN checkpoints :
       /\ checkpoints[i].state = checkpoints[j].state
       /\ checkpoints[i].state \in {"Closed", "Published"}
       => i = j
  /\ result = Nil => \A i \in DOMAIN checkpoints : checkpoints[i].state # "Published"

APrefix(c) == \E k \in 0 .. Len(checkpoints) : c = SubSeq(checkpoints, 1, k)

Prefixes ==
  /\ \A f \in finals :
       /\ f = [archive |-> f.archive, checkpoints |-> f.checkpoints]
       /\ APrefix(f.checkpoints)
  /\ \A a \in audits :
       /\ a = [archive |-> a.archive, result |-> a.result, checkpoints |-> a.checkpoints]
       /\ APrefix(a.checkpoints)

HistoryInv == IInv /\ Linked /\ Follows /\ Latest /\ Once /\ Prefixes

----------------------------------------------------------------------------
(* A new checkpoint keeps the prefixes of the chain.                       *)
LEMMA PrefixesAppend ==
  ASSUME IInv, Prefixes, NEW e, checkpoints' = Append(checkpoints, e), UNCHANGED <<finals, audits>>
  PROVE  Prefixes'
<1>1. checkpoints \in Seq({checkpoints[i] : i \in DOMAIN checkpoints})
  BY DEF IInv, TypeOK, TablesTypeOK
<1>2. /\ Len(checkpoints) \in Nat /\ Len(checkpoints') = Len(checkpoints) + 1
      /\ \A i \in 1 .. Len(checkpoints) : checkpoints'[i] = checkpoints[i]
  BY <1>1, AppendFacts
<1>3. ASSUME NEW c, APrefix(c) PROVE APrefix(c)'
  <2>1. PICK k \in 0 .. Len(checkpoints) : c = SubSeq(checkpoints, 1, k)
    BY <1>3 DEF APrefix
  <2>2. SubSeq(checkpoints', 1, k) = SubSeq(checkpoints, 1, k)
    BY <1>2
  <2>3. k \in 0 .. Len(checkpoints')
    BY <1>2
  <2>4. QED
    BY <2>1, <2>2, <2>3 DEF APrefix
<1>4. QED
  BY <1>3 DEF Prefixes

(* A new checkpoint that follows the last one keeps the history.           *)
LEMMA HistoryAppends ==
  ASSUME HistoryInv, Registered,
         NEW s \in {"Closed", "ResultsSuppressed", "Published", "Cancelled", "Invalidated"},
         NEW a, Checkpoint(s, a), state' = s, UNCHANGED <<finals, audits>>,
         s = "Closed" => \A i \in DOMAIN checkpoints : checkpoints[i].state # "Closed",
         s = "Published" => result = Nil /\ result' # Nil,
         s # "Published" => result' = result,
         \A l \in {state, checkpoints[Len(checkpoints)].state} :
           s \in Transitions[l] \/ (s = "Cancelled" /\ l \in {"Cancelled", "Invalidated"})
  PROVE  Linked' /\ Follows' /\ Latest' /\ Once' /\ Prefixes'
<1> DEFINE e == [sequence |-> Len(checkpoints), previous |-> PreviousDigest(checkpoints),
                 archive |-> a, state |-> s, receipts |-> ballots]
           n == Len(checkpoints) + 1
<1>1. checkpoints \in Seq({checkpoints[i] : i \in DOMAIN checkpoints})
  BY DEF HistoryInv, IInv, TypeOK, TablesTypeOK
<1>2. checkpoints' = Append(checkpoints, e)
  BY DEF Checkpoint
<1>3. Len(checkpoints) \in Nat /\ Len(checkpoints) >= 1
  BY <1>1 DEF HistoryInv, Latest
<1>4. /\ e.sequence = n - 1 /\ e.previous = Digest(checkpoints[n - 1]) /\ e.state = s
  BY <1>3 DEF PreviousDigest
<1> HIDE DEF e
<1>5. /\ DOMAIN checkpoints = 1 .. Len(checkpoints)
      /\ Len(checkpoints') = n
      /\ DOMAIN checkpoints' = 1 .. n
      /\ \A i \in DOMAIN checkpoints : checkpoints'[i] = checkpoints[i]
      /\ checkpoints'[n] = e
  BY <1>1, <1>2, AppendFacts
<1>6. n \in Nat /\ n > 1 /\ \A i \in 1 .. n : i # n => i \in DOMAIN checkpoints
                                                   /\ (i > 1 => i - 1 \in DOMAIN checkpoints)
  BY <1>3, <1>5
<1>7. Linked'
  <2> SUFFICES ASSUME NEW i \in DOMAIN checkpoints'
               PROVE  /\ checkpoints'[i].sequence = i - 1
                      /\ i = 1 => /\ checkpoints'[i].previous = Nil
                                  /\ checkpoints'[i].state = "Scheduled"
                                  /\ checkpoints'[i].receipts = {}
                      /\ i > 1 => /\ checkpoints'[i].previous = Digest(checkpoints'[i - 1])
                                  /\ checkpoints'[i].state # "Scheduled"
    BY DEF Linked
  <2>1. CASE i = n
    <3>1. n - 1 \in DOMAIN checkpoints
      BY <1>3, <1>5
    <3>2. QED
      BY <1>4, <1>5, <1>6, <2>1, <3>1
  <2>2. CASE i # n
    BY <1>5, <1>6, <2>2 DEF HistoryInv, Linked
  <2>3. QED
    BY <2>1, <2>2
<1>8. Follows'
  <2> SUFFICES ASSUME NEW i \in DOMAIN checkpoints', i > 1
               PROVE  \/ checkpoints'[i].state \in Transitions[checkpoints'[i - 1].state]
                      \/ /\ checkpoints'[i].state = "Cancelled"
                         /\ checkpoints'[i - 1].state \in {"Cancelled", "Invalidated"}
    BY DEF Follows
  <2>1. CASE i = n
    <3>1. n - 1 \in DOMAIN checkpoints /\ n - 1 = Len(checkpoints)
      BY <1>3, <1>5
    <3>2. QED
      BY <1>4, <1>5, <2>1, <3>1
  <2>2. CASE i # n
    BY <1>5, <1>6, <2>2 DEF HistoryInv, Follows
  <2>3. QED
    BY <2>1, <2>2
<1>9. Latest'
  BY <1>4, <1>5, <1>6 DEF Latest
<1>10. Once'
  <2>1. ASSUME NEW i \in DOMAIN checkpoints, checkpoints[i].state = s, s \in {"Closed", "Published"}
        PROVE  FALSE
    BY <2>1 DEF HistoryInv, Once
  <2>2. \A i, j \in DOMAIN checkpoints' :
          /\ checkpoints'[i].state = checkpoints'[j].state
          /\ checkpoints'[i].state \in {"Closed", "Published"}
          => i = j
    <3> TAKE i, j \in DOMAIN checkpoints'
    <3>1. CASE i = n \/ j = n
      BY <1>4, <1>5, <1>6, <2>1, <3>1
    <3>2. CASE i # n /\ j # n
      BY <1>5, <1>6, <3>2 DEF HistoryInv, Once
    <3>3. QED
      BY <3>1, <3>2
  <2>3. result' = Nil => \A i \in DOMAIN checkpoints' : checkpoints'[i].state # "Published"
    BY <1>4, <1>5, <1>6 DEF HistoryInv, Once
  <2>4. QED
    BY <2>2, <2>3 DEF Once
<1>11. Prefixes'
  BY <1>2, PrefixesAppend DEF HistoryInv
<1>12. QED
  BY <1>7, <1>8, <1>9, <1>10, <1>11

LEMMA InitHistory == Init => HistoryInv
<1> SUFFICES ASSUME Init PROVE HistoryInv
  OBVIOUS
<1>1. IInv
  BY InitIInv
<1>2. DOMAIN checkpoints = {}
  BY DEF Init
<1>3. QED
  BY <1>1, <1>2 DEF Init, HistoryInv, Linked, Follows, Latest, Once, Prefixes, Registered

(* What the last checkpoint is while the election can still change.        *)
LEMMA LastCheckpoint ==
  ASSUME HistoryInv, Registered
  PROVE  /\ Len(checkpoints) \in DOMAIN checkpoints
         /\ Voting => \A i \in DOMAIN checkpoints : checkpoints[i].state = "Scheduled"
         /\ state \notin {"Scheduled", "Open"} => checkpoints[Len(checkpoints)].state = state
<1>1. checkpoints \in Seq({checkpoints[i] : i \in DOMAIN checkpoints}) /\ Len(checkpoints) >= 1
  BY DEF HistoryInv, Latest, IInv, TypeOK, TablesTypeOK
<1>2. Len(checkpoints) \in DOMAIN checkpoints
  BY <1>1
<1>3. QED
  BY <1>2 DEF HistoryInv, Latest, IInv, FinalSetAnnounced

LEMMA RegisterHistory ==
  ASSUME HistoryInv, NEW r \in Requests, RegisterCommit(r)
  PROVE  Linked' /\ Follows' /\ Latest' /\ Once' /\ Prefixes'
<1> DEFINE e == [sequence |-> Len(checkpoints), previous |-> PreviousDigest(checkpoints),
                 archive |-> archive, state |-> "Scheduled", receipts |-> ballots]
<1>1. checkpoints = <<>> /\ ballots = {}
  BY DEF RegisterCommit, HistoryInv, IInv, RowConsistent
<1>2. checkpoints' = <<e>>
  BY <1>1 DEF RegisterCommit, Checkpoint
<1>3. e.sequence = 0 /\ e.previous = Nil /\ e.state = "Scheduled" /\ e.receipts = {}
  BY <1>1 DEF PreviousDigest
<1>4. checkpoints' = Append(checkpoints, e) /\ state' = "Scheduled" /\ UNCHANGED <<finals, audits>>
  BY DEF RegisterCommit, Checkpoint, replies
<1> HIDE DEF e
<1>5. DOMAIN checkpoints' = {1} /\ checkpoints'[1] = e /\ Len(checkpoints') = 1
  BY <1>2
<1>6. Linked' /\ Follows' /\ Latest' /\ Once'
  BY <1>3, <1>4, <1>5 DEF Linked, Follows, Latest, Once, Registered
<1>7. Prefixes'
  BY <1>4, PrefixesAppend DEF HistoryInv
<1>8. QED
  BY <1>6, <1>7

LEMMA CloseHistory ==
  ASSUME HistoryInv, NEW r \in Requests, CloseCommit(r)
  PROVE  Linked' /\ Follows' /\ Latest' /\ Once' /\ Prefixes'
<1> DEFINE closed == [row[r].archive EXCEPT !.stage = "ended"]
<1>1. /\ Verdict(closed) \in {"Closed", "ResultsSuppressed"}
      /\ Checkpoint(Verdict(closed), closed) /\ state' = Verdict(closed)
      /\ UNCHANGED <<result, finals, audits>>
  BY DEF CloseCommit, Verdict, replies
<1> HIDE DEF closed
<1>2. Registered /\ Voting
  BY DEF CloseCommit, HistoryInv, IInv, RowHeld, ChecksHold, Locking
<1>3. state \in {"Scheduled", "Open"}
  BY <1>2 DEF Registered, Voting
<1>4. \A i \in DOMAIN checkpoints : checkpoints[i].state = "Scheduled"
  BY <1>2, LastCheckpoint
<1>5. checkpoints[Len(checkpoints)].state = "Scheduled"
  BY <1>2, <1>4, LastCheckpoint
<1>6. \A s \in {"Closed", "ResultsSuppressed"}, l \in {"Scheduled", "Open"} : s \in Transitions[l]
  BY DEF Transitions
<1>7. PICK s \in {"Closed", "ResultsSuppressed"} : s = Verdict(closed)
  BY <1>1
<1>8. QED
  BY <1>1, <1>2, <1>3, <1>4, <1>5, <1>6, <1>7, HistoryAppends

LEMMA TallyHistory ==
  ASSUME HistoryInv, NEW r \in Requests, TallyCommit(r)
  PROVE  Linked' /\ Follows' /\ Latest' /\ Once' /\ Prefixes'
<1> DEFINE counted == row[r].archive.ballots
           tallied == [row[r].archive EXCEPT !.stage = "tallied"]
<1>1. Checkpoint("Published", tallied) /\ state' = "Published" /\ UNCHANGED <<finals, audits>>
  BY DEF TallyCommit, replies
<1> HIDE DEF tallied
<1>2. state = "Closed" /\ row[r] = Row /\ Registered
  BY DEF TallyCommit, HistoryInv, IInv, RowHeld, ChecksHold, Locking, Registered
<1>3. result = Nil /\ counted = ballots /\ ballots \in SUBSET Ballots
  BY <1>2 DEF HistoryInv, IInv, RowConsistent, BoxConsistent, TypeOK, TablesTypeOK, Row
<1>4. result' # Nil
  <2>1. result' = Cardinality(ballots)
    BY <1>3 DEF TallyCommit
  <2>2. QED
    BY <1>3, <2>1, BallotsCounted, ConstantsAssumption DEF ConstantsAssumption
<1>5. checkpoints[Len(checkpoints)].state = "Closed"
  BY <1>2, LastCheckpoint
<1>6. "Published" \in Transitions["Closed"]
  BY DEF Transitions
<1>7. QED
  BY <1>1, <1>2, <1>3, <1>4, <1>5, <1>6, HistoryAppends

LEMMA WithdrawHistory ==
  ASSUME HistoryInv, Cancel \/ Invalidate
  PROVE  Linked' /\ Follows' /\ Latest' /\ Once' /\ Prefixes'
<1>1. Registered /\ state \in States \cup {"None"}
  BY DEF Cancel, Invalidate, HistoryInv, IInv, TypeOK, TablesTypeOK
<1>2. \/ checkpoints[Len(checkpoints)].state = state
      \/ (checkpoints[Len(checkpoints)].state = "Scheduled" /\ state = "Open")
  BY <1>1 DEF HistoryInv, Latest
<1>3. CASE Cancel
  <2>1. /\ Checkpoint("Cancelled", archive) /\ state' = "Cancelled" /\ state # "Published"
        /\ UNCHANGED <<result, finals, audits>>
    BY <1>3 DEF Cancel, replies
  <2>2. \A l \in States : l # "Published" =>
          "Cancelled" \in Transitions[l] \/ l \in {"Cancelled", "Invalidated"}
    BY DEF Transitions, States
  <2>3. \A l \in {state, checkpoints[Len(checkpoints)].state} :
          "Cancelled" \in Transitions[l] \/ l \in {"Cancelled", "Invalidated"}
    BY <1>1, <1>2, <2>1, <2>2 DEF Registered, States
  <2>4. QED
    BY <1>1, <2>1, <2>3, HistoryAppends
<1>4. CASE Invalidate
  <2>1. /\ Checkpoint("Invalidated", archive) /\ state' = "Invalidated" /\ state = "Published"
        /\ UNCHANGED <<result, finals, audits>>
    BY <1>4 DEF Invalidate, replies
  <2>2. "Invalidated" \in Transitions["Published"]
    BY DEF Transitions
  <2>3. QED
    BY <1>1, <1>2, <2>1, <2>2, HistoryAppends
<1>5. QED
  BY <1>3, <1>4

(* The other steps announce nothing; the readers answer the whole chain.   *)
LEMMA QuietHistory ==
  ASSUME HistoryInv, UNCHANGED <<checkpoints, result>>,
         UNCHANGED state \/ (state \in {"Scheduled", "Open"} /\ state' = "Open"),
         \/ UNCHANGED <<finals, audits>>
         \/ \E r \in Requests : ReturnFinal(r) \/ ReturnAudit(r)
  PROVE  Linked' /\ Follows' /\ Latest' /\ Once' /\ Prefixes'
<1>1. checkpoints \in Seq({checkpoints[i] : i \in DOMAIN checkpoints})
  BY DEF HistoryInv, IInv, TypeOK, TablesTypeOK
<1>2. Linked' /\ Follows' /\ Once'
  BY DEF HistoryInv, Linked, Follows, Once
<1>3. Latest'
  BY DEF HistoryInv, Latest, Registered
<1>4. APrefix(checkpoints)
  <2>1. Len(checkpoints) \in 0 .. Len(checkpoints) /\ checkpoints = SubSeq(checkpoints, 1, Len(checkpoints))
    BY <1>1
  <2>2. QED
    BY <2>1 DEF APrefix
<1>5. \A c : APrefix(c) => APrefix(c)'
  BY DEF APrefix
<1>6. CASE UNCHANGED <<finals, audits>>
  BY <1>2, <1>3, <1>5, <1>6 DEF HistoryInv, Prefixes
<1>7. ASSUME NEW r \in Requests, ReturnFinal(r) PROVE Prefixes'
  <2> DEFINE f == [archive |-> row[r].finalArchive, checkpoints |-> checkpoints]
  <2>1. finals' = finals \cup {f} /\ audits' = audits
    BY <1>7 DEF ReturnFinal
  <2>2. f = [archive |-> f.archive, checkpoints |-> f.checkpoints] /\ f.checkpoints = checkpoints
    OBVIOUS
  <2> HIDE DEF f
  <2>3. QED
    BY <1>4, <1>5, <2>1, <2>2 DEF HistoryInv, Prefixes
<1>8. ASSUME NEW r \in Requests, ReturnAudit(r) PROVE Prefixes'
  <2> DEFINE a == [archive |-> row[r].archive, result |-> row[r].result, checkpoints |-> checkpoints]
  <2>1. audits' = audits \cup {a} /\ finals' = finals
    BY <1>8 DEF ReturnAudit
  <2>2. /\ a = [archive |-> a.archive, result |-> a.result, checkpoints |-> a.checkpoints]
        /\ a.checkpoints = checkpoints
    OBVIOUS
  <2> HIDE DEF a
  <2>3. QED
    BY <1>4, <1>5, <2>1, <2>2 DEF HistoryInv, Prefixes
<1>9. QED
  BY <1>2, <1>3, <1>6, <1>7, <1>8

LEMMA NextHistory == HistoryInv /\ [Next]_vars => HistoryInv'
<1> SUFFICES ASSUME HistoryInv, [Next]_vars PROVE Linked' /\ Follows' /\ Latest' /\ Once' /\ Prefixes'
  BY NextIInv DEF HistoryInv
<1>1. CASE UNCHANGED tables
  <2>1. UNCHANGED <<finals, audits>> \/ \E r \in Requests : ReturnFinal(r) \/ ReturnAudit(r)
    BY DEF Next, vars, replies, Register, RegisterCommit, RegisterAgain, ReplayBallot, Tracker, PostBallot,
           AcceptCommit, Close, CloseCommit, Share, ShareCommit, Tally, TallyCommit, Cancel, Invalidate,
           ReadFinal, ReadAudit, Abort, Tick
  <2>2. QED
    BY <1>1, <2>1, QuietHistory DEF tables
<1>2. ASSUME NEW r \in Requests, AcceptCommit(r)
      PROVE  Linked' /\ Follows' /\ Latest' /\ Once' /\ Prefixes'
  <2>1. state \in {"Scheduled", "Open"}
    BY <1>2 DEF AcceptCommit, HistoryInv, IInv, RowHeld, ChecksHold, Locking, Registered, Voting
  <2>2. QED
    BY <1>2, <2>1, QuietHistory DEF AcceptCommit
<1>3. ASSUME NEW r \in Requests, ShareCommit(r)
      PROVE  Linked' /\ Follows' /\ Latest' /\ Once' /\ Prefixes'
  BY <1>3, QuietHistory DEF ShareCommit, replies
<1>4. QED
  BY <1>1, <1>2, <1>3, TableSteps, RegisterHistory, CloseHistory, TallyHistory, WithdrawHistory
     DEF HistoryInv

(* The checkpoints of one election form one unbroken, hash-linked history: *)
(* each commit of the service appends to it and none rewrites it.          *)
THEOREM HistoryInvariance == Spec => []HistoryInv
<1>1. QED
  BY InitHistory, NextHistory, PTL DEF Spec

----------------------------------------------------------------------------
(* As long as nobody withdraws the election twice, every public observer   *)
(* accepts its chain, whatever requests ran at the same time.              *)
THEOREM ObserversAccept == Spec => []HistoryVerifiableIfWithdrawnOnce
<1>1. ASSUME HistoryInv, WithdrawnOnce, Registered PROVE ObserverChain(checkpoints)
  <2>1. /\ checkpoints \in Seq({checkpoints[i] : i \in DOMAIN checkpoints})
        /\ Len(checkpoints) >= 1
    BY <1>1 DEF HistoryInv, Latest, IInv, TypeOK, TablesTypeOK
  <2>2. Len(checkpoints) \in Nat /\ DOMAIN checkpoints = 1 .. Len(checkpoints) /\ checkpoints # <<>>
    BY <2>1
  <2>3. \A i \in DOMAIN checkpoints : i > 1 => checkpoints[i].receipts = ballots
    BY <1>1 DEF HistoryInv, Linked, IInv, FinalSetAnnounced
  <2>4. VerifyChain(checkpoints)
    <3> SUFFICES ASSUME NEW i \in DOMAIN checkpoints
                 PROVE  /\ checkpoints[i].sequence = i - 1
                        /\ checkpoints[i].previous = PreviousDigest(SubSeq(checkpoints, 1, i - 1))
                        /\ i > 1 => checkpoints[i - 1].receipts \subseteq checkpoints[i].receipts
      BY DEF VerifyChain
    <3>1. CASE i = 1
      <4>1. SubSeq(checkpoints, 1, i - 1) = <<>>
        BY <2>1, <3>1
      <4>2. QED
        BY <1>1, <3>1, <4>1 DEF HistoryInv, Linked, PreviousDigest
    <3>2. CASE i > 1
      <4> DEFINE c == SubSeq(checkpoints, 1, i - 1)
      <4>1. Len(c) = i - 1 /\ c[i - 1] = checkpoints[i - 1] /\ c # <<>>
        <5>1. i - 1 \in 1 .. Len(checkpoints) /\ i - 1 >= 1
          BY <2>2, <3>2
        <5>2. Len(c) = i - 1
          BY <2>1, <5>1
        <5>3. c[i - 1] = checkpoints[i - 1]
          BY <2>1, <5>1
        <5>4. QED
          BY <5>1, <5>2, <5>3
      <4>2. checkpoints[i].previous = PreviousDigest(c)
        BY <1>1, <3>2, <4>1 DEF HistoryInv, Linked, PreviousDigest
      <4>3. i - 1 \in DOMAIN checkpoints /\ (i - 1 = 1 \/ i - 1 > 1)
        BY <2>2, <3>2
      <4>4. checkpoints[i - 1].receipts \subseteq checkpoints[i].receipts
        BY <1>1, <2>3, <3>2, <4>3 DEF HistoryInv, Linked
      <4>5. QED
        BY <1>1, <3>2, <4>2, <4>4 DEF HistoryInv, Linked
    <3>3. QED
      BY <2>2, <3>1, <3>2
  <2>5. checkpoints[1].state = "Scheduled"
    BY <1>1, <2>1, <2>2 DEF HistoryInv, Linked
  <2>6. \A i \in 2 .. Len(checkpoints) : checkpoints[i].state \in Transitions[checkpoints[i - 1].state]
    <3> SUFFICES ASSUME NEW i \in 2 .. Len(checkpoints)
                 PROVE  checkpoints[i].state \in Transitions[checkpoints[i - 1].state]
      OBVIOUS
    <3>1. i \in DOMAIN checkpoints /\ i > 1
      BY <2>2
    <3>2. ~(checkpoints[i].state = "Cancelled" /\ checkpoints[i - 1].state \in {"Cancelled", "Invalidated"})
      BY <1>1 DEF WithdrawnOnce
    <3>3. QED
      BY <1>1, <3>1, <3>2 DEF HistoryInv, Follows
  <2>7. ASSUME NEW i \in DOMAIN checkpoints, NEW j \in DOMAIN checkpoints, i < j,
               checkpoints[i].state \in {"Closed", "ResultsSuppressed", "Cancelled"}
        PROVE  checkpoints[j].receipts = checkpoints[i].receipts
    <3>1. i > 1 /\ j > 1
      BY <2>2, <2>5, <2>7
    <3>2. QED
      BY <2>3, <3>1
  <2>8. QED
    BY <2>2, <2>4, <2>5, <2>6, <2>7 DEF ObserverChain
<1>2. HistoryInv => HistoryVerifiableIfWithdrawnOnce
  BY <1>1 DEF HistoryVerifiableIfWithdrawnOnce, HistoryVerifiable
<1>3. QED
  BY <1>2, HistoryInvariance, PTL

(* Two prefixes of the chain that end with the same announcement of a      *)
(* close, or of a result, are one.                                         *)
LEMMA SamePrefix ==
  ASSUME HistoryInv, NEW c, NEW d, APrefix(c), APrefix(d), c # <<>>, d # <<>>,
         c[Len(c)].state = d[Len(d)].state, c[Len(c)].state \in {"Closed", "Published"}
  PROVE  c = d /\ c[Len(c)].receipts = ballots
<1>1. /\ checkpoints \in Seq({checkpoints[i] : i \in DOMAIN checkpoints})
      /\ DOMAIN checkpoints = 1 .. Len(checkpoints) /\ Len(checkpoints) \in Nat
  BY DEF HistoryInv, IInv, TypeOK, TablesTypeOK
<1>2. PICK k \in 0 .. Len(checkpoints) : c = SubSeq(checkpoints, 1, k)
  BY DEF APrefix
<1>3. PICK l \in 0 .. Len(checkpoints) : d = SubSeq(checkpoints, 1, l)
  BY DEF APrefix
<1>4. k \in DOMAIN checkpoints /\ Len(c) = k /\ c[k] = checkpoints[k]
  BY <1>1, <1>2
<1>5. l \in DOMAIN checkpoints /\ Len(d) = l /\ d[l] = checkpoints[l]
  BY <1>1, <1>3
<1>6. k = l
  BY <1>4, <1>5 DEF HistoryInv, Once
<1>7. checkpoints[k].receipts = ballots
  BY <1>4 DEF HistoryInv, IInv, FinalSetAnnounced
<1>8. QED
  BY <1>2, <1>3, <1>4, <1>6, <1>7

(* All trustees that accept a final set accept the same one.               *)
THEOREM TrusteesAcceptOneSet == Spec => []OneFinalSet
<1>1. ASSUME HistoryInv, NEW f \in finals, NEW g \in finals, NEW x,
             VerifyFinal(f, Threshold, x), VerifyFinal(g, Threshold, x)
      PROVE  f = g /\ f.archive.ballots = ballots
  <2>1. /\ f = [archive |-> f.archive, checkpoints |-> f.checkpoints] /\ APrefix(f.checkpoints)
        /\ g = [archive |-> g.archive, checkpoints |-> g.checkpoints] /\ APrefix(g.checkpoints)
    BY <1>1 DEF HistoryInv, Prefixes
  <2>2. f.checkpoints = g.checkpoints /\ f.checkpoints[Len(f.checkpoints)].receipts = ballots
    BY <1>1, <2>1, SamePrefix DEF VerifyFinal
  <2>3. f.archive = g.archive /\ f.archive.ballots = ballots
    BY <1>1, <2>2 DEF VerifyFinal
  <2>4. QED
    BY <2>1, <2>2, <2>3
<1>2. HistoryInv => OneFinalSet
  BY <1>1 DEF OneFinalSet
<1>3. QED
  BY <1>2, HistoryInvariance, PTL

(* Everybody who verifies an audit package verifies the same one, and it   *)
(* counts every ballot whose receipt a voter holds.                        *)
THEOREM PublicAcceptsOneAudit == Spec => []OneAudit
<1>1. ASSUME HistoryInv, NEW a \in audits, NEW b \in audits, NEW x,
             VerifyPublicAudit(a, Threshold, x), VerifyPublicAudit(b, Threshold, x)
      PROVE  a = b /\ acked \subseteq a.archive.ballots /\ a.result = Cardinality(ballots)
  <2>1. /\ a = [archive |-> a.archive, result |-> a.result, checkpoints |-> a.checkpoints]
        /\ b = [archive |-> b.archive, result |-> b.result, checkpoints |-> b.checkpoints]
        /\ APrefix(a.checkpoints) /\ APrefix(b.checkpoints)
    BY <1>1 DEF HistoryInv, Prefixes
  <2>2. a.checkpoints = b.checkpoints /\ a.checkpoints[Len(a.checkpoints)].receipts = ballots
    BY <1>1, <2>1, SamePrefix DEF VerifyPublicAudit, ObserverChain
  <2>3. /\ a.archive = b.archive /\ a.archive.ballots = ballots
        /\ a.result = Cardinality(ballots) /\ b.result = Cardinality(ballots)
    BY <1>1, <2>2 DEF VerifyPublicAudit
  <2>4. acked \subseteq ballots
    BY <1>1 DEF HistoryInv, IInv, FinalSetAnnounced
  <2>5. QED
    BY <2>1, <2>2, <2>3, <2>4
<1>2. HistoryInv => OneAudit
  BY <1>1 DEF OneAudit
<1>3. QED
  BY <1>2, HistoryInvariance, PTL
============================================================================
