--------------------------- MODULE AuditorsProofs ---------------------------
(***************************************************************************)
(* The invariants of a host, its trustees and its observers, for every     *)
(* number of each of them, of ballots, of overlapping runs and programs,   *)
(* and of backups restored.                                                *)
(*                                                                         *)
(* A trustee's files are written once: a digest or a share that is whole   *)
(* stays (RunSound, Alone), so whatever the service or a backup of it has  *)
(* recorded is the one share on the disk (Recorded).  A published final    *)
(* set has the archive for which a quorum made its only shares (Tallied),  *)
(* and two quorums have a trustee in common.                               *)
(*                                                                         *)
(* What the service announces is Genuine, and so is all that was fetched   *)
(* from it (HonestInv): every check of a trustee, of an observer and of    *)
(* the public therefore passes against a host that follows the code.       *)
(***************************************************************************)
EXTENDS Auditors, FiniteSetTheorems, SequenceTheorems, SequenceLemmas, TLAPS

DatabaseType ==
  [phase : Phases, cast : SUBSET Ballots, history : Histories, outcome : Nat, shares : [Trustees -> Shares \cup {Nil}]]

RunType ==
  [step : {"idle", "fetching", "fetched", "verify", "bind", "binding", "bound", "made", "storing", "ready"},
   trustee : Trustees \cup {Nil}, archive : Archives \cup {Nil}, final : Histories \cup {Nil},
   prior : Histories \cup {Nil, Partial}, share : Shares \cup {Nil, Partial}]

HostType ==
  /\ clock \in 0 .. Horizon /\ restores \in 0 .. MaxRestores /\ visible \in BOOLEAN
  /\ published \subseteq Histories
  /\ Database \in DatabaseType /\ backup \in DatabaseType

TrusteeType ==
  /\ bound \in [Trustees -> Histories \cup {Nil, Partial}]
  /\ share \in [Trustees -> Shares \cup {Nil, Partial}]
  /\ run \in [Runs -> RunType]

Tally(h) == FinalSet(h).archive

Recorded(d) ==
  /\ d.phase # "None" => d.history # <<>>
  /\ d.phase \in {"None", "Scheduled", "Open"} => d.shares = NoShares
  /\ d.phase = "Closed" => \A t \in Trustees : d.shares[t] # Nil => Tally(d.shares[t].final) = Tally(d.history)
  /\ \A t \in Trustees : d.shares[t] # Nil => share[t] = d.shares[t] /\ bound[t] = d.shares[t].final

RunSound(x, b, s) ==
  /\ x.step # "idle" => x.trustee \in Trustees
  /\ x.step \notin {"idle", "fetching"} => x.final \in Histories
  /\ x.step = "binding" => b[x.trustee] = Partial
  /\ x.step \in {"bound", "made", "storing"} => b[x.trustee] = x.final
  /\ x.step \in {"made", "storing"} => x.share \in Shares /\ x.share.final = x.final
  /\ x.step = "storing" => s[x.trustee] = Partial
  /\ x.step = "ready" => x.share \in Shares \cup {Partial} /\ (x.share \in Shares => s[x.trustee] = x.share)

Alone ==
  \A r, s \in Runs :
    /\ run[r].trustee = run[s].trustee
    /\ \/ run[r].step = "binding" /\ run[s].step = "binding"
       \/ run[r].step = "storing" /\ run[s].step = "storing"
    => r = s

OwnFinal == \A t \in Trustees : share[t] \in Shares => bound[t] = share[t].final

Tallied ==
  \A h \in published : \E Q \in Quorums : \A t \in Q : share[t] \in Shares /\ Tally(share[t].final) = Tally(h)

TrusteeInv ==
  /\ HostType /\ TrusteeType
  /\ Recorded(Database) /\ Recorded(backup)
  /\ \A r \in Runs : RunSound(run[r], bound, share)
  /\ Alone /\ OwnFinal /\ Tallied

-----------------------------------------------------------------------------
LEMMA Apart ==
  /\ Nil # Partial /\ Nil \notin Trustees /\ Nil \notin Histories /\ Partial \notin Histories
  /\ Nil \notin Shares /\ Partial \notin Shares
  BY TrusteeAssumption DEF TrusteeAssumption

LEMMA Quorate == Quorums \subseteq SUBSET Trustees /\ \A P, Q \in Quorums : P \cap Q # {}
  BY HostingAssumption DEF HostingAssumption

LEMMA Bounds == Horizon \in Nat /\ MaxRestores \in Nat /\ IsFiniteSet(Ballots)
  BY HostingAssumption DEF HostingAssumption

LEMMA DatabaseFields ==
  /\ Database.phase = phase /\ Database.cast = cast /\ Database.history = history
  /\ Database.outcome = outcome /\ Database.shares = shares
  BY DEF Database

LEMMA DatabaseTyped ==
  Database \in DatabaseType <=>
    /\ phase \in Phases /\ cast \subseteq Ballots /\ history \in Histories /\ outcome \in Nat
    /\ shares \in [Trustees -> Shares \cup {Nil}]
  BY DEF Database, DatabaseType

LEMMA IdleSound == Idle \in RunType /\ RunSound(Idle, bound, share) /\ Idle.step = "idle"
  BY DEF Idle, RunType, RunSound

LEMMA TallyOf == \A h : Tally(h) = Archive(h[Len(h)])
  BY DEF Tally, FinalSet

LEMMA TrusteeInvInit == HostInit /\ TrusteeInit => TrusteeInv
<1> SUFFICES ASSUME HostInit, TrusteeInit PROVE TrusteeInv
  OBVIOUS
<1>1. phase = "None" /\ cast = {} /\ history = <<>> /\ outcome = 0 /\ shares = NoShares /\ clock = 0
        /\ restores = 0 /\ published = {} /\ visible = FALSE /\ backup = Database
  BY DEF HostInit, Init
<1>2. Database \in DatabaseType
  <2>1. <<>> \in Histories /\ "None" \in Phases
    BY DEF Histories, Phases
  <2>2. shares \in [Trustees -> Shares \cup {Nil}]
    BY <1>1 DEF NoShares
  <2>3. QED
    BY <1>1, <2>1, <2>2, DatabaseTyped
<1>3. HostType
  <2>1. clock \in 0 .. Horizon /\ restores \in 0 .. MaxRestores
    BY <1>1, Bounds
  <2>2. backup \in DatabaseType
    BY <1>1, <1>2
  <2>3. QED
    BY <1>1, <1>2, <2>1, <2>2 DEF HostType
<1>4. TrusteeType
  BY IdleSound DEF TrusteeInit, TrusteeType
<1>5. Recorded(Database)
  BY <1>1, DatabaseFields DEF Recorded, NoShares
<1>6. \A r \in Runs : RunSound(run[r], bound, share)
  BY IdleSound DEF TrusteeInit
<1>7. Alone
  BY IdleSound DEF TrusteeInit, Alone
<1>8. OwnFinal
  BY Apart DEF TrusteeInit, OwnFinal
<1>9. Tallied
  BY <1>1 DEF Tallied
<1>10. QED
  BY <1>1, <1>3, <1>4, <1>5, <1>6, <1>7, <1>8, <1>9 DEF TrusteeInv

(* The host goes on; the disks of the trustees stay as they are.           *)
LEMMA HostKeeps ==
  ASSUME TrusteeInv, UNCHANGED trusteeVars, HostType', Recorded(Database)', Recorded(backup)', Tallied'
  PROVE  TrusteeInv'
<1>1. UNCHANGED <<bound, share, run>>
  BY DEF trusteeVars, files
<1>2. TrusteeType' /\ Alone' /\ OwnFinal'
  BY <1>1 DEF TrusteeInv, TrusteeType, Alone, OwnFinal
<1>3. \A r \in Runs : RunSound(run[r], bound, share)'
  BY <1>1 DEF TrusteeInv, RunSound
<1>4. QED
  BY <1>2, <1>3 DEF TrusteeInv

LEMMA AppendKeeps ==
  ASSUME NEW h \in Histories, NEW p \in States, NEW b \in SUBSET Ballots
  PROVE  Append(h, [phase |-> p, ballots |-> b]) \in Histories
  BY DEF Histories

LEMMA AppendNotEmpty == \A h \in Histories : \A e : Append(h, e) # <<>>
  BY DEF Histories

LEMMA ServeKeeps == TrusteeInv /\ Serve /\ UNCHANGED trusteeVars => TrusteeInv'
<1> SUFFICES ASSUME TrusteeInv, Serve, UNCHANGED trusteeVars PROVE TrusteeInv'
  OBVIOUS
<1>1. UNCHANGED <<bound, share, run, shares, visible, backup, restores, published>>
  BY DEF trusteeVars, files, Serve
<1>2. /\ phase \in Phases /\ cast \subseteq Ballots /\ history \in Histories /\ outcome \in Nat
      /\ shares \in [Trustees -> Shares \cup {Nil}] /\ clock \in 0 .. Horizon
  BY DatabaseTyped DEF TrusteeInv, HostType
<1>3. /\ phase # "None" => history # <<>>
      /\ phase \in {"None", "Scheduled", "Open"} => shares = NoShares
      /\ phase = "Closed" => \A t \in Trustees : shares[t] # Nil => Tally(shares[t].final) = Tally(history)
      /\ \A t \in Trustees : shares[t] # Nil => share[t] = shares[t] /\ bound[t] = shares[t].final
  BY DatabaseFields DEF TrusteeInv, Recorded
<1>4. Tallied' /\ Recorded(backup)'
  BY <1>1 DEF TrusteeInv, Tallied, Recorded
<1> DEFINE Fits ==
      /\ phase' \in Phases /\ cast' \subseteq Ballots /\ history' \in Histories /\ outcome' \in Nat
      /\ clock' \in 0 .. Horizon
      /\ phase' # "None" => history' # <<>>
      /\ phase' \in {"None", "Scheduled", "Open"} => shares = NoShares
      /\ phase' = "Closed" => \A t \in Trustees : shares[t] # Nil => Tally(shares[t].final) = Tally(history')
<1>5. ASSUME Fits PROVE TrusteeInv'
  <2>1. HostType'
    <3>1. Database' \in DatabaseType
      BY <1>1, <1>2, <1>5 DEF Database, DatabaseType
    <3>2. QED
      BY <1>1, <1>5, <3>1 DEF TrusteeInv, HostType
  <2>2. Recorded(Database)'
    BY <1>1, <1>3, <1>5 DEF Recorded, Database
  <2>3. QED
    BY <1>4, <2>1, <2>2, HostKeeps
<1>6. CASE Schedule
  <2>1. phase' = "Scheduled" /\ phase = "None" /\ history' = Append(history, [phase |-> "Scheduled", ballots |-> cast])
          /\ UNCHANGED <<clock, cast, outcome>>
    BY <1>6 DEF Schedule, Announce
  <2>2. "Scheduled" \in States /\ "Scheduled" \in Phases
    BY DEF States, Phases
  <2>3. history' \in Histories /\ history' # <<>>
    BY <1>2, <2>1, <2>2, AppendKeeps, AppendNotEmpty
  <2>4. QED
    BY <1>2, <1>3, <1>5, <2>1, <2>2, <2>3
<1>7. CASE Close
  <2>1. phase \in {"Scheduled", "Open"} /\ phase' \in {"ResultsSuppressed", "Closed"}
          /\ history' = Append(history, [phase |-> phase', ballots |-> cast]) /\ UNCHANGED <<clock, cast, outcome>>
    BY <1>7 DEF Close, Announce
  <2>2. phase' \in States /\ phase' \in Phases
    BY <2>1 DEF States, Phases
  <2>3. history' \in Histories /\ history' # <<>>
    BY <1>2, <2>1, <2>2, AppendKeeps, AppendNotEmpty
  <2>4. \A t \in Trustees : shares[t] = Nil
    BY <1>3, <2>1 DEF NoShares
  <2>5. QED
    BY <1>2, <1>5, <2>1, <2>2, <2>3, <2>4
<1>8. CASE Withdraw \/ Invalidate
  <2>1. phase' \in {"Cancelled", "Invalidated"} /\ history' = Append(history, [phase |-> phase', ballots |-> cast])
          /\ UNCHANGED <<clock, cast, outcome>>
    BY <1>8 DEF Withdraw, Invalidate, Announce
  <2>2. phase' \in States /\ phase' \in Phases
    BY <2>1 DEF States, Phases
  <2>3. history' \in Histories /\ history' # <<>>
    BY <1>2, <2>1, <2>2, AppendKeeps, AppendNotEmpty
  <2>4. QED
    BY <1>2, <1>5, <2>1, <2>2, <2>3
<1>9. ASSUME NEW b \in Ballots, Cast(b) PROVE TrusteeInv'
  <2>1. phase \in {"Scheduled", "Open"} /\ phase' = "Open" /\ cast' = cast \cup {b}
          /\ UNCHANGED <<clock, history, outcome>>
    BY <1>9 DEF Cast
  <2>2. "Open" \in Phases
    BY DEF States, Phases
  <2>3. QED
    BY <1>2, <1>3, <1>5, <2>1, <2>2
<1>10. CASE clock < Horizon /\ Tick
  <2>1. clock' = clock + 1 /\ UNCHANGED <<phase, cast, history, outcome>>
    BY <1>10 DEF Tick
  <2>2. clock' \in 0 .. Horizon
    BY <1>2, <1>10, <2>1, Bounds
  <2>3. QED
    BY <1>2, <1>3, <1>5, <2>1, <2>2
<1>11. QED
  BY <1>6, <1>7, <1>8, <1>9, <1>10 DEF Serve

(* The tally published is the one for which a quorum made its shares.      *)
LEMMA PublishTallyKeeps == TrusteeInv /\ PublishTally /\ UNCHANGED trusteeVars => TrusteeInv'
<1> SUFFICES ASSUME TrusteeInv, PublishTally, UNCHANGED trusteeVars PROVE TrusteeInv'
  OBVIOUS
<1>1. UNCHANGED <<bound, share, run, shares, visible, backup, restores, clock, cast>>
        /\ published' = published \cup {history} /\ phase = "Closed" /\ phase' = "Published"
        /\ history' = Append(history, [phase |-> "Published", ballots |-> cast]) /\ outcome' = Cardinality(cast)
  BY DEF trusteeVars, files, PublishTally, Publish, Announce
<1>2. /\ cast \subseteq Ballots /\ history \in Histories /\ shares \in [Trustees -> Shares \cup {Nil}]
  BY DatabaseTyped DEF TrusteeInv, HostType
<1>3. Cardinality(cast) \in Nat
  BY <1>2, Bounds, FS_Subset, FS_CardinalityType
<1>4. "Published" \in States /\ "Published" \in Phases
  BY DEF States, Phases
<1>5. history' \in Histories /\ history' # <<>>
  BY <1>1, <1>2, <1>4, AppendKeeps, AppendNotEmpty
<1>6. HostType'
  <2>1. Database' \in DatabaseType
    BY <1>1, <1>2, <1>3, <1>4, <1>5 DEF Database, DatabaseType
  <2>2. published' \subseteq Histories
    BY <1>1, <1>2 DEF TrusteeInv, HostType
  <2>3. QED
    BY <1>1, <2>1, <2>2 DEF TrusteeInv, HostType
<1>7. Recorded(Database)' /\ Recorded(backup)'
  <2>1. \A t \in Trustees : shares[t] # Nil => share[t] = shares[t] /\ bound[t] = shares[t].final
    BY DatabaseFields DEF TrusteeInv, Recorded
  <2>2. Recorded(Database)'
    BY <1>1, <1>5, <2>1 DEF Recorded, Database
  <2>3. QED
    BY <1>1, <2>2 DEF TrusteeInv, Recorded
<1>8. Tallied'
  <2>1. PICK Q \in Quorums : \A t \in Q : shares[t] # Nil
    BY DEF PublishTally
  <2>2. \A t \in Q : share[t] \in Shares /\ Tally(share[t].final) = Tally(history)
    BY <1>1, <1>2, <2>1, Quorate, DatabaseFields DEF TrusteeInv, Recorded
  <2>3. QED
    BY <1>1, <2>2 DEF TrusteeInv, Tallied
<1>9. QED
  BY <1>6, <1>7, <1>8, HostKeeps

LEMMA BackupKeeps ==
  TrusteeInv /\ (Show \/ Hide \/ Backup \/ Restore) /\ UNCHANGED trusteeVars => TrusteeInv'
<1> SUFFICES ASSUME TrusteeInv, Show \/ Hide \/ Backup \/ Restore, UNCHANGED trusteeVars PROVE TrusteeInv'
  OBVIOUS
<1>1. UNCHANGED <<bound, share, run, clock, published>>
  BY DEF trusteeVars, files, Show, Hide, Backup, Restore, vars
<1>2. Tallied'
  BY <1>1 DEF TrusteeInv, Tallied
<1>3. CASE Show \/ Hide
  <2>1. Database' = Database /\ backup' = backup /\ restores' = restores /\ visible' \in BOOLEAN
    BY <1>3 DEF Show, Hide, Database, vars
  <2>2. HostType'
    BY <1>1, <2>1 DEF TrusteeInv, HostType
  <2>3. Recorded(Database)' /\ Recorded(backup)'
    BY <1>1, <2>1 DEF TrusteeInv, Recorded
  <2>4. QED
    BY <1>2, <2>2, <2>3, HostKeeps
<1>4. CASE Backup
  <2>1. Database' = Database /\ backup' = Database /\ restores' = restores /\ visible' = visible
    BY <1>4 DEF Backup, Database, vars
  <2>2. HostType'
    BY <1>1, <2>1 DEF TrusteeInv, HostType
  <2>3. Recorded(Database)' /\ Recorded(backup)'
    BY <1>1, <2>1 DEF TrusteeInv, Recorded
  <2>4. QED
    BY <1>2, <2>2, <2>3, HostKeeps
<1>5. CASE Restore
  <2>1. Database' = backup /\ backup' = backup /\ visible' = visible
    <3>1. backup \in DatabaseType
      BY DEF TrusteeInv, HostType
    <3>2. QED
      BY <1>5, <3>1 DEF Restore, Database, DatabaseType
  <2>2. restores' \in 0 .. MaxRestores
    BY <1>5, Bounds DEF Restore, TrusteeInv, HostType
  <2>3. HostType'
    BY <1>1, <2>1, <2>2 DEF TrusteeInv, HostType
  <2>4. Recorded(Database)' /\ Recorded(backup)'
    BY <1>1, <2>1 DEF TrusteeInv, Recorded
  <2>5. QED
    BY <1>2, <2>3, <2>4, HostKeeps
<1>6. QED
  BY <1>3, <1>4, <1>5

-----------------------------------------------------------------------------
(***************************************************************************)
(* The trustees                                                            *)
(***************************************************************************)
LEMMA HostUntouched ==
  ASSUME TrusteeInv, UNCHANGED hostVars
  PROVE  HostType' /\ Database' = Database /\ backup' = backup /\ published' = published
<1>1. UNCHANGED <<clock, phase, cast, history, outcome, shares, visible, backup, restores, published>>
  BY DEF hostVars, vars
<1>2. QED
  BY <1>1 DEF TrusteeInv, HostType, Database

(* A run goes on and writes nothing.                                       *)
LEMMA RunKeeps ==
  ASSUME TrusteeInv, UNCHANGED <<hostVars, files>>, NEW r \in Runs, NEW x \in RunType,
         RunSound(x, bound, share), x.step \notin {"binding", "storing"}, run' = [run EXCEPT ![r] = x]
  PROVE  TrusteeInv'
<1>1. UNCHANGED <<bound, share>>
  BY DEF files
<1>2. HostType' /\ Database' = Database /\ backup' = backup /\ published' = published
  BY HostUntouched
<1>3. run \in [Runs -> RunType]
  BY DEF TrusteeInv, TrusteeType
<1>4. run' \in [Runs -> RunType] /\ \A s \in Runs : run'[s] = IF s = r THEN x ELSE run[s]
  BY <1>3
<1>5. TrusteeType'
  BY <1>1, <1>4 DEF TrusteeInv, TrusteeType
<1>6. Recorded(Database)' /\ Recorded(backup)'
  BY <1>1, <1>2 DEF TrusteeInv, Recorded
<1>7. \A s \in Runs : RunSound(run[s], bound, share)'
  <2> SUFFICES ASSUME NEW s \in Runs PROVE RunSound(run[s], bound, share)'
    OBVIOUS
  <2>1. RunSound(run'[s], bound, share)
    BY <1>4 DEF TrusteeInv
  <2>2. QED
    BY <1>1, <2>1
<1>8. Alone'
  BY <1>4 DEF TrusteeInv, Alone
<1>9. OwnFinal' /\ Tallied'
  BY <1>1, <1>2 DEF TrusteeInv, OwnFinal, Tallied
<1>10. QED
  BY <1>2, <1>5, <1>6, <1>7, <1>8, <1>9 DEF TrusteeInv

LEMMA RunFacts ==
  ASSUME TrusteeInv, NEW r \in Runs
  PROVE  run \in [Runs -> RunType] /\ run[r] \in RunType /\ RunSound(run[r], bound, share)
  BY DEF TrusteeInv, TrusteeType

LEMMA ArchivesTyped == ASSUME NEW h \in Histories, h # <<>> PROVE Archive(h[Len(h)]) \in Archives
<1>1. h[Len(h)] \in [phase : States, ballots : SUBSET Ballots]
  <2> DEFINE Announcements == [phase : States, ballots : SUBSET Ballots]
  <2>1. h \in Seq(Announcements)
    BY DEF Histories
  <2> HIDE DEF Announcements
  <2>2. Len(h) \in 1 .. Len(h)
    BY <2>1, EmptySeq, LenProperties
  <2>3. h[Len(h)] \in Announcements
    BY <2>1, <2>2, ElementOfSeq
  <2>4. QED
    BY <2>3 DEF Announcements
<1>2. Stage(h[Len(h)].phase) \in Stages
  BY DEF Stage, Stages
<1>3. QED
  BY <1>1, <1>2 DEF Archive, Archives

LEMMA FetchKeeps ==
  ASSUME TrusteeInv, history # <<>>, NEW r \in Runs, NEW t \in Trustees, Fetch(r, t)
  PROVE  TrusteeInv'
<1> DEFINE x == [Idle EXCEPT !.step = "fetching", !.trustee = t, !.archive = FinalSet(history).archive]
<1>1. history \in Histories
  BY DatabaseTyped DEF TrusteeInv, HostType
<1>2. FinalSet(history).archive \in Archives
  BY <1>1, ArchivesTyped DEF FinalSet
<1>3. x \in RunType /\ x.step = "fetching" /\ x.trustee = t
  BY <1>2 DEF RunType, Idle
<1>4. run' = [run EXCEPT ![r] = x] /\ UNCHANGED <<hostVars, files>>
  BY DEF Fetch
<1> HIDE DEF x
<1>5. RunSound(x, bound, share)
  BY <1>3 DEF RunSound
<1>6. QED
  BY <1>3, <1>4, <1>5, RunKeeps

LEMMA FetchCheckpointsKeeps ==
  ASSUME TrusteeInv, NEW r \in Runs, FetchCheckpoints(r)
  PROVE  TrusteeInv'
<1> DEFINE x == [run[r] EXCEPT !.step = "fetched", !.final = history]
<1>1. run \in [Runs -> RunType] /\ run[r] \in RunType /\ RunSound(run[r], bound, share)
  BY RunFacts
<1>2. history \in Histories
  BY DatabaseTyped DEF TrusteeInv, HostType
<1>3. run[r].trustee \in Trustees
  BY <1>1 DEF FetchCheckpoints, RunSound
<1>4. x \in RunType /\ x.step = "fetched" /\ x.trustee = run[r].trustee /\ x.final = history
  BY <1>1, <1>2 DEF RunType
<1>5. run' = [run EXCEPT ![r] = x] /\ UNCHANGED <<hostVars, files>>
  BY <1>1 DEF FetchCheckpoints
<1> HIDE DEF x
<1>6. RunSound(x, bound, share)
  BY <1>2, <1>3, <1>4 DEF RunSound
<1>7. QED
  BY <1>4, <1>5, <1>6, RunKeeps

LEMMA ReadPriorKeeps ==
  ASSUME TrusteeInv, NEW r \in Runs, ReadPrior(r)
  PROVE  TrusteeInv'
<1> DEFINE x == [run[r] EXCEPT !.step = "verify", !.prior = bound[run[r].trustee]]
<1>1. run \in [Runs -> RunType] /\ run[r] \in RunType /\ RunSound(run[r], bound, share)
  BY RunFacts
<1>2. run[r].trustee \in Trustees /\ run[r].final \in Histories
  BY <1>1 DEF ReadPrior, RunSound
<1>3. bound[run[r].trustee] \in Histories \cup {Nil, Partial}
  BY <1>2 DEF TrusteeInv, TrusteeType
<1>4. x \in RunType /\ x.step = "verify" /\ x.trustee = run[r].trustee /\ x.final = run[r].final
  BY <1>1, <1>3 DEF RunType
<1>5. run' = [run EXCEPT ![r] = x] /\ UNCHANGED <<hostVars, files>>
  BY <1>1 DEF ReadPrior
<1> HIDE DEF x
<1>6. RunSound(x, bound, share)
  BY <1>2, <1>4 DEF RunSound
<1>7. QED
  BY <1>4, <1>5, <1>6, RunKeeps

LEMMA TurnRun ==
  ASSUME TrusteeInv, NEW r \in Runs, NEW step \in {"bind", "binding", "bound", "storing", "ready"}, Turn(r, step)
  PROVE  LET x == [run[r] EXCEPT !.step = step] IN
         /\ x \in RunType /\ x.step = step /\ x.trustee = run[r].trustee /\ x.final = run[r].final
         /\ x.share = run[r].share /\ run' = [run EXCEPT ![r] = x]
  BY RunFacts DEF RunType, Turn

LEMMA VerifyKeeps ==
  ASSUME TrusteeInv, NEW r \in Runs, Verify(r)
  PROVE  TrusteeInv'
<1> DEFINE x == [run[r] EXCEPT !.step = "bind"]
<1>1. run[r].step = "verify" /\ Turn(r, "bind") /\ UNCHANGED <<hostVars, files>>
  BY DEF Verify
<1>2. x \in RunType /\ x.step = "bind" /\ x.trustee = run[r].trustee /\ x.final = run[r].final
        /\ run' = [run EXCEPT ![r] = x]
  BY <1>1, TurnRun
<1> HIDE DEF x
<1>3. RunSound(x, bound, share)
  BY <1>1, <1>2, RunFacts DEF RunSound
<1>4. QED
  BY <1>1, <1>2, <1>3, RunKeeps

LEMMA ShareRunKeeps ==
  ASSUME TrusteeInv, NEW r \in Runs, ReadShare(r) \/ MakeShare(r)
  PROVE  TrusteeInv'
<1>1. run \in [Runs -> RunType] /\ run[r] \in RunType /\ RunSound(run[r], bound, share) /\ run[r].step = "bound"
        /\ UNCHANGED <<hostVars, files>>
  BY RunFacts DEF ReadShare, MakeShare
<1>2. run[r].trustee \in Trustees /\ run[r].final \in Histories /\ bound[run[r].trustee] = run[r].final
  BY <1>1 DEF RunSound
<1>3. CASE ReadShare(r)
  <2> DEFINE x == [run[r] EXCEPT !.step = "ready", !.share = share[run[r].trustee]]
  <2>1. share[run[r].trustee] \in Shares \cup {Partial}
    BY <1>2, <1>3 DEF ReadShare, TrusteeInv, TrusteeType
  <2>2. x \in RunType /\ x.step = "ready" /\ x.trustee = run[r].trustee /\ x.final = run[r].final
          /\ x.share = share[run[r].trustee]
    BY <1>1, <2>1 DEF RunType
  <2>3. run' = [run EXCEPT ![r] = x]
    BY <1>1, <1>3 DEF ReadShare
  <2> HIDE DEF x
  <2>4. RunSound(x, bound, share)
    BY <1>2, <2>1, <2>2 DEF RunSound
  <2>5. QED
    BY <1>1, <2>2, <2>3, <2>4, RunKeeps
<1>4. CASE MakeShare(r)
  <2>1. PICK s \in Salts :
          run' = [run EXCEPT ![r].step = "made", ![r].share = [final |-> run[r].final, salt |-> s]]
    BY <1>4 DEF MakeShare
  <2> DEFINE x == [run[r] EXCEPT !.step = "made", !.share = [final |-> run[r].final, salt |-> s]]
  <2>2. [final |-> run[r].final, salt |-> s] \in Shares
    BY <1>2 DEF Shares
  <2>3. x \in RunType /\ x.step = "made" /\ x.trustee = run[r].trustee /\ x.final = run[r].final
          /\ x.share = [final |-> run[r].final, salt |-> s]
    BY <1>1, <2>2 DEF RunType
  <2>4. run' = [run EXCEPT ![r] = x]
    BY <1>1, <2>1
  <2> HIDE DEF x
  <2>5. RunSound(x, bound, share)
    BY <1>2, <2>2, <2>3 DEF RunSound
  <2>6. QED
    BY <1>1, <2>3, <2>4, <2>5, RunKeeps
<1>5. QED
  BY <1>3, <1>4

(* A file that is new, or of which a part is replaced by the whole, is the *)
(* business of one run; whatever was whole before stays.                   *)
Writes(r, t) ==
  /\ UNCHANGED hostVars
  /\ run[r].trustee = t /\ run'[r].trustee = t /\ run'[r] \in RunType /\ RunSound(run'[r], bound', share')
  /\ run' = [run EXCEPT ![r] = run'[r]]
  /\ bound' \in [Trustees -> Histories \cup {Nil, Partial}] /\ share' \in [Trustees -> Shares \cup {Nil, Partial}]
  /\ \A u \in Trustees : u # t => bound'[u] = bound[u] /\ share'[u] = share[u]
  /\ bound[t] \in Histories => bound'[t] = bound[t]
  /\ share[t] \in Shares => share'[t] = share[t] /\ bound'[t] = bound[t]
  /\ share'[t] \in Shares => bound'[t] = share'[t].final
  /\ \A s \in Runs : s # r /\ run[s].trustee = t =>
       /\ run[s].step = "binding" => run'[r].step # "binding" /\ bound'[t] = Partial
       /\ run[s].step = "storing" => run'[r].step # "storing" /\ share'[t] = Partial

LEMMA WriteKeeps ==
  ASSUME TrusteeInv, NEW r \in Runs, NEW t \in Trustees, Writes(r, t)
  PROVE  TrusteeInv'
<1> DEFINE x == run'[r]
<1>1. HostType' /\ Database' = Database /\ backup' = backup /\ published' = published
  BY HostUntouched DEF Writes
<1>2. run \in [Runs -> RunType]
  BY DEF TrusteeInv, TrusteeType
<1>3. run' \in [Runs -> RunType] /\ \A s \in Runs : run'[s] = IF s = r THEN x ELSE run[s]
  BY <1>2 DEF Writes
<1>4. \A u \in Trustees : /\ bound[u] \in Histories => bound'[u] = bound[u]
                          /\ share[u] \in Shares => share'[u] = share[u] /\ bound'[u] = bound[u]
  BY DEF Writes
<1>5. TrusteeType'
  BY <1>3 DEF Writes, TrusteeType
<1>6. ASSUME NEW d \in {Database, backup} PROVE Recorded(d)'
  <2>1. d \in DatabaseType /\ d' = d /\ Recorded(d)
    BY <1>1 DEF TrusteeInv, HostType
  <2>2. \A u \in Trustees : d.shares[u] \in Shares \cup {Nil}
    BY <2>1 DEF DatabaseType
  <2>3. \A u \in Trustees : d.shares[u] # Nil => share'[u] = d.shares[u] /\ bound'[u] = d.shares[u].final
    BY <1>4, <2>1, <2>2 DEF Recorded
  <2>4. QED
    BY <2>1, <2>3 DEF Recorded
<1>7. Recorded(Database)' /\ Recorded(backup)'
  BY <1>1, <1>6
<1>8. \A s \in Runs : RunSound(run[s], bound, share)'
  <2> SUFFICES ASSUME NEW s \in Runs PROVE RunSound(run[s], bound, share)'
    OBVIOUS
  <2>1. CASE s = r
    <3>1. run'[s] = x
      BY <1>3, <2>1
    <3>2. QED
      BY <3>1 DEF Writes
  <2>2. CASE s # r
    <3>1. run'[s] = run[s] /\ RunSound(run[s], bound, share)
      BY <1>3, <2>2 DEF TrusteeInv
    <3>2. run[s].step = "binding" => bound'[run[s].trustee] = Partial
      BY <2>2, <3>1 DEF RunSound, Writes
    <3>3. run[s].step = "storing" => share'[run[s].trustee] = Partial
      BY <2>2, <3>1 DEF RunSound, Writes
    <3>4. QED
      BY <1>4, <3>1, <3>2, <3>3 DEF RunSound
  <2>3. QED
    BY <2>1, <2>2
<1>9. Alone'
  BY <1>3 DEF TrusteeInv, Alone, Writes
<1>10. OwnFinal'
  BY DEF TrusteeInv, OwnFinal, Writes
<1>11. Tallied'
  <2> SUFFICES ASSUME NEW h \in published
               PROVE  \E Q \in Quorums : \A u \in Q : share'[u] \in Shares /\ Tally(share'[u].final) = Tally(h)
    BY <1>1 DEF Tallied
  <2>1. PICK Q \in Quorums : \A u \in Q : share[u] \in Shares /\ Tally(share[u].final) = Tally(h)
    BY DEF TrusteeInv, Tallied
  <2>2. \A u \in Q : share'[u] = share[u]
    BY <1>4, <2>1, Quorate
  <2>3. QED
    BY <2>1, <2>2
<1>12. QED
  BY <1>1, <1>5, <1>7, <1>8, <1>9, <1>10, <1>11 DEF TrusteeInv

LEMMA BindKeeps ==
  ASSUME TrusteeInv, NEW r \in Runs, Bind(r) \/ BindEnd(r)
  PROVE  TrusteeInv'
<1> DEFINE t == run[r].trustee
<1>1. run \in [Runs -> RunType] /\ run[r] \in RunType /\ RunSound(run[r], bound, share)
        /\ bound \in [Trustees -> Histories \cup {Nil, Partial}] /\ share \in [Trustees -> Shares \cup {Nil, Partial}]
  BY RunFacts DEF TrusteeInv, TrusteeType
<1>2. UNCHANGED <<hostVars, share>> /\ run[r].step \in {"bind", "binding"}
  BY DEF Bind, BindEnd
<1>3. t \in Trustees /\ run[r].final \in Histories
  BY <1>1, <1>2 DEF RunSound
<1>4. share[t] \in Shares => bound[t] \in Histories
  BY <1>3 DEF TrusteeInv, OwnFinal, Shares
<1>5. CASE run[r].step = "bind" /\ bound[t] = Nil /\ bound' = [bound EXCEPT ![t] = Partial] /\ Turn(r, "binding")
  <2> DEFINE x == [run[r] EXCEPT !.step = "binding"]
  <2>1. x \in RunType /\ x.step = "binding" /\ x.trustee = t /\ x.final = run[r].final /\ run' = [run EXCEPT ![r] = x]
    BY <1>5, TurnRun
  <2> HIDE DEF x
  <2>2. bound' \in [Trustees -> Histories \cup {Nil, Partial}] /\ \A u \in Trustees : bound'[u] = IF u = t THEN Partial ELSE bound[u]
    BY <1>1, <1>5
  <2>3. RunSound(x, bound', share')
    BY <1>3, <2>1, <2>2 DEF RunSound
  <2>4. share[t] \notin Shares
    BY <1>4, <1>5, Apart
  <2>5. \A s \in Runs : run[s].trustee = t => run[s].step # "binding"
    BY <1>3, <1>5, Apart DEF TrusteeInv, RunSound
  <2>6. \A s \in Runs : run[s].trustee = t /\ run[s].step = "storing" => share'[t] = Partial
    BY <1>2 DEF TrusteeInv, RunSound
  <2>7. share' \in [Trustees -> Shares \cup {Nil, Partial}] /\ share' = share
    BY <1>1, <1>2
  <2>8. bound[t] \notin Histories
    BY <1>5, Apart
  <2>9. /\ \A u \in Trustees : u # t => bound'[u] = bound[u] /\ share'[u] = share[u]
        /\ bound[t] \in Histories => bound'[t] = bound[t]
        /\ share[t] \in Shares => share'[t] = share[t] /\ bound'[t] = bound[t]
        /\ share'[t] \in Shares => bound'[t] = share'[t].final
    BY <2>2, <2>4, <2>7, <2>8
  <2>10. \A s \in Runs : s # r /\ run[s].trustee = t =>
          /\ run[s].step = "binding" => x.step # "binding" /\ bound'[t] = Partial
          /\ run[s].step = "storing" => x.step # "storing" /\ share'[t] = Partial
    BY <2>1, <2>5, <2>6
  <2>11. run'[r] = x
    BY <1>1, <2>1
  <2>12. Writes(r, t)
    BY <1>1, <1>2, <1>3, <2>1, <2>2, <2>3, <2>7, <2>9, <2>10, <2>11 DEF Writes
  <2>13. QED
    BY <1>3, <2>12, WriteKeeps
<1>6. CASE run[r].step = "bind" /\ bound[t] = run[r].final /\ UNCHANGED bound /\ Turn(r, "bound")
  <2> DEFINE x == [run[r] EXCEPT !.step = "bound"]
  <2>1. x \in RunType /\ x.step = "bound" /\ x.trustee = t /\ x.final = run[r].final /\ run' = [run EXCEPT ![r] = x]
    BY <1>6, TurnRun
  <2> HIDE DEF x
  <2>2. RunSound(x, bound, share)
    BY <1>3, <1>6, <2>1 DEF RunSound
  <2>3. UNCHANGED <<hostVars, files>>
    BY <1>2, <1>6 DEF files
  <2>4. QED
    BY <2>1, <2>2, <2>3, RunKeeps
<1>7. CASE run[r].step = "binding" /\ bound' = [bound EXCEPT ![t] = run[r].final] /\ Turn(r, "bound")
  <2> DEFINE x == [run[r] EXCEPT !.step = "bound"]
  <2>1. x \in RunType /\ x.step = "bound" /\ x.trustee = t /\ x.final = run[r].final /\ run' = [run EXCEPT ![r] = x]
    BY <1>7, TurnRun
  <2> HIDE DEF x
  <2>2. bound' \in [Trustees -> Histories \cup {Nil, Partial}] /\ \A u \in Trustees : bound'[u] = IF u = t THEN run[r].final ELSE bound[u]
    BY <1>1, <1>3, <1>7
  <2>3. RunSound(x, bound', share')
    BY <1>3, <2>1, <2>2 DEF RunSound
  <2>4. bound[t] = Partial
    BY <1>1, <1>7 DEF RunSound
  <2>5. share[t] \notin Shares /\ bound[t] \notin Histories
    BY <1>4, <2>4, Apart
  <2>6. \A s \in Runs : s # r /\ run[s].trustee = t => run[s].step # "binding"
    BY <1>7 DEF TrusteeInv, Alone
  <2>7. \A s \in Runs : run[s].trustee = t /\ run[s].step = "storing" => share'[t] = Partial
    BY <1>2 DEF TrusteeInv, RunSound
  <2>8. share' \in [Trustees -> Shares \cup {Nil, Partial}] /\ share' = share
    BY <1>1, <1>2
  <2>9. /\ \A u \in Trustees : u # t => bound'[u] = bound[u] /\ share'[u] = share[u]
        /\ bound[t] \in Histories => bound'[t] = bound[t]
        /\ share[t] \in Shares => share'[t] = share[t] /\ bound'[t] = bound[t]
        /\ share'[t] \in Shares => bound'[t] = share'[t].final
    BY <2>2, <2>5, <2>8
  <2>10. \A s \in Runs : s # r /\ run[s].trustee = t =>
          /\ run[s].step = "binding" => x.step # "binding" /\ bound'[t] = Partial
          /\ run[s].step = "storing" => x.step # "storing" /\ share'[t] = Partial
    BY <2>1, <2>6, <2>7
  <2>11. run'[r] = x
    BY <1>1, <2>1
  <2>12. Writes(r, t)
    BY <1>1, <1>2, <1>3, <2>1, <2>2, <2>3, <2>8, <2>9, <2>10, <2>11 DEF Writes
  <2>13. QED
    BY <1>3, <2>12, WriteKeeps
<1>8. QED
  BY <1>5, <1>6, <1>7 DEF Bind, BindEnd

LEMMA StoreKeeps ==
  ASSUME TrusteeInv, NEW r \in Runs, Store(r) \/ StoreEnd(r)
  PROVE  TrusteeInv'
<1> DEFINE t == run[r].trustee
<1>1. run \in [Runs -> RunType] /\ run[r] \in RunType /\ RunSound(run[r], bound, share)
        /\ bound \in [Trustees -> Histories \cup {Nil, Partial}] /\ share \in [Trustees -> Shares \cup {Nil, Partial}]
  BY RunFacts DEF TrusteeInv, TrusteeType
<1>2. UNCHANGED <<hostVars, bound>> /\ run[r].step \in {"made", "storing"}
  BY DEF Store, StoreEnd
<1>3. t \in Trustees /\ run[r].final \in Histories /\ bound[t] = run[r].final /\ run[r].share \in Shares
        /\ run[r].share.final = run[r].final
  BY <1>1, <1>2 DEF RunSound
<1>4. \A s \in Runs : run[s].trustee = t => run[s].step # "binding"
  BY <1>3, Apart DEF TrusteeInv, RunSound
<1>5. CASE run[r].step = "made" /\ share[t] = Nil /\ share' = [share EXCEPT ![t] = Partial] /\ Turn(r, "storing")
  <2> DEFINE x == [run[r] EXCEPT !.step = "storing"]
  <2>1. x \in RunType /\ x.step = "storing" /\ x.trustee = t /\ x.final = run[r].final /\ x.share = run[r].share
          /\ run' = [run EXCEPT ![r] = x]
    BY <1>5, TurnRun
  <2> HIDE DEF x
  <2>2. share' \in [Trustees -> Shares \cup {Nil, Partial}] /\ \A u \in Trustees : share'[u] = IF u = t THEN Partial ELSE share[u]
    BY <1>1, <1>5
  <2>3. RunSound(x, bound', share')
    BY <1>2, <1>3, <2>1, <2>2 DEF RunSound
  <2>4. \A s \in Runs : run[s].trustee = t => run[s].step # "storing"
    BY <1>3, <1>5, Apart DEF TrusteeInv, RunSound
  <2>5. bound' \in [Trustees -> Histories \cup {Nil, Partial}] /\ bound' = bound
    BY <1>1, <1>2
  <2>6. share[t] \notin Shares /\ share'[t] \notin Shares
    BY <1>3, <1>5, <2>2, Apart
  <2>7. /\ \A u \in Trustees : u # t => bound'[u] = bound[u] /\ share'[u] = share[u]
        /\ bound[t] \in Histories => bound'[t] = bound[t]
        /\ share[t] \in Shares => share'[t] = share[t] /\ bound'[t] = bound[t]
        /\ share'[t] \in Shares => bound'[t] = share'[t].final
    BY <2>2, <2>5, <2>6
  <2>8. \A s \in Runs : s # r /\ run[s].trustee = t =>
          /\ run[s].step = "binding" => x.step # "binding" /\ bound'[t] = Partial
          /\ run[s].step = "storing" => x.step # "storing" /\ share'[t] = Partial
    BY <1>4, <2>4
  <2>9. run'[r] = x
    BY <1>1, <2>1
  <2>10. Writes(r, t)
    BY <1>1, <1>2, <1>3, <2>1, <2>2, <2>3, <2>5, <2>7, <2>8, <2>9 DEF Writes
  <2>11. QED
    BY <1>3, <2>10, WriteKeeps
<1>6. CASE run[r].step = "made" /\ share[t] = run[r].share /\ UNCHANGED share /\ Turn(r, "ready")
  <2> DEFINE x == [run[r] EXCEPT !.step = "ready"]
  <2>1. x \in RunType /\ x.step = "ready" /\ x.trustee = t /\ x.final = run[r].final /\ x.share = run[r].share
          /\ run' = [run EXCEPT ![r] = x]
    BY <1>6, TurnRun
  <2> HIDE DEF x
  <2>2. RunSound(x, bound, share)
    BY <1>3, <1>6, <2>1 DEF RunSound
  <2>3. UNCHANGED <<hostVars, files>>
    BY <1>2, <1>6 DEF files
  <2>4. QED
    BY <2>1, <2>2, <2>3, RunKeeps
<1>7. CASE run[r].step = "storing" /\ share' = [share EXCEPT ![t] = run[r].share] /\ Turn(r, "ready")
  <2> DEFINE x == [run[r] EXCEPT !.step = "ready"]
  <2>1. x \in RunType /\ x.step = "ready" /\ x.trustee = t /\ x.final = run[r].final /\ x.share = run[r].share
          /\ run' = [run EXCEPT ![r] = x]
    BY <1>7, TurnRun
  <2> HIDE DEF x
  <2>2. share' \in [Trustees -> Shares \cup {Nil, Partial}] /\ \A u \in Trustees : share'[u] = IF u = t THEN run[r].share ELSE share[u]
    BY <1>1, <1>3, <1>7
  <2>3. RunSound(x, bound', share')
    BY <1>3, <2>1, <2>2 DEF RunSound
  <2>4. share[t] = Partial
    BY <1>1, <1>7 DEF RunSound
  <2>5. share[t] \notin Shares
    BY <2>4, Apart
  <2>6. \A s \in Runs : s # r /\ run[s].trustee = t => run[s].step # "storing"
    BY <1>7 DEF TrusteeInv, Alone
  <2>7. bound' \in [Trustees -> Histories \cup {Nil, Partial}] /\ bound' = bound
    BY <1>1, <1>2
  <2>8. bound'[t] = share'[t].final
    BY <1>3, <2>2, <2>7
  <2>9. /\ \A u \in Trustees : u # t => bound'[u] = bound[u] /\ share'[u] = share[u]
        /\ bound[t] \in Histories => bound'[t] = bound[t]
        /\ share[t] \in Shares => share'[t] = share[t] /\ bound'[t] = bound[t]
        /\ share'[t] \in Shares => bound'[t] = share'[t].final
    BY <2>2, <2>5, <2>7, <2>8
  <2>10. \A s \in Runs : s # r /\ run[s].trustee = t =>
          /\ run[s].step = "binding" => x.step # "binding" /\ bound'[t] = Partial
          /\ run[s].step = "storing" => x.step # "storing" /\ share'[t] = Partial
    BY <1>4, <2>6
  <2>11. run'[r] = x
    BY <1>1, <2>1
  <2>12. Writes(r, t)
    BY <1>1, <1>2, <1>3, <2>1, <2>2, <2>3, <2>7, <2>9, <2>10, <2>11 DEF Writes
  <2>13. QED
    BY <1>3, <2>12, WriteKeeps
<1>8. QED
  BY <1>5, <1>6, <1>7 DEF Store, StoreEnd

(* What is delivered is the share on the disk, made for the archive of the *)
(* final set the service has.                                              *)
LEMMA DeliverKeeps ==
  ASSUME TrusteeInv, NEW r \in Runs, Deliver(r)
  PROVE  TrusteeInv'
<1> DEFINE t == run[r].trustee
           s == run[r].share
<1>1. run \in [Runs -> RunType] /\ RunSound(run[r], bound, share) /\ shares \in [Trustees -> Shares \cup {Nil}]
        /\ phase = "Closed"
  BY RunFacts, DatabaseTyped DEF TrusteeInv, HostType, Deliver
<1>2. UNCHANGED <<clock, phase, cast, history, outcome, visible, backup, restores, published, bound, share>>
        /\ shares' = [shares EXCEPT ![t] = s] /\ run' = [run EXCEPT ![r] = Idle]
        /\ Tally(s.final) = Tally(history)
  BY DEF Deliver, vars, files, Tally
<1>3. t \in Trustees /\ s \in Shares /\ share[t] = s /\ bound[t] = s.final
  BY <1>1 DEF Deliver, RunSound, TrusteeInv, OwnFinal
<1>4. shares' \in [Trustees -> Shares \cup {Nil}] /\ \A u \in Trustees : shares'[u] = IF u = t THEN s ELSE shares[u]
  BY <1>1, <1>2, <1>3
<1>5. HostType'
  <2>1. Database' \in DatabaseType
    BY <1>2, <1>4, DatabaseTyped DEF TrusteeInv, HostType, Database, DatabaseType
  <2>2. QED
    BY <1>2, <2>1 DEF TrusteeInv, HostType
<1>6. Recorded(Database)'
  <2>1. /\ history # <<>>
        /\ \A u \in Trustees : shares[u] # Nil => Tally(shares[u].final) = Tally(history)
        /\ \A u \in Trustees : shares[u] # Nil => share[u] = shares[u] /\ bound[u] = shares[u].final
    BY <1>1, DatabaseFields DEF TrusteeInv, Recorded
  <2>2. \A u \in Trustees : shares'[u] # Nil => Tally(shares'[u].final) = Tally(history)
    BY <1>2, <1>4, <2>1
  <2>3. \A u \in Trustees : shares'[u] # Nil => share[u] = shares'[u] /\ bound[u] = shares'[u].final
    BY <1>3, <1>4, <2>1
  <2>4. Database'.phase = "Closed" /\ Database'.history = history /\ Database'.shares = shares'
    BY <1>1, <1>2 DEF Database
  <2>5. QED
    BY <1>2, <2>1, <2>2, <2>3, <2>4 DEF Recorded
<1>7. Recorded(backup)' /\ OwnFinal' /\ Tallied'
  BY <1>2 DEF TrusteeInv, Recorded, OwnFinal, Tallied
<1>8. run' \in [Runs -> RunType] /\ \A q \in Runs : run'[q] = IF q = r THEN Idle ELSE run[q]
  BY <1>1, <1>2, IdleSound
<1>9. TrusteeType'
  BY <1>2, <1>8 DEF TrusteeInv, TrusteeType
<1>10. \A q \in Runs : RunSound(run[q], bound, share)'
  BY <1>2, <1>8, IdleSound DEF TrusteeInv
<1>11. Alone'
  BY <1>8, IdleSound DEF TrusteeInv, Alone
<1>12. QED
  BY <1>5, <1>6, <1>7, <1>9, <1>10, <1>11 DEF TrusteeInv

LEMMA TrusteeNextKeeps == TrusteeInv /\ TrusteeNext => TrusteeInv'
<1> SUFFICES ASSUME TrusteeInv, NEW r \in Runs,
                    \/ \E t \in Trustees : Fetch(r, t)
                    \/ FetchCheckpoints(r) \/ ReadPrior(r) \/ Verify(r) \/ Bind(r) \/ BindEnd(r)
                    \/ ReadShare(r) \/ MakeShare(r) \/ Store(r) \/ StoreEnd(r) \/ Deliver(r) \/ Stop(r)
             PROVE  TrusteeInv'
  BY DEF TrusteeNext
<1>1. CASE Stop(r)
  BY <1>1, IdleSound, RunKeeps DEF Stop
<1>2. ASSUME NEW t \in Trustees, Fetch(r, t) PROVE TrusteeInv'
  <2>1. history # <<>>
    BY <1>2, DatabaseFields DEF Fetch, TrusteeInv, Recorded
  <2>2. QED
    BY <1>2, <2>1, FetchKeeps
<1>3. QED
  BY <1>1, <1>2, FetchCheckpointsKeeps, ReadPriorKeeps, VerifyKeeps, BindKeeps, ShareRunKeeps, StoreKeeps, DeliverKeeps

LEMMA TrusteeStutters == TrusteeInv /\ UNCHANGED <<hostVars, trusteeVars>> => TrusteeInv'
<1> SUFFICES ASSUME TrusteeInv, UNCHANGED <<hostVars, trusteeVars>> PROVE TrusteeInv'
  OBVIOUS
<1>1. HostType' /\ Database' = Database /\ backup' = backup /\ published' = published
  BY HostUntouched
<1>2. UNCHANGED <<bound, share>>
  BY DEF trusteeVars, files
<1>3. QED
  BY <1>1, <1>2, HostKeeps DEF TrusteeInv, Recorded, Tallied

LEMMA ObserversOnlyRead == ObserverNext => UNCHANGED hostVars
<1> SUFFICES ASSUME ObserverNext PROVE UNCHANGED hostVars
  OBVIOUS
<1>1. ASSUME NEW o \in Observers,
             (\E b \in Ballots : Retain(o, b) \/ Forget(o, b)) \/ (\E p \in Observers : Compare(o, p))
      PROVE  UNCHANGED hostVars
  BY <1>1 DEF Retain, Forget, Compare
<1>2. ASSUME NEW j \in Jobs, (\E o \in Observers : Start(j, o) \/ StartMirror(j, o)) \/ Configure(j) \/ Lock(j) \/ ReadFile(j)
      PROVE  UNCHANGED hostVars
  BY <1>2 DEF Start, StartMirror, Configure, Lock, ReadFile
<1>3. ASSUME NEW j \in Jobs,
             ReadChain(j) \/ ReadPoll(j) \/ AskTracker(j) \/ ReadAudit(j) \/ ReadAuditCheckpoints(j) \/ ReadResult(j)
      PROVE  UNCHANGED hostVars
  BY <1>3 DEF ReadChain, ReadPoll, AskTracker, ReadAudit, ReadAuditCheckpoints, ReadResult, Read
<1>4. ASSUME NEW j \in Jobs, Alarm(j) \/ Fail(j) \/ End(j) \/ Kill(j)
      PROVE  UNCHANGED hostVars
  BY <1>4 DEF Alarm, Fail, End, Kill
<1>5. ASSUME NEW j \in Jobs, SaveCheck(j) \/ SaveInit(j) \/ Approve(j) \/ SaveCopy(j)
      PROVE  UNCHANGED hostVars
  BY <1>5 DEF SaveCheck, SaveInit, Approve, SaveCopy, Save
<1>6. QED
  BY <1>1, <1>2, <1>3, <1>4, <1>5 DEF ObserverNext

LEMMA TrusteeInvariance == AuditorsSpec => []TrusteeInv
<1>1. AuditorsInit => TrusteeInv
  BY TrusteeInvInit DEF AuditorsInit
<1>2. TrusteeInv /\ [AuditorsNext]_allVars => TrusteeInv'
  <2> SUFFICES ASSUME TrusteeInv, [AuditorsNext]_allVars PROVE TrusteeInv'
    OBVIOUS
  <2>1. CASE HostNext /\ UNCHANGED <<trusteeVars, observerVars>>
    BY <2>1, ServeKeeps, PublishTallyKeeps, BackupKeeps DEF HostNext
  <2>2. CASE TrusteeNext /\ UNCHANGED observerVars
    BY <2>2, TrusteeNextKeeps
  <2>3. CASE ObserverNext /\ UNCHANGED trusteeVars
    BY <2>3, ObserversOnlyRead, TrusteeStutters
  <2>4. CASE UNCHANGED allVars
    BY <2>4, TrusteeStutters DEF allVars
  <2>5. QED
    BY <2>1, <2>2, <2>3, <2>4 DEF AuditorsNext
<1>3. QED
  BY <1>1, <1>2, PTL DEF AuditorsSpec

(* Whatever the service or its backup has recorded of a trustee is the one *)
(* share on the trustee's disk, and belongs to the final set the disk is   *)
(* bound to (scripts/trustee.ts, writeOnce of final.sha256 and             *)
(* share.jsons).                                                           *)
THEOREM TrusteeSharesBound == AuditorsSpec => []SharesBound
<1>1. TrusteeInv => SharesBound
  <2> SUFFICES ASSUME TrusteeInv, NEW t \in Trustees, NEW s \in {shares[t], backup.shares[t]}, s # Nil
               PROVE  share[t] = s /\ bound[t] # Nil /\ bound[t] = s.final
    BY DEF SharesBound
  <2>1. share[t] = s /\ bound[t] = s.final
    BY DatabaseFields DEF TrusteeInv, Recorded
  <2>2. s \in Shares
    <3>1. shares \in [Trustees -> Shares \cup {Nil}] /\ backup.shares \in [Trustees -> Shares \cup {Nil}]
      BY DatabaseTyped DEF TrusteeInv, HostType, DatabaseType
    <3>2. QED
      BY <3>1
  <2>3. s.final # Nil
    BY <2>2, Apart DEF Shares
  <2>4. QED
    BY <2>1, <2>3
<1>2. QED
  BY <1>1, TrusteeInvariance, PTL

(* Two tallied final sets are the same: two quorums have a trustee in      *)
(* common, and it makes one share.                                         *)
LEMMA OneTallyOf ==
  ASSUME TrusteeInv, NEW g \in published, NEW h \in published
  PROVE  g[Len(g)].ballots = h[Len(h)].ballots
<1>1. PICK P \in Quorums : \A t \in P : share[t] \in Shares /\ Tally(share[t].final) = Tally(g)
  BY DEF TrusteeInv, Tallied
<1>2. PICK Q \in Quorums : \A t \in Q : share[t] \in Shares /\ Tally(share[t].final) = Tally(h)
  BY DEF TrusteeInv, Tallied
<1>3. PICK t \in P : t \in Q
  BY Quorate
<1>4. Tally(g) = Tally(h)
  BY <1>1, <1>2, <1>3
<1>5. Archive(g[Len(g)]).ballots = Archive(h[Len(h)]).ballots
  BY <1>4, TallyOf
<1>6. QED
  BY <1>5 DEF Archive

(* However often the database is lost and a backup restored, one final set *)
(* of ballots at most is ever tallied: two quorums have a trustee in       *)
(* common, and it makes one share.                                         *)
THEOREM OneTallyEver == AuditorsSpec => []OneTally
<1>1. TrusteeInv => OneTally
  <2> SUFFICES ASSUME TrusteeInv PROVE OneTally
    OBVIOUS
  <2> DEFINE counted == {h[Len(h)].ballots : h \in published}
  <2>1. \A g, h \in published : g[Len(g)].ballots = h[Len(h)].ballots
    BY OneTallyOf
  <2>2. \E x : counted \subseteq {x}
    BY <2>1
  <2>3. PICK x : counted \subseteq {x}
    BY <2>2
  <2>4. IsFiniteSet({x}) /\ Cardinality({x}) = 1
    BY FS_Singleton
  <2>5. Cardinality(counted) <= 1
    BY <2>3, <2>4, FS_Subset
  <2>6. QED
    BY <2>5 DEF OneTally
<1>2. QED
  BY <1>1, TrusteeInvariance, PTL

-----------------------------------------------------------------------------
(***************************************************************************)
(* The observers                                                           *)
(*                                                                         *)
(* The observation file of an observer changes only under its lock, so a   *)
(* check compares with the file it replaces (JobSound).  What a program    *)
(* has read since the last restore is still there (Read since); and before *)
(* any restore nothing it reads contradicts what it had (Calm).            *)
(***************************************************************************)
JobType ==
  [step : {"resting", "config", "lock", "prior", "chain", "poll", "trackers", "checkpoints", "result", "inspect",
           "saved", "failed"},
   observer : Observers \cup {Nil}, action : Actions \cup {Nil}, prior : Observations \cup {Nil},
   receipts : SUBSET Ballots, left : SUBSET Ballots, missing : BOOLEAN, history : Histories, shown : BOOLEAN,
   row : [archive : Archives, result : Nat] \cup {Nil}, audit : Histories \cup {Nil}, agrees : BOOLEAN,
   since : 0 .. MaxRestores]

ObserverType ==
  /\ kept \in [Observers -> SUBSET Ballots]
  /\ file \in [Observers -> Observations \cup {Nil}]
  /\ locked \in [Observers -> BOOLEAN]
  /\ approval \in [Observers -> Observations \cup {Nil}]
  /\ copy \in [Observers -> [Kinds -> Histories \cup {Nil}]]
  /\ job \in [Jobs -> JobType]
  /\ alarms \subseteq 0 .. MaxRestores

Locks ==
  \A i, j \in Jobs :
    HoldsLock(i) => locked[job[i].observer] /\ (HoldsLock(j) /\ job[i].observer = job[j].observer => i = j)

Has(x) == x.step \in {"poll", "trackers", "checkpoints", "result", "inspect"}
Working(x) == x.step = "chain" \/ Has(x)

Closings == {"Closed", "Published", "ResultsSuppressed"}

JobSound(x) ==
  /\ x.step = "resting" => x.action = Nil
  /\ x.step # "resting" => x.observer \in Observers /\ x.action \in Actions /\ x.since <= restores
  /\ x.step = "lock" => x.action \in {"init", "check"}
  /\ x.left \subseteq x.receipts
  /\ x.step \in {"config", "lock", "prior"} => x.left = x.receipts /\ ~x.missing /\ x.prior = Nil
  /\ x.step \in {"checkpoints", "result", "inspect"} => x.left = {}
  /\ Working(x) /\ x.action = "check" => x.prior = file[x.observer] /\ x.prior # Nil
  /\ Working(x) /\ x.action = "recover" => x.prior # Nil

ReadSince(x) ==
  Working(x) /\ x.since = restores =>
    /\ Has(x) => Extends(history, x.history)
    /\ ~x.missing => x.receipts \ x.left \subseteq cast

Calm(x) ==
  restores = 0 =>
    /\ x.step \notin {"saved", "failed"} => ~x.missing /\ x.receipts \subseteq cast
    /\ x.step = "chain" /\ x.prior # Nil => Extends(history, x.prior.history)
    /\ Has(x) /\ x.prior # Nil => Extends(x.history, x.prior.history)
    /\ Has(x) => /\ Last(x.history).phase # "Scheduled" => x.receipts \subseteq Last(x.history).ballots
                 /\ Last(x.history).phase \in Closings => clock >= ClosesAt

FileSound(o) ==
  /\ file[o] # Nil /\ restores = 0 => Extends(history, file[o].history)
  /\ restores = 0 => kept[o] \subseteq cast
  /\ approval[o] # Nil => approval[o].since <= restores

(* Before any restore: what the history says of the ballots and the clock. *)
Announcing ==
  restores = 0 =>
    /\ phase \in {"Scheduled", "Open"} => Last(history).phase = "Scheduled"
    /\ phase \notin {"None", "Scheduled", "Open"} => Last(history).ballots = cast
    /\ phase = "Closed" \/ (phase # "None" /\ Last(history).phase \in Closings) => clock >= ClosesAt

ObserverInv ==
  /\ ObserverType /\ Locks /\ Announcing
  /\ \A j \in Jobs : JobSound(job[j]) /\ ReadSince(job[j]) /\ Calm(job[j])
  /\ \A o \in Observers : FileSound(o)
  /\ ApprovalSound /\ AlarmsTrue

LEMMA ObserverApart ==
  /\ Nil \notin Observers /\ Nil \notin Observations /\ Nil \notin Histories /\ Nil \notin Actions
  /\ {"init", "check"} \subseteq Actions /\ Kinds \subseteq Actions /\ "init" \notin Kinds /\ "check" \notin Kinds
  BY ObserverAssumption DEF ObserverAssumption, Actions, Kinds

(* A history extends another when it begins with it.                       *)
LEMMA ExtendsMeans ==
  ASSUME NEW h \in Histories, NEW p \in Histories
  PROVE  Extends(h, p) <=> Len(p) <= Len(h) /\ \A i \in 1 .. Len(p) : h[i] = p[i]
<1> DEFINE E == [phase : States, ballots : SUBSET Ballots]
<1>1. h \in Seq(E) /\ p \in Seq(E) /\ Len(h) \in Nat /\ Len(p) \in Nat
  BY DEF Histories
<1>2. ASSUME Len(p) <= Len(h)
      PROVE  SubSeq(h, 1, Len(p)) = p <=> \A i \in 1 .. Len(p) : h[i] = p[i]
  <2> DEFINE q == SubSeq(h, 1, Len(p))
  <2>1. ASSUME NEW i \in 1 .. Len(p) PROVE h[i] \in E
    <3>1. i \in 1 .. Len(h)
      BY <1>1, <1>2
    <3> HIDE DEF E
    <3>2. QED
      BY <1>1, <3>1
  <2>2. q \in Seq(E) /\ Len(q) = Len(p) /\ \A i \in 1 .. Len(p) : q[i] = h[i]
    BY <1>1, <2>1, SubSeqProperties
  <2> HIDE DEF q
  <2>3. (\A i \in 1 .. Len(p) : q[i] = p[i]) => q = p
    BY <1>1, <2>2
  <2>4. q = p <=> \A i \in 1 .. Len(p) : h[i] = p[i]
    BY <2>2, <2>3
  <2>5. QED
    BY <2>4 DEF q
<1>3. QED
  BY <1>2 DEF Extends

LEMMA ExtendsSelf == \A h \in Histories : Extends(h, h)
<1> SUFFICES ASSUME NEW h \in Histories PROVE Extends(h, h)
  OBVIOUS
<1>1. Len(h) \in Nat
  BY DEF Histories
<1>2. Len(h) <= Len(h) /\ \A i \in 1 .. Len(h) : h[i] = h[i]
  BY <1>1
<1>3. QED
  BY <1>2, ExtendsMeans

LEMMA ExtendsTransitive ==
  ASSUME NEW g \in Histories, NEW h \in Histories, NEW p \in Histories, Extends(g, h), Extends(h, p)
  PROVE  Extends(g, p)
<1>1. Len(g) \in Nat /\ Len(h) \in Nat /\ Len(p) \in Nat
  BY DEF Histories
<1>2. Len(h) <= Len(g) /\ \A i \in 1 .. Len(h) : g[i] = h[i]
  BY ExtendsMeans
<1>3. Len(p) <= Len(h) /\ \A i \in 1 .. Len(p) : h[i] = p[i]
  BY ExtendsMeans
<1>4. Len(p) <= Len(g) /\ \A i \in 1 .. Len(p) : g[i] = p[i]
  BY <1>1, <1>2, <1>3
<1>5. QED
  BY <1>4, ExtendsMeans

LEMMA ExtendsLinear ==
  ASSUME NEW g \in Histories, NEW h \in Histories, NEW p \in Histories, Extends(g, h), Extends(g, p)
  PROVE  Extends(h, p) \/ Extends(p, h)
<1>1. Len(g) \in Nat /\ Len(h) \in Nat /\ Len(p) \in Nat
  BY DEF Histories
<1>2. \A i \in 1 .. Len(h) : g[i] = h[i]
  BY ExtendsMeans
<1>3. \A i \in 1 .. Len(p) : g[i] = p[i]
  BY ExtendsMeans
<1>4. CASE Len(p) <= Len(h)
  <2>1. \A i \in 1 .. Len(p) : h[i] = p[i]
    BY <1>1, <1>2, <1>3, <1>4
  <2>2. QED
    BY <1>4, <2>1, ExtendsMeans
<1>5. CASE Len(h) <= Len(p)
  <2>1. \A i \in 1 .. Len(h) : p[i] = h[i]
    BY <1>1, <1>2, <1>3, <1>5
  <2>2. QED
    BY <1>5, <2>1, ExtendsMeans
<1>6. QED
  BY <1>1, <1>4, <1>5

LEMMA AppendExtends ==
  ASSUME NEW h \in Histories, NEW a \in [phase : States, ballots : SUBSET Ballots]
  PROVE  /\ Append(h, a) \in Histories /\ Extends(Append(h, a), h) /\ Last(Append(h, a)) = a
<1>1. /\ Append(h, a) \in Histories /\ Len(Append(h, a)) = Len(h) + 1 /\ Len(h) \in Nat
      /\ \A i \in 1 .. Len(h) : Append(h, a)[i] = h[i]
      /\ Append(h, a)[Len(h) + 1] = a
  BY DEF Histories
<1>2. Len(h) <= Len(Append(h, a)) /\ Last(Append(h, a)) = a
  BY <1>1 DEF Last
<1> HIDE DEF Last
<1>3. QED
  BY <1>1, <1>2, ExtendsMeans

(* Until the next restore a history and the accepted ballots only grow.    *)
Grows ==
  \/ restores' = restores + 1
  \/ restores' = restores /\ Extends(history', history) /\ cast \subseteq cast' /\ clock <= clock'

LEMMA HostTypes ==
  ASSUME TrusteeInv
  PROVE  /\ phase \in Phases /\ cast \subseteq Ballots /\ history \in Histories /\ clock \in Nat
         /\ restores \in Nat /\ restores <= MaxRestores /\ ClosesAt \in Nat /\ MaxRestores \in Nat
  BY DatabaseTyped, HostingAssumption DEF TrusteeInv, HostType, HostingAssumption

LEMMA StepGrows ==
  ASSUME TrusteeInv, Announcing, Schedule \/ Close \/ Withdraw \/ Invalidate \/ Publish, restores' = restores
  PROVE  Announcing' /\ Grows
<1> DEFINE a == [phase |-> phase', ballots |-> cast]
<1>1. history' = Append(history, a) /\ cast' = cast /\ clock' = clock
  BY DEF Schedule, Close, Withdraw, Invalidate, Publish, Announce
<1>2. phase' \in States
  BY DEF Schedule, Close, Withdraw, Invalidate, Publish, Announce, States
<1>3. a \in [phase : States, ballots : SUBSET Ballots] /\ a.phase = phase' /\ a.ballots = cast
  BY <1>2, HostTypes
<1> HIDE DEF a
<1>4. Last(history') = a /\ Extends(history', history)
  BY <1>1, <1>3, HostTypes, AppendExtends
<1>5. Grows
  BY <1>1, <1>4, HostTypes DEF Grows
<1>6. phase' # "Open" /\ ((phase' = "Closed" \/ phase' \in Closings) => (restores = 0 => clock >= ClosesAt))
  BY DEF Schedule, Close, Withdraw, Invalidate, Publish, Announce, Closings, Announcing
<1>7. Announcing'
  BY <1>1, <1>3, <1>4, <1>6 DEF Announcing
<1>8. QED
  BY <1>5, <1>7

LEMMA HostGrows ==
  ASSUME TrusteeInv, Announcing, HostNext
  PROVE  Announcing' /\ Grows
<1>1. CASE Serve
  <2>1. restores' = restores
    BY <1>1 DEF Serve
  <2>2. CASE Schedule \/ Close \/ Withdraw \/ Invalidate
    BY <2>1, <2>2, StepGrows
  <2>3. ASSUME NEW b \in Ballots, Cast(b) PROVE Announcing' /\ Grows
    <3>1. phase \in {"Scheduled", "Open"} /\ phase' = "Open" /\ cast \subseteq cast' /\ clock' = clock /\ history' = history
      BY <2>3 DEF Cast
    <3>2. Announcing'
      BY <2>1, <3>1 DEF Announcing
    <3>3. Extends(history', history)
      BY <3>1, HostTypes, ExtendsSelf
    <3>4. QED
      BY <2>1, <3>1, <3>2, <3>3, HostTypes DEF Grows
  <2>4. CASE Tick
    <3>1. clock' = clock + 1 /\ UNCHANGED <<phase, cast, history>>
      BY <2>4 DEF Tick
    <3>2. clock <= clock' /\ (clock >= ClosesAt => clock' >= ClosesAt)
      BY <3>1, HostTypes
    <3>3. Announcing'
      BY <2>1, <3>1, <3>2 DEF Announcing
    <3>4. Extends(history', history)
      BY <3>1, HostTypes, ExtendsSelf
    <3>5. QED
      BY <2>1, <3>1, <3>2, <3>3, <3>4 DEF Grows
  <2>5. QED
    BY <1>1, <2>2, <2>3, <2>4 DEF Serve
<1>2. CASE PublishTally
  BY <1>2, StepGrows DEF PublishTally
<1>3. CASE Show \/ Hide \/ Backup
  <2>1. UNCHANGED <<clock, phase, cast, history, restores>>
    BY <1>3 DEF Show, Hide, Backup, vars
  <2>2. Extends(history', history)
    BY <2>1, HostTypes, ExtendsSelf
  <2>3. QED
    BY <2>1, <2>2, HostTypes DEF Announcing, Grows
<1>4. CASE Restore
  <2>1. restores' = restores + 1
    BY <1>4 DEF Restore
  <2>2. restores' # 0
    BY <2>1, HostTypes
  <2>3. QED
    BY <2>1, <2>2 DEF Announcing, Grows
<1>5. QED
  BY <1>1, <1>2, <1>3, <1>4 DEF HostNext

LEMMA TrusteesKeepHost == TrusteeNext => UNCHANGED <<vars, visible, backup, restores, published>>
<1> SUFFICES ASSUME NEW r \in Runs,
                    \/ \E t \in Trustees : Fetch(r, t)
                    \/ FetchCheckpoints(r) \/ ReadPrior(r) \/ Verify(r) \/ Bind(r) \/ BindEnd(r)
                    \/ ReadShare(r) \/ MakeShare(r) \/ Store(r) \/ StoreEnd(r) \/ Deliver(r) \/ Stop(r)
             PROVE  UNCHANGED <<vars, visible, backup, restores, published>>
  BY DEF TrusteeNext
<1>1. ASSUME UNCHANGED hostVars PROVE UNCHANGED <<vars, visible, backup, restores, published>>
  BY <1>1 DEF hostVars
<1>2. ASSUME NEW t \in Trustees, Fetch(r, t) PROVE UNCHANGED hostVars
  BY <1>2 DEF Fetch
<1>3. ASSUME FetchCheckpoints(r) \/ ReadPrior(r) \/ Verify(r) \/ Bind(r) \/ BindEnd(r) PROVE UNCHANGED hostVars
  BY <1>3 DEF FetchCheckpoints, ReadPrior, Verify, Bind, BindEnd
<1>4. ASSUME ReadShare(r) \/ MakeShare(r) \/ Store(r) \/ StoreEnd(r) \/ Stop(r) PROVE UNCHANGED hostVars
  BY <1>4 DEF ReadShare, MakeShare, Store, StoreEnd, Stop
<1>5. ASSUME Deliver(r) PROVE UNCHANGED <<vars, visible, backup, restores, published>>
  BY <1>5 DEF Deliver
<1>6. QED
  BY <1>1, <1>2, <1>3, <1>4, <1>5

LEMMA JobTyped ==
  ASSUME ObserverInv, NEW j \in Jobs
  PROVE  /\ job[j] \in JobType /\ job[j].history \in Histories
         /\ job[j].prior # Nil => job[j].prior \in Observations /\ job[j].prior.history \in Histories
  BY DEF ObserverInv, ObserverType, JobType, Observations

(* The host goes on while the observers' programs wait.                    *)
LEMMA ObserversWait ==
  ASSUME TrusteeInv, TrusteeInv', ObserverInv, Announcing', Grows, UNCHANGED observerVars
  PROVE  ObserverInv'
<1>1. UNCHANGED <<kept, file, locked, approval, copy, job, alarms>>
  BY DEF observerVars, outputs
<1>2. history \in Histories /\ restores \in Nat /\ clock \in Nat /\ ClosesAt \in Nat /\ history' \in Histories
        /\ clock' \in Nat /\ restores' \in Nat
  <2>1. history' \in Histories /\ clock' \in Nat /\ restores' \in Nat
    BY HostTypes DEF TrusteeInv, HostType, Database, DatabaseType
  <2>2. QED
    BY <2>1, HostTypes
<1>3. ObserverType' /\ Locks' /\ AlarmsTrue'
  BY <1>1 DEF ObserverInv, ObserverType, Locks, HoldsLock, AlarmsTrue
<1>4. restores <= restores' /\ (restores' = restores \/ restores' = restores + 1)
  BY <1>2 DEF Grows
<1>5. restores' = 0 => restores = 0
  BY <1>2, <1>4
<1>6. restores' = restores => cast \subseteq cast' /\ clock <= clock'
  BY <1>2 DEF Grows
<1>7. ASSUME NEW h \in Histories, Extends(history, h), restores' = restores PROVE Extends(history', h)
  <2>1. Extends(history', history)
    BY <1>2, <1>7 DEF Grows
  <2>2. QED
    BY <1>2, <1>7, <2>1, ExtendsTransitive
<1>8. ASSUME NEW j \in Jobs PROVE JobSound(job[j])'
  <2>1. JobSound(job[j]) /\ job[j] \in JobType
    BY JobTyped DEF ObserverInv
  <2>2. job[j].since \in Nat
    BY <2>1, HostTypes DEF JobType
  <2>3. job[j].since <= restores => job[j].since <= restores'
    BY <1>2, <1>4, <2>2
  <2>4. QED
    BY <1>1, <2>1, <2>3 DEF JobSound, Working, Has
<1>9. ASSUME NEW j \in Jobs PROVE ReadSince(job[j])'
  <2>1. JobSound(job[j]) /\ ReadSince(job[j]) /\ job[j] \in JobType /\ job[j].history \in Histories
    BY JobTyped DEF ObserverInv
  <2>2. SUFFICES ASSUME Working(job[j]), job[j].since = restores' PROVE ReadSince(job[j])'
    BY <1>1 DEF ReadSince, Working, Has
  <2>3. job[j].since <= restores
    BY <2>1, <2>2 DEF JobSound, Working, Has
  <2>4. restores' = restores
    BY <1>2, <1>4, <2>2, <2>3
  <2>5. QED
    BY <1>1, <1>6, <1>7, <2>1, <2>2, <2>4 DEF ReadSince, Working, Has
<1>10. ASSUME NEW j \in Jobs PROVE Calm(job[j])'
  <2>1. Calm(job[j]) /\ job[j].prior # Nil => job[j].prior.history \in Histories
    BY JobTyped
  <2>2. CASE restores' # 0
    BY <2>2 DEF Calm
  <2>3. CASE restores' = 0
    <3>1. restores' = restores /\ Calm(job[j])
      BY <1>2, <1>4, <2>3 DEF ObserverInv
    <3>2. cast \subseteq cast' /\ (clock >= ClosesAt => clock' >= ClosesAt)
      BY <1>2, <1>6, <3>1
    <3>3. QED
      BY <1>1, <1>7, <2>1, <3>1, <3>2 DEF Calm, Working, Has
  <2>4. QED
    BY <2>2, <2>3
<1>11. ASSUME NEW o \in Observers PROVE FileSound(o)'
  <2>1. FileSound(o) /\ (file[o] # Nil => file[o].history \in Histories)
          /\ (approval[o] # Nil => approval[o].since \in Nat)
    BY DEF ObserverInv, ObserverType, Observations
  <2>2. restores' = 0 => restores' = restores
    BY <1>2, <1>4
  <2>3. approval[o] # Nil => approval[o].since <= restores'
    BY <1>2, <1>4, <2>1 DEF FileSound
  <2>4. QED
    BY <1>1, <1>5, <1>6, <1>7, <2>1, <2>2, <2>3 DEF FileSound
<1>12. ApprovalSound'
  <2> SUFFICES ASSUME NEW o \in Observers, approval[o] # Nil, approval[o].since = restores'
               PROVE  /\ Extends(history', approval[o].history) /\ Extends(history', approval[o].prior)
                      /\ approval[o].receipts \subseteq cast'
    BY <1>1 DEF ApprovalSound
  <2>1. approval[o].since <= restores /\ approval[o] \in Observations
    BY DEF ObserverInv, FileSound, ObserverType
  <2>2. restores' = restores
    BY <1>2, <1>4, <2>1
  <2>3. approval[o].history \in Histories /\ approval[o].prior \in Histories
    BY <2>1 DEF Observations
  <2>4. /\ Extends(history, approval[o].history) /\ Extends(history, approval[o].prior)
        /\ approval[o].receipts \subseteq cast
    BY <2>2 DEF ObserverInv, ApprovalSound
  <2>5. QED
    BY <1>6, <1>7, <2>2, <2>3, <2>4
<1>13. QED
  BY <1>3, <1>8, <1>9, <1>10, <1>11, <1>12 DEF ObserverInv

(* One program goes on, and writes at most its lock and its copies.        *)
LEMMA JobKeeps ==
  ASSUME ObserverInv, NEW j \in Jobs, UNCHANGED <<hostVars, kept, file, approval, alarms>>,
         job' = [job EXCEPT ![j] = job'[j]], job'[j] \in JobType,
         JobSound(job'[j]), ReadSince(job'[j]), Calm(job'[j]), Locks',
         locked' \in [Observers -> BOOLEAN], copy' \in [Observers -> [Kinds -> Histories \cup {Nil}]]
  PROVE  ObserverInv'
<1>1. UNCHANGED <<clock, phase, cast, history, restores>>
  BY DEF hostVars, vars
<1>2. job \in [Jobs -> JobType]
  BY DEF ObserverInv, ObserverType
<1>3. job' \in [Jobs -> JobType] /\ \A i \in Jobs : i # j => job'[i] = job[i]
  BY <1>2
<1>4. ObserverType'
  BY <1>3 DEF ObserverInv, ObserverType
<1>5. ASSUME NEW i \in Jobs PROVE JobSound(job[i])' /\ ReadSince(job[i])' /\ Calm(job[i])'
  <2>1. JobSound(job'[i]) /\ ReadSince(job'[i]) /\ Calm(job'[i])
    BY <1>3 DEF ObserverInv
  <2>2. JobSound(job[i])'
    BY <1>1, <2>1 DEF JobSound, Working, Has
  <2>3. ReadSince(job[i])'
    BY <1>1, <2>1 DEF ReadSince, Working, Has
  <2>4. Calm(job[i])'
    BY <1>1, <2>1 DEF Calm, Working, Has
  <2>5. QED
    BY <2>2, <2>3, <2>4
<1>6. \A o \in Observers : FileSound(o)'
  BY <1>1 DEF ObserverInv, FileSound
<1>7. Announcing' /\ ApprovalSound' /\ AlarmsTrue'
  BY <1>1 DEF ObserverInv, Announcing, ApprovalSound, AlarmsTrue
<1>8. QED
  BY <1>4, <1>5, <1>6, <1>7 DEF ObserverInv

LEMMA LocksKept ==
  ASSUME ObserverInv, NEW j \in Jobs, UNCHANGED locked, job' = [job EXCEPT ![j] = job'[j]],
         HoldsLock(j)' => HoldsLock(j) /\ job[j].observer = job'[j].observer
  PROVE  Locks'
<1>1. job \in [Jobs -> JobType]
  BY DEF ObserverInv, ObserverType
<1>2. \A i \in Jobs : i # j => job'[i] = job[i]
  BY <1>1
<1>3. QED
  BY <1>2 DEF ObserverInv, Locks, HoldsLock

(* One program goes on, and writes at most its copies.                     *)
LEMMA JobGoesOn ==
  ASSUME ObserverInv, NEW j \in Jobs, NEW x \in JobType, job' = [job EXCEPT ![j] = x],
         UNCHANGED <<hostVars, kept, file, locked, approval, alarms>>,
         copy' \in [Observers -> [Kinds -> Histories \cup {Nil}]],
         x.action \in {"init", "check"} /\ x.step # "lock" =>
           x.action = job[j].action /\ x.observer = job[j].observer /\ job[j].step # "lock",
         JobSound(x), ReadSince(x), Calm(x)
  PROVE  ObserverInv'
<1>1. job \in [Jobs -> JobType] /\ locked' \in [Observers -> BOOLEAN]
  BY DEF ObserverInv, ObserverType
<1>2. job'[j] = x
  BY <1>1
<1>3. job' = [job EXCEPT ![j] = job'[j]] /\ job'[j] \in JobType
        /\ JobSound(job'[j]) /\ ReadSince(job'[j]) /\ Calm(job'[j])
  BY <1>2
<1>4. HoldsLock(j)' => HoldsLock(j) /\ job[j].observer = job'[j].observer
  BY <1>2 DEF HoldsLock
<1>5. Locks'
  BY <1>3, <1>4, LocksKept
<1>6. QED
  BY <1>1, <1>3, <1>5, JobKeeps

LEMMA RestingSound ==
  ASSUME TrusteeInv
  PROVE  Resting \in JobType /\ JobSound(Resting) /\ ReadSince(Resting) /\ Calm(Resting) /\ Resting.action = Nil
<1>1. <<>> \in Histories
  BY DEF Histories
<1>2. Resting \in JobType
  BY <1>1, Bounds DEF Resting, JobType
<1>3. Resting.step = "resting" /\ Resting.action = Nil /\ Resting.left = {} /\ Resting.receipts = {}
        /\ Resting.missing = FALSE
  BY DEF Resting
<1>4. QED
  BY <1>2, <1>3 DEF JobSound, ReadSince, Calm, Working, Has

(* A program reads its configuration.                                      *)
LEMMA ReadConfigKeeps ==
  ASSUME TrusteeInv, ObserverInv, NEW j \in Jobs, NEW o \in Observers, NEW action \in Actions,
         ReadConfig(j, o, action), UNCHANGED <<hostVars, kept, outputs, alarms>>
  PROVE  ObserverInv'
<1> DEFINE x == [Resting EXCEPT !.step = FirstStep[action], !.observer = o, !.action = action,
                                !.receipts = kept[o], !.left = kept[o], !.since = restores]
<1>1. kept[o] \in SUBSET Ballots /\ FileSound(o) /\ copy \in [Observers -> [Kinds -> Histories \cup {Nil}]]
  BY DEF ObserverInv, ObserverType
<1>2. restores \in 0 .. MaxRestores /\ restores <= restores
  BY HostTypes DEF TrusteeInv, HostType
<1>3. job' = [job EXCEPT ![j] = x] /\ UNCHANGED <<file, locked, approval, copy>>
  BY DEF ReadConfig, outputs
<1>4. /\ action \in {"init", "check"} => FirstStep[action] = "lock"
      /\ action = "recover" => FirstStep[action] = "prior"
      /\ action \notin {"init", "check", "recover"} => FirstStep[action] = "chain"
  BY DEF FirstStep, Actions
<1>5. Resting \in JobType /\ Resting.missing = FALSE /\ Resting.prior = Nil
  BY RestingSound DEF Resting
<1>6. x \in JobType /\ x.step = FirstStep[action] /\ x.observer = o /\ x.action = action /\ x.prior = Nil
        /\ x.receipts = kept[o] /\ x.left = kept[o] /\ x.missing = FALSE /\ x.since = restores
  BY <1>1, <1>2, <1>4, <1>5 DEF JobType
<1> HIDE DEF x
<1>7. JobSound(x)
  BY <1>2, <1>4, <1>6 DEF JobSound, Working, Has
<1>8. ReadSince(x)
  BY <1>4, <1>6 DEF ReadSince, Working, Has
<1>9. Calm(x)
  BY <1>1, <1>4, <1>6 DEF Calm, Has, FileSound
<1>10. QED
  BY <1>1, <1>3, <1>4, <1>6, <1>7, <1>8, <1>9, JobGoesOn

LEMMA StartKeeps ==
  ASSUME TrusteeInv, ObserverInv, NEW j \in Jobs,
         (\E o \in Observers : Start(j, o) \/ StartMirror(j, o)) \/ Configure(j)
  PROVE  ObserverInv'
<1>1. job \in [Jobs -> JobType] /\ JobSound(job[j]) /\ copy \in [Observers -> [Kinds -> Histories \cup {Nil}]]
  BY DEF ObserverInv, ObserverType
<1>2. ASSUME NEW o \in Observers, Start(j, o) PROVE ObserverInv'
  BY <1>2, ReadConfigKeeps DEF Start
<1>3. CASE Configure(j)
  <2>1. job[j].observer \in Observers /\ "mirror" \in Actions
    BY <1>1, <1>3 DEF Configure, JobSound, Actions
  <2>2. QED
    BY <1>3, <2>1, ReadConfigKeeps DEF Configure
<1>4. ASSUME NEW o \in Observers, StartMirror(j, o) PROVE ObserverInv'
  <2> DEFINE x == [Resting EXCEPT !.step = "config", !.observer = o, !.action = "mirror"]
  <2>1. job' = [job EXCEPT ![j] = x] /\ copy' = [copy EXCEPT ![o]["mirror"] = <<>>]
          /\ UNCHANGED <<hostVars, kept, file, locked, approval, alarms>>
    BY <1>4 DEF StartMirror
  <2>2. copy' \in [Observers -> [Kinds -> Histories \cup {Nil}]]
    <3>1. <<>> \in Histories /\ "mirror" \in Kinds
      BY DEF Histories, Kinds
    <3>2. QED
      BY <1>1, <2>1, <3>1
  <2>3. Resting \in JobType /\ Resting.missing = FALSE /\ Resting.receipts = {} /\ Resting.left = {}
          /\ Resting.since = 0 /\ Resting.prior = Nil /\ "mirror" \in Actions
    BY RestingSound DEF Resting, Actions
  <2>4. x \in JobType /\ x.step = "config" /\ x.observer = o /\ x.action = "mirror"
          /\ x.receipts = {} /\ x.left = {} /\ x.missing = FALSE /\ x.prior = Nil /\ x.since = 0
    BY <2>3 DEF JobType
  <2> HIDE DEF x
  <2>5. x.since <= restores
    BY <2>4, HostTypes
  <2>6. JobSound(x)
    BY <2>3, <2>4, <2>5 DEF JobSound, Working, Has
  <2>7. ReadSince(x) /\ Calm(x)
    BY <2>4 DEF ReadSince, Calm, Working, Has
  <2>8. QED
    BY <2>1, <2>2, <2>4, <2>6, <2>7, JobGoesOn
<1>5. QED
  BY <1>2, <1>3, <1>4

(* A lock is taken that nobody has.                                        *)
LEMMA LockKeeps ==
  ASSUME TrusteeInv, ObserverInv, NEW j \in Jobs, Lock(j)
  PROVE  ObserverInv'
<1> DEFINE o == job[j].observer
<1> DEFINE step == IF job[j].action = "check" THEN "prior" ELSE "chain"
<1> DEFINE x == [job[j] EXCEPT !.step = step]
<1>1. job \in [Jobs -> JobType] /\ job[j] \in JobType /\ JobSound(job[j]) /\ ReadSince(job[j]) /\ Calm(job[j])
        /\ locked \in [Observers -> BOOLEAN] /\ copy \in [Observers -> [Kinds -> Histories \cup {Nil}]]
  BY DEF ObserverInv, ObserverType
<1>2. job[j].step = "lock" /\ ~locked[o] /\ locked' = [locked EXCEPT ![o] = TRUE] /\ job' = [job EXCEPT ![j] = x]
        /\ UNCHANGED <<hostVars, kept, file, approval, copy, alarms>>
  BY DEF Lock
<1>3. o \in Observers /\ job[j].action \in {"init", "check"}
  BY <1>1, <1>2 DEF JobSound
<1>4. job[j].prior = Nil
  BY <1>1, <1>2 DEF JobSound
<1>5. x \in JobType /\ x.step = step /\ x.action = job[j].action /\ x.observer = o /\ x.prior = Nil
        /\ x.receipts = job[j].receipts /\ x.left = job[j].left /\ x.missing = job[j].missing /\ x.since = job[j].since
  BY <1>1, <1>4 DEF JobType
<1>6. step \in {"prior", "chain"} /\ (step = "chain" => job[j].action = "init")
  BY <1>3
<1> HIDE DEF x, step
<1>7. JobSound(x) /\ ReadSince(x) /\ Calm(x)
  BY <1>1, <1>2, <1>5, <1>6 DEF JobSound, ReadSince, Calm, Working, Has
<1>8. job'[j] = x /\ \A i \in Jobs : i # j => job'[i] = job[i]
  BY <1>1, <1>2
<1>9. job' = [job EXCEPT ![j] = job'[j]]
  BY <1>2, <1>8
<1>10. locked' \in [Observers -> BOOLEAN] /\ locked'[o] /\ \A q \in Observers : q # o => locked'[q] = locked[q]
  BY <1>1, <1>2, <1>3
<1>11. \A i \in Jobs : HoldsLock(i) => job[i].observer \in Observers /\ job[i].observer # o
  <2> SUFFICES ASSUME NEW i \in Jobs, HoldsLock(i) PROVE job[i].observer \in Observers /\ job[i].observer # o
    OBVIOUS
  <2>1. locked[job[i].observer] /\ JobSound(job[i])
    BY DEF ObserverInv, Locks
  <2>2. job[i].step # "resting"
    BY <2>1, ObserverApart DEF JobSound, HoldsLock
  <2>3. QED
    BY <1>2, <2>1, <2>2 DEF JobSound
<1>12. Locks'
  BY <1>5, <1>8, <1>10, <1>11 DEF ObserverInv, Locks, HoldsLock
<1>13. QED
  BY <1>1, <1>2, <1>5, <1>7, <1>8, <1>9, <1>10, <1>12, JobKeeps

(* What was seen is still there before any restore.                        *)
LEMMA ReadFileKeeps ==
  ASSUME TrusteeInv, ObserverInv, NEW j \in Jobs, ReadFile(j)
  PROVE  ObserverInv'
<1> DEFINE prior == file[job[j].observer]
<1> DEFINE x == [job[j] EXCEPT !.step = "chain", !.prior = prior]
<1>1. job[j] \in JobType /\ JobSound(job[j]) /\ Calm(job[j])
        /\ file \in [Observers -> Observations \cup {Nil}] /\ copy \in [Observers -> [Kinds -> Histories \cup {Nil}]]
  BY DEF ObserverInv, ObserverType
<1>2. job[j].step = "prior" /\ prior # Nil /\ job' = [job EXCEPT ![j] = x]
        /\ UNCHANGED <<hostVars, kept, file, locked, approval, copy, alarms>>
  BY DEF ReadFile, outputs
<1>3. job[j].observer \in Observers
  BY <1>1, <1>2 DEF JobSound
<1>4. FileSound(job[j].observer) /\ prior \in Observations
  BY <1>1, <1>2, <1>3 DEF ObserverInv
<1>5. x \in JobType /\ x.step = "chain" /\ x.action = job[j].action /\ x.observer = job[j].observer /\ x.prior = prior
        /\ x.receipts = job[j].receipts /\ x.left = job[j].left /\ x.missing = job[j].missing /\ x.since = job[j].since
  BY <1>1, <1>4 DEF JobType
<1> HIDE DEF x
<1>6. JobSound(x)
  BY <1>1, <1>2, <1>5 DEF JobSound, Working, Has
<1>7. ReadSince(x)
  BY <1>1, <1>2, <1>5 DEF JobSound, ReadSince, Has
<1>8. Calm(x)
  BY <1>1, <1>2, <1>4, <1>5 DEF Calm, Has, FileSound
<1>9. QED
  BY <1>1, <1>2, <1>5, <1>6, <1>7, <1>8, JobGoesOn

(* What is read contradicts nothing that was read before without a restore *)
(* in between.                                                             *)
LEMMA ReadKeeps ==
  ASSUME TrusteeInv, ObserverInv, NEW j \in Jobs,
         \/ ReadChain(j) \/ ReadPoll(j) \/ AskTracker(j) \/ ReadAudit(j) \/ ReadAuditCheckpoints(j) \/ ReadResult(j)
         \/ Fail(j)
  PROVE  ObserverInv'
<1>1. job \in [Jobs -> JobType] /\ job[j] \in JobType /\ JobSound(job[j]) /\ ReadSince(job[j]) /\ Calm(job[j])
        /\ history \in Histories /\ copy \in [Observers -> [Kinds -> Histories \cup {Nil}]]
  BY HostTypes DEF ObserverInv, ObserverType
<1>2. UNCHANGED <<hostVars, kept, file, locked, approval, copy, alarms>>
  BY DEF ReadChain, ReadPoll, AskTracker, ReadAudit, ReadAuditCheckpoints, ReadResult, Fail, Read, outputs
<1>3. ASSUME NEW x \in JobType, job' = [job EXCEPT ![j] = x], x.action = job[j].action, x.observer = job[j].observer,
             job[j].step # "lock", JobSound(x), ReadSince(x), Calm(x)
      PROVE  ObserverInv'
  BY <1>1, <1>2, <1>3, JobGoesOn
<1>4. CASE ReadChain(j)
  <2> DEFINE x == [job[j] EXCEPT !.step = "poll", !.history = history]
  <2>1. job[j].step = "chain" /\ job' = [job EXCEPT ![j] = x] /\ phase # "None"
    BY <1>4 DEF ReadChain, Read
  <2>2. x \in JobType /\ x.step = "poll" /\ x.history = history /\ x.action = job[j].action
          /\ x.observer = job[j].observer /\ x.prior = job[j].prior /\ x.receipts = job[j].receipts
          /\ x.left = job[j].left /\ x.missing = job[j].missing /\ x.since = job[j].since
    BY <1>1 DEF JobType
  <2> HIDE DEF x
  <2>3. JobSound(x)
    BY <1>1, <2>1, <2>2 DEF JobSound, Working, Has
  <2>4. ReadSince(x)
    <3>1. Extends(history, history)
      BY <1>1, ExtendsSelf
    <3>2. QED
      BY <1>1, <2>1, <2>2, <3>1 DEF ReadSince, Working, Has
  <2>5. Calm(x)
    <3>1. restores = 0 => /\ Last(history).phase # "Scheduled" => Last(history).ballots = cast
                          /\ Last(history).phase \in Closings => clock >= ClosesAt
      BY <2>1 DEF ObserverInv, Announcing
    <3>2. QED
      BY <1>1, <2>1, <2>2, <3>1 DEF Calm, Working, Has
  <2>6. QED
    BY <1>3, <2>1, <2>2, <2>3, <2>4, <2>5
<1>5. CASE ReadPoll(j)
  <2> DEFINE x == [job[j] EXCEPT !.step = "trackers", !.shown = visible]
  <2>1. job[j].step = "poll" /\ job' = [job EXCEPT ![j] = x]
    BY <1>5 DEF ReadPoll, Read
  <2>2. x \in JobType /\ x.step = "trackers" /\ x.history = job[j].history /\ x.action = job[j].action
          /\ x.observer = job[j].observer /\ x.prior = job[j].prior /\ x.receipts = job[j].receipts
          /\ x.left = job[j].left /\ x.missing = job[j].missing /\ x.since = job[j].since
    BY <1>1 DEF JobType, TrusteeInv, HostType
  <2> HIDE DEF x
  <2>3. JobSound(x) /\ ReadSince(x) /\ Calm(x)
    BY <1>1, <2>1, <2>2 DEF JobSound, ReadSince, Calm, Working, Has
  <2>4. QED
    BY <1>3, <2>1, <2>2, <2>3
<1>6. CASE AskTracker(j)
  <2>1. PICK b \in job[j].left :
          Read(j, "trackers", [job[j] EXCEPT !.left = @ \ {b}, !.missing = (@ \/ b \notin cast)])
    BY <1>6 DEF AskTracker
  <2> DEFINE x == [job[j] EXCEPT !.left = job[j].left \ {b}, !.missing = (job[j].missing \/ b \notin cast)]
  <2>2. job[j].step = "trackers" /\ job' = [job EXCEPT ![j] = x]
    BY <2>1 DEF Read
  <2>3. x \in JobType /\ x.step = "trackers" /\ x.history = job[j].history /\ x.action = job[j].action
          /\ x.observer = job[j].observer /\ x.prior = job[j].prior /\ x.receipts = job[j].receipts
          /\ x.left = job[j].left \ {b} /\ x.since = job[j].since
    BY <1>1, <2>2 DEF JobType
  <2>4. x.missing = (job[j].missing \/ b \notin cast)
    BY <1>1 DEF JobType
  <2> HIDE DEF x
  <2>5. ~x.missing => ~job[j].missing /\ b \in cast
    BY <2>4
  <2>6. JobSound(x)
    BY <1>1, <2>2, <2>3 DEF JobSound, Working, Has
  <2>7. ReadSince(x)
    BY <1>1, <2>2, <2>3, <2>5 DEF ReadSince, Working, Has
  <2>8. Calm(x)
    <3>1. restores = 0 => ~x.missing
      <4>1. b \in job[j].receipts
        BY <1>1 DEF JobSound
      <4>2. restores = 0 => ~job[j].missing /\ b \in cast
        BY <1>1, <2>2, <4>1 DEF Calm, Working, Has
      <4>3. QED
        BY <2>4, <4>2
    <3>2. QED
      BY <1>1, <2>2, <2>3, <3>1 DEF Calm, Working, Has
  <2>9. QED
    BY <1>3, <2>2, <2>3, <2>6, <2>7, <2>8
<1>7. ASSUME NEW x \in JobType, job' = [job EXCEPT ![j] = x], job[j].step \in {"trackers", "checkpoints", "result"},
             x.step \in {"checkpoints", "result", "inspect"}, job[j].left = {},
             x.history = job[j].history, x.action = job[j].action, x.observer = job[j].observer,
             x.prior = job[j].prior, x.receipts = job[j].receipts, x.left = job[j].left, x.missing = job[j].missing,
             x.since = job[j].since
      PROVE  ObserverInv'
  <2>1. JobSound(x) /\ ReadSince(x) /\ Calm(x)
    BY <1>1, <1>7 DEF JobSound, ReadSince, Calm, Working, Has
  <2>2. QED
    BY <1>3, <1>7, <2>1
<1>8. CASE ReadAudit(j)
  <2>1. job[j].step = "trackers" /\ job[j].left = {}
    BY <1>8 DEF ReadAudit
  <2>2. CASE Announced(j) = "Published"
    <3> DEFINE row == [archive |-> Archive(Last(history)), result |-> outcome]
    <3> DEFINE x == [job[j] EXCEPT !.step = "checkpoints", !.row = row]
    <3>1. job' = [job EXCEPT ![j] = x] /\ phase = "Published"
      BY <1>8, <2>2 DEF ReadAudit, Read
    <3>2. row \in [archive : Archives, result : Nat]
      <4>1. history # <<>>
        BY <3>1, DatabaseFields DEF TrusteeInv, Recorded
      <4>2. Archive(Last(history)) \in Archives /\ outcome \in Nat
        BY <1>1, <4>1, ArchivesTyped, DatabaseTyped DEF Last, TrusteeInv, HostType
      <4>3. QED
        BY <4>2
    <3> HIDE DEF row
    <3>3. x \in JobType /\ x.step = "checkpoints" /\ x.history = job[j].history /\ x.action = job[j].action
            /\ x.observer = job[j].observer /\ x.prior = job[j].prior /\ x.receipts = job[j].receipts
            /\ x.left = job[j].left /\ x.missing = job[j].missing /\ x.since = job[j].since
      BY <1>1, <3>2 DEF JobType
    <3> HIDE DEF x
    <3>4. QED
      BY <1>7, <2>1, <3>1, <3>3
  <2>3. CASE Announced(j) # "Published"
    <3> DEFINE x == [job[j] EXCEPT !.step = "inspect"]
    <3>1. job' = [job EXCEPT ![j] = x]
      BY <1>8, <2>3 DEF ReadAudit, Read
    <3>2. x \in JobType /\ x.step = "inspect" /\ x.history = job[j].history /\ x.action = job[j].action
            /\ x.observer = job[j].observer /\ x.prior = job[j].prior /\ x.receipts = job[j].receipts
            /\ x.left = job[j].left /\ x.missing = job[j].missing /\ x.since = job[j].since
      BY <1>1 DEF JobType
    <3> HIDE DEF x
    <3>3. QED
      BY <1>7, <2>1, <3>1, <3>2
  <2>4. QED
    BY <2>2, <2>3
<1>9. CASE ReadAuditCheckpoints(j)
  <2> DEFINE x == [job[j] EXCEPT !.step = "result", !.audit = history]
  <2>1. job[j].step = "checkpoints" /\ job' = [job EXCEPT ![j] = x]
    BY <1>9 DEF ReadAuditCheckpoints, Read
  <2>2. x \in JobType /\ x.step = "result" /\ x.history = job[j].history /\ x.action = job[j].action
          /\ x.observer = job[j].observer /\ x.prior = job[j].prior /\ x.receipts = job[j].receipts
          /\ x.left = job[j].left /\ x.missing = job[j].missing /\ x.since = job[j].since
    BY <1>1 DEF JobType
  <2>3. job[j].left = {}
    BY <1>1, <2>1 DEF JobSound
  <2> HIDE DEF x
  <2>4. QED
    BY <1>7, <2>1, <2>2, <2>3
<1>10. CASE ReadResult(j)
  <2> DEFINE agrees == outcome = job[j].row.result
  <2> DEFINE x == [job[j] EXCEPT !.step = "inspect", !.agrees = agrees]
  <2>1. job[j].step = "result" /\ job' = [job EXCEPT ![j] = x]
    BY <1>10 DEF ReadResult, Read
  <2>2. agrees \in BOOLEAN
    OBVIOUS
  <2> HIDE DEF agrees
  <2>3. x \in JobType /\ x.step = "inspect" /\ x.history = job[j].history /\ x.action = job[j].action
          /\ x.observer = job[j].observer /\ x.prior = job[j].prior /\ x.receipts = job[j].receipts
          /\ x.left = job[j].left /\ x.missing = job[j].missing /\ x.since = job[j].since
    BY <1>1, <2>2 DEF JobType
  <2>4. job[j].left = {}
    BY <1>1, <2>1 DEF JobSound
  <2> HIDE DEF x
  <2>5. QED
    BY <1>7, <2>1, <2>3, <2>4
<1>11. CASE Fail(j)
  <2> DEFINE x == [job[j] EXCEPT !.step = "failed"]
  <2>1. job[j].step \notin {"resting", "lock"} /\ job' = [job EXCEPT ![j] = x]
    BY <1>11 DEF Fail
  <2>2. x \in JobType /\ x.step = "failed" /\ x.action = job[j].action /\ x.observer = job[j].observer
          /\ x.receipts = job[j].receipts /\ x.left = job[j].left /\ x.since = job[j].since
    BY <1>1 DEF JobType
  <2> HIDE DEF x
  <2>3. JobSound(x) /\ ReadSince(x) /\ Calm(x)
    BY <1>1, <2>1, <2>2 DEF JobSound, ReadSince, Calm, Working, Has
  <2>4. QED
    BY <1>3, <2>1, <2>2, <2>3
<1>12. QED
  BY <1>4, <1>5, <1>6, <1>8, <1>9, <1>10, <1>11

LEMMA EndKeeps ==
  ASSUME TrusteeInv, ObserverInv, NEW j \in Jobs, End(j) \/ Kill(j)
  PROVE  ObserverInv'
<1> DEFINE o == job[j].observer
<1>1. job \in [Jobs -> JobType] /\ JobSound(job[j]) /\ locked \in [Observers -> BOOLEAN]
        /\ copy \in [Observers -> [Kinds -> Histories \cup {Nil}]]
  BY DEF ObserverInv, ObserverType
<1>2. job' = [job EXCEPT ![j] = Resting] /\ UNCHANGED <<hostVars, kept, file, approval, alarms>>
  BY DEF End, Kill, outputs
<1>3. job'[j] = Resting /\ \A i \in Jobs : i # j => job'[i] = job[i]
  BY <1>1, <1>2
<1>4. Resting.action \notin {"init", "check"}
  BY RestingSound, ObserverApart
<1>5. CASE Kill(j)
  <2>1. UNCHANGED <<locked, copy>>
    BY <1>5 DEF Kill, outputs
  <2>2. QED
    BY <1>1, <1>2, <1>4, <2>1, RestingSound, JobGoesOn
<1>6. CASE End(j)
  <2>1. o \in Observers
    BY <1>1, <1>6 DEF End, JobSound
  <2>2. /\ locked' \in [Observers -> BOOLEAN]
        /\ \A q \in Observers : locked'[q] = IF q = o /\ job[j].action \in {"init", "check"} THEN FALSE ELSE locked[q]
    BY <1>1, <1>6, <2>1 DEF End
  <2>3. copy' \in [Observers -> [Kinds -> Histories \cup {Nil}]]
    <3>1. "mirror" \in Kinds
      BY DEF Kinds
    <3>2. [copy EXCEPT ![o]["mirror"] = Nil] \in [Observers -> [Kinds -> Histories \cup {Nil}]]
      BY <1>1, <2>1, <3>1
    <3>3. QED
      BY <1>1, <1>6, <3>2 DEF End
  <2>4. \A i \in Jobs : i # j /\ HoldsLock(i) =>
          job[i].observer \in Observers /\ ~(job[j].action \in {"init", "check"} /\ job[i].observer = o)
    <3> SUFFICES ASSUME NEW i \in Jobs, i # j, HoldsLock(i)
                 PROVE  job[i].observer \in Observers /\ ~(job[j].action \in {"init", "check"} /\ job[i].observer = o)
      OBVIOUS
    <3>1. JobSound(job[i])
      BY DEF ObserverInv
    <3>2. job[i].step # "resting"
      BY <3>1, ObserverApart DEF JobSound, HoldsLock
    <3>3. job[j].action \in {"init", "check"} => HoldsLock(j)
      BY <1>6 DEF End, HoldsLock
    <3>4. QED
      BY <3>1, <3>2, <3>3 DEF JobSound, ObserverInv, Locks
  <2>5. \A i \in Jobs : HoldsLock(i)' => i # j /\ job'[i] = job[i] /\ HoldsLock(i)
    BY <1>3, <1>4 DEF HoldsLock
  <2>6. Locks'
    <3> SUFFICES ASSUME NEW i \in Jobs, NEW k \in Jobs, HoldsLock(i)'
                 PROVE  /\ locked'[job'[i].observer]
                        /\ HoldsLock(k)' /\ job'[i].observer = job'[k].observer => i = k
      BY DEF Locks
    <3>1. i # j /\ job'[i] = job[i] /\ HoldsLock(i) /\ locked[job[i].observer] /\ job[i].observer \in Observers
      BY <2>4, <2>5 DEF ObserverInv, Locks
    <3>2. locked'[job'[i].observer]
      BY <2>2, <2>4, <3>1
    <3>3. HoldsLock(k)' => job'[k] = job[k] /\ HoldsLock(k)
      BY <2>5
    <3>4. QED
      BY <3>1, <3>2, <3>3 DEF ObserverInv, Locks
  <2>7. QED
    BY <1>2, <1>3, <2>2, <2>3, <2>6, RestingSound, JobKeeps
<1>7. QED
  BY <1>5, <1>6

(* An alarm is raised only after a restore.                                *)
LEMMA AlarmKeeps ==
  ASSUME TrusteeInv, ObserverInv, NEW j \in Jobs, Alarm(j)
  PROVE  ObserverInv'
<1> DEFINE x == [job[j] EXCEPT !.step = "failed"]
<1>1. job \in [Jobs -> JobType] /\ job[j] \in JobType /\ JobSound(job[j]) /\ Calm(job[j])
  BY DEF ObserverInv, ObserverType
<1>2. job[j].step = "inspect" /\ job' = [job EXCEPT ![j] = x] /\ alarms' = alarms \cup {restores}
        /\ UNCHANGED <<hostVars, kept, file, locked, approval, copy>>
  BY DEF Alarm, outputs
<1>3. x \in JobType /\ x.step = "failed" /\ x.action = job[j].action /\ x.observer = job[j].observer
        /\ x.receipts = job[j].receipts /\ x.left = job[j].left /\ x.since = job[j].since
  BY <1>1 DEF JobType
<1> HIDE DEF x
<1>4. JobSound(x) /\ ReadSince(x) /\ Calm(x)
  BY <1>1, <1>2, <1>3 DEF JobSound, ReadSince, Calm, Working, Has
<1>5. restores \in 0 .. MaxRestores /\ restores > 0
  <2>1. restores # 0
    <3> SUFFICES ASSUME restores = 0 PROVE FALSE
      OBVIOUS
    <3>1. /\ ~job[j].missing
          /\ job[j].prior # Nil => Extends(job[j].history, job[j].prior.history)
          /\ Announced(j) # "Scheduled" => job[j].receipts \subseteq Last(job[j].history).ballots
          /\ Announced(j) \in Closings => clock >= ClosesAt
      BY <1>1, <1>2 DEF Calm, Working, Has, Announced
    <3>2. ~Early(j)
      BY <3>1, HostTypes DEF Early, Closings
    <3>3. ~Forked(j) /\ ~Missing(j)
      BY <3>1 DEF Forked, Missing
    <3>4. QED
      BY <3>2, <3>3 DEF Alarm
  <2>2. QED
    BY <2>1, HostTypes DEF TrusteeInv, HostType
<1>6. AlarmsTrue'
  BY <1>2, <1>5 DEF ObserverInv, AlarmsTrue
<1>7. UNCHANGED <<clock, phase, cast, history, restores>>
  BY <1>2 DEF hostVars, vars
<1>8. job' \in [Jobs -> JobType] /\ \A i \in Jobs : job'[i] = IF i = j THEN x ELSE job[i]
  BY <1>1, <1>2, <1>3
<1>9. ObserverType'
  BY <1>2, <1>5, <1>8 DEF ObserverInv, ObserverType
<1>10. ASSUME NEW i \in Jobs PROVE JobSound(job[i])' /\ ReadSince(job[i])' /\ Calm(job[i])'
  <2>1. JobSound(job'[i]) /\ ReadSince(job'[i]) /\ Calm(job'[i])
    BY <1>4, <1>8 DEF ObserverInv
  <2>2. JobSound(job[i])'
    BY <1>2, <1>7, <2>1 DEF JobSound, Working, Has
  <2>3. ReadSince(job[i])' /\ Calm(job[i])'
    BY <1>7, <2>1 DEF ReadSince, Calm, Working, Has
  <2>4. QED
    BY <2>2, <2>3
<1>11. job'[j].action = job[j].action /\ job'[j].observer = job[j].observer /\ job' = [job EXCEPT ![j] = job'[j]]
  BY <1>2, <1>3, <1>8
<1>12. HoldsLock(j)' => HoldsLock(j) /\ job[j].observer = job'[j].observer
  BY <1>2, <1>11 DEF HoldsLock
<1>13. Locks'
  BY <1>2, <1>11, <1>12, LocksKept
<1>14. \A o \in Observers : FileSound(o)'
  BY <1>2, <1>7 DEF ObserverInv, FileSound
<1>15. Announcing' /\ ApprovalSound'
  BY <1>2, <1>7 DEF ObserverInv, Announcing, ApprovalSound
<1>16. QED
  BY <1>6, <1>9, <1>10, <1>13, <1>14, <1>15 DEF ObserverInv

(* A program that passed every check writes what it has read.              *)
LEMMA SaveFacts ==
  ASSUME TrusteeInv, ObserverInv, NEW j \in Jobs, NEW action, Save(j, action)
  PROVE  /\ job[j].step = "inspect" /\ job[j].action = action /\ job[j].observer \in Observers /\ job[j].left = {}
         /\ JobSound(job[j]) /\ ReadSince(job[j]) /\ Calm(job[j]) /\ Passes(j)
         /\ UNCHANGED <<hostVars, clock, phase, cast, history, restores, kept, locked, alarms>>
         /\ job' = [job EXCEPT ![j] = job'[j]] /\ job'[j] \in JobType /\ job'[j].step = "saved"
         /\ job'[j].action = action /\ job'[j].observer = job[j].observer
         /\ JobSound(job'[j]) /\ ReadSince(job'[j]) /\ Calm(job'[j]) /\ Locks'
         /\ job' \in [Jobs -> JobType] /\ \A i \in Jobs : i # j => job'[i] = job[i]
         /\ Observation(j) \in Observations
<1> DEFINE x == [job[j] EXCEPT !.step = "saved"]
<1>1. job \in [Jobs -> JobType] /\ job[j] \in JobType /\ JobSound(job[j]) /\ ReadSince(job[j]) /\ Calm(job[j])
  BY DEF ObserverInv, ObserverType
<1>2. job[j].step = "inspect" /\ job[j].action = action /\ job' = [job EXCEPT ![j] = x] /\ Passes(j)
        /\ UNCHANGED <<hostVars, kept, locked, alarms>>
  BY DEF Save
<1>3. x \in JobType /\ x.step = "saved" /\ x.action = job[j].action /\ x.observer = job[j].observer
        /\ x.receipts = job[j].receipts /\ x.left = job[j].left /\ x.since = job[j].since
  BY <1>1 DEF JobType
<1> HIDE DEF x
<1>4. JobSound(x) /\ ReadSince(x) /\ Calm(x)
  BY <1>1, <1>2, <1>3 DEF JobSound, ReadSince, Calm, Working, Has
<1>5. job[j].observer \in Observers /\ job[j].left = {}
  BY <1>1, <1>2 DEF JobSound
<1>6. UNCHANGED <<clock, phase, cast, history, restores>>
  BY <1>2 DEF hostVars, vars
<1>7. job'[j] = x /\ job' = [job EXCEPT ![j] = job'[j]]
        /\ job' \in [Jobs -> JobType] /\ \A i \in Jobs : i # j => job'[i] = job[i]
  BY <1>1, <1>2, <1>3
<1>8. Locks'
  <2>1. HoldsLock(j)' => HoldsLock(j) /\ job[j].observer = job'[j].observer
    BY <1>2, <1>3, <1>7 DEF HoldsLock
  <2>2. QED
    BY <1>2, <1>7, <2>1, LocksKept
<1>9. Observation(j) \in Observations
  <2>1. <<>> \in Histories
    BY DEF Histories
  <2>2. job[j].history \in Histories /\ job[j].receipts \in SUBSET Ballots /\ job[j].since \in Nat
    BY <1>1, Bounds DEF JobType
  <2>3. QED
    BY <2>1, <2>2 DEF Observation, Observations
<1>10. QED
  BY <1>1, <1>2, <1>3, <1>4, <1>5, <1>6, <1>7, <1>8, <1>9

(* The file is written by the one program that holds its lock.             *)
LEMMA SaveFileKeeps ==
  ASSUME TrusteeInv, ObserverInv, NEW j \in Jobs, SaveCheck(j) \/ SaveInit(j)
  PROVE  ObserverInv'
<1> DEFINE o == job[j].observer
<1> DEFINE s == Observation(j)
<1>1. PICK action \in {"check", "init"} : Save(j, action)
  BY DEF SaveCheck, SaveInit
<1>2. file \in [Observers -> Observations \cup {Nil}] /\ file' = [file EXCEPT ![o] = s] /\ UNCHANGED <<approval, copy>>
  BY DEF SaveCheck, SaveInit, ObserverInv, ObserverType
<1>3. /\ o \in Observers /\ job[j].step = "inspect" /\ job[j].action = action /\ job[j].left = {}
      /\ JobSound(job[j]) /\ ReadSince(job[j]) /\ Calm(job[j])
      /\ UNCHANGED <<clock, phase, cast, history, restores, kept, locked, alarms>>
      /\ job'[j].step = "saved" /\ job' \in [Jobs -> JobType] /\ s \in Observations /\ Locks'
      /\ JobSound(job'[j]) /\ \A i \in Jobs : i # j => job'[i] = job[i]
  BY <1>1, SaveFacts
<1>4. s.history = job[j].history /\ s.receipts = job[j].receipts
  BY DEF Observation
<1> HIDE DEF o, s
<1>5. file' \in [Observers -> Observations \cup {Nil}] /\ file'[o] = s
        /\ \A p \in Observers : p # o => file'[p] = file[p]
  BY <1>2, <1>3
<1>6. ObserverType'
  BY <1>2, <1>3, <1>5 DEF ObserverInv, ObserverType
<1>7. ASSUME NEW i \in Jobs PROVE JobSound(job[i])' /\ ReadSince(job[i])' /\ Calm(job[i])'
  <2>1. CASE i = j
    BY <1>3, <2>1 DEF JobSound, ReadSince, Calm, Working, Has
  <2>2. CASE i # j
    <3>1. job'[i] = job[i] /\ JobSound(job[i]) /\ ReadSince(job[i]) /\ Calm(job[i])
      BY <1>3, <2>2 DEF ObserverInv
    <3>2. Working(job[i]) /\ job[i].action = "check" =>
            job[i].observer \in Observers /\ job[i].observer # o
      <4>1. HoldsLock(j)
        BY <1>3 DEF HoldsLock
      <4>2. Working(job[i]) /\ job[i].action = "check" => HoldsLock(i)
        BY DEF HoldsLock, Working, Has
      <4>3. HoldsLock(i) => job[i].observer # job[j].observer
        BY <2>2, <4>1 DEF ObserverInv, Locks
      <4>4. QED
        BY <3>1, <4>2, <4>3 DEF JobSound, Working, Has, o
    <3>3. JobSound(job[i])'
      BY <1>3, <1>5, <3>1, <3>2 DEF JobSound, Working, Has
    <3>4. ReadSince(job[i])' /\ Calm(job[i])'
      BY <1>3, <3>1 DEF ReadSince, Calm, Working, Has
    <3>5. QED
      BY <3>3, <3>4
  <2>3. QED
    BY <2>1, <2>2
<1>8. ASSUME NEW p \in Observers PROVE FileSound(p)'
  <2>1. FileSound(p)
    BY DEF ObserverInv
  <2>2. CASE p # o
    BY <1>2, <1>3, <1>5, <2>1, <2>2 DEF FileSound
  <2>3. CASE p = o
    <3>1. restores = 0 => Extends(history, s.history)
      <4>1. restores = 0 => job[j].since = restores
        <5>1. job[j].since \in Nat /\ job[j].since <= restores
          BY <1>3, Bounds DEF JobSound, ObserverInv, ObserverType, JobType
        <5>2. QED
          BY <5>1, HostTypes
      <4>2. QED
        BY <1>3, <1>4, <4>1 DEF ReadSince, Working, Has
    <3>2. QED
      BY <1>2, <1>3, <1>5, <2>1, <2>3, <3>1 DEF FileSound
  <2>4. QED
    BY <2>2, <2>3
<1>9. Announcing' /\ ApprovalSound' /\ AlarmsTrue'
  BY <1>2, <1>3 DEF ObserverInv, Announcing, ApprovalSound, AlarmsTrue
<1>10. QED
  BY <1>3, <1>6, <1>7, <1>8, <1>9 DEF ObserverInv

(* An approval says what is still so when there was no restore since.      *)
LEMMA ApproveKeeps ==
  ASSUME TrusteeInv, ObserverInv, NEW j \in Jobs, Approve(j)
  PROVE  ObserverInv'
<1> DEFINE o == job[j].observer
<1> DEFINE a == [Observation(j) EXCEPT !.prior = job[j].prior.history, !.since = job[j].since]
<1>1. Save(j, "recover") /\ approval' = [approval EXCEPT ![o] = a] /\ UNCHANGED <<file, copy>>
  BY DEF Approve
<1>2. /\ o \in Observers /\ job[j].step = "inspect" /\ job[j].action = "recover" /\ job[j].left = {}
      /\ JobSound(job[j]) /\ ReadSince(job[j]) /\ Passes(j)
      /\ UNCHANGED <<clock, phase, cast, history, restores, kept, locked, alarms>>
      /\ job'[j].step = "saved" /\ job' \in [Jobs -> JobType] /\ Observation(j) \in Observations /\ Locks'
      /\ JobSound(job'[j]) /\ \A i \in Jobs : i # j => job'[i] = job[i]
  BY <1>1, SaveFacts
<1>3. job[j].prior # Nil /\ job[j].prior.history \in Histories /\ job[j].history \in Histories
  BY <1>2, JobTyped DEF JobSound, Working, Has
<1>4. a \in Observations /\ a.history = job[j].history /\ a.receipts = job[j].receipts
        /\ a.prior = job[j].prior.history /\ a.since = job[j].since
  <2>1. job[j].since \in Nat
    BY Bounds DEF ObserverInv, ObserverType, JobType
  <2>2. QED
    BY <1>2, <1>3, <2>1 DEF Observation, Observations
<1> HIDE DEF o, a
<1>5. approval' \in [Observers -> Observations \cup {Nil}] /\ approval'[o] = a
        /\ \A p \in Observers : p # o => approval'[p] = approval[p]
  BY <1>1, <1>2, <1>4 DEF ObserverInv, ObserverType
<1>6. ObserverType'
  BY <1>1, <1>2, <1>5 DEF ObserverInv, ObserverType
<1>7. ASSUME NEW i \in Jobs PROVE JobSound(job[i])' /\ ReadSince(job[i])' /\ Calm(job[i])'
  <2>1. CASE i = j
    BY <1>2, <2>1 DEF JobSound, ReadSince, Calm, Working, Has
  <2>2. CASE i # j
    <3>1. job'[i] = job[i] /\ JobSound(job[i]) /\ ReadSince(job[i]) /\ Calm(job[i])
      BY <1>2, <2>2 DEF ObserverInv
    <3>2. QED
      BY <1>1, <1>2, <3>1 DEF JobSound, ReadSince, Calm, Working, Has
  <2>3. QED
    BY <2>1, <2>2
<1>8. ASSUME NEW p \in Observers PROVE FileSound(p)'
  <2>1. FileSound(p)
    BY DEF ObserverInv
  <2>2. p # o => approval'[p] = approval[p]
    BY <1>5
  <2>3. a.since <= restores
    BY <1>2, <1>4 DEF JobSound
  <2>4. approval'[p] # Nil => approval'[p].since <= restores
    BY <1>5, <2>1, <2>2, <2>3 DEF FileSound
  <2>5. QED
    BY <1>1, <1>2, <2>1, <2>4 DEF FileSound
<1>9. ApprovalSound'
  <2> SUFFICES ASSUME NEW p \in Observers, approval'[p] # Nil, approval'[p].since = restores
               PROVE  /\ Extends(history, approval'[p].history) /\ Extends(history, approval'[p].prior)
                      /\ approval'[p].receipts \subseteq cast
    BY <1>2 DEF ApprovalSound
  <2>1. CASE p # o
    BY <1>5, <2>1 DEF ObserverInv, ApprovalSound
  <2>2. CASE p = o
    <3>1. job[j].since = restores /\ ~Forked(j) /\ ~job[j].missing
      BY <1>2, <1>4, <1>5, <2>2 DEF Passes, Missing
    <3>2. Extends(history, job[j].history) /\ job[j].receipts \subseteq cast
      BY <1>2, <3>1 DEF ReadSince, Working, Has
    <3>3. Extends(job[j].history, job[j].prior.history)
      BY <1>3, <3>1 DEF Forked
    <3>4. Extends(history, job[j].prior.history)
      BY <1>3, <3>2, <3>3, HostTypes, ExtendsTransitive
    <3>5. QED
      BY <1>4, <1>5, <2>2, <3>2, <3>4
  <2>3. QED
    BY <2>1, <2>2
<1>10. Announcing' /\ AlarmsTrue'
  BY <1>2 DEF ObserverInv, Announcing, AlarmsTrue
<1>11. QED
  BY <1>2, <1>6, <1>7, <1>8, <1>9, <1>10 DEF ObserverInv

LEMMA SaveCopyKeeps ==
  ASSUME TrusteeInv, ObserverInv, NEW j \in Jobs, SaveCopy(j)
  PROVE  ObserverInv'
<1> DEFINE o == job[j].observer
<1> DEFINE k == job[j].action
<1>1. Save(j, k) /\ k \in Kinds /\ copy' = [copy EXCEPT ![o][k] = job[j].audit] /\ UNCHANGED <<file, approval>>
  BY DEF SaveCopy
<1>2. /\ o \in Observers /\ UNCHANGED <<hostVars, kept, locked, alarms>>
      /\ job' = [job EXCEPT ![j] = job'[j]] /\ job'[j] \in JobType
      /\ JobSound(job'[j]) /\ ReadSince(job'[j]) /\ Calm(job'[j]) /\ Locks'
  BY <1>1, SaveFacts
<1>3. copy \in [Observers -> [Kinds -> Histories \cup {Nil}]] /\ job[j].audit \in Histories \cup {Nil}
        /\ locked \in [Observers -> BOOLEAN]
  BY DEF ObserverInv, ObserverType, JobType
<1> HIDE DEF o, k
<1>4. copy' \in [Observers -> [Kinds -> Histories \cup {Nil}]]
  BY <1>1, <1>2, <1>3
<1>5. QED
  BY <1>1, <1>2, <1>3, <1>4, JobKeeps

(* Whoever started already has the receipts there were then.               *)
LEMMA ConfigKeeps ==
  ASSUME TrusteeInv, ObserverInv, NEW o \in Observers, NEW b \in Ballots, Retain(o, b) \/ Forget(o, b)
  PROVE  ObserverInv'
<1>1. PICK k \in SUBSET Ballots : kept' = [kept EXCEPT ![o] = k] /\ k \subseteq kept[o] \cup cast
  <2>1. kept[o] \in SUBSET Ballots
    BY DEF ObserverInv, ObserverType
  <2>2. CASE Retain(o, b)
    BY <2>1, <2>2 DEF Retain
  <2>3. CASE Forget(o, b)
    BY <2>1, <2>3 DEF Forget
  <2>4. QED
    BY <2>2, <2>3
<1>2. UNCHANGED <<clock, phase, cast, history, restores, file, locked, approval, copy, job, alarms>>
  BY DEF Retain, Forget, hostVars, vars, outputs
<1>3. kept' \in [Observers -> SUBSET Ballots] /\ \A p \in Observers : kept'[p] \subseteq kept[p] \cup cast
  BY <1>1 DEF ObserverInv, ObserverType
<1>4. ObserverType' /\ Locks' /\ Announcing' /\ ApprovalSound' /\ AlarmsTrue'
  BY <1>2, <1>3 DEF ObserverInv, ObserverType, Locks, HoldsLock, Announcing, ApprovalSound, AlarmsTrue
<1>5. ASSUME NEW j \in Jobs PROVE JobSound(job[j])' /\ ReadSince(job[j])' /\ Calm(job[j])'
  BY <1>2 DEF ObserverInv, JobSound, ReadSince, Calm, Working, Has
<1>6. ASSUME NEW p \in Observers PROVE FileSound(p)'
  BY <1>2, <1>3 DEF ObserverInv, FileSound
<1>7. QED
  BY <1>4, <1>5, <1>6 DEF ObserverInv

(* Before any restore two observers have seen parts of one history.        *)
LEMMA CompareKeeps ==
  ASSUME TrusteeInv, ObserverInv, NEW o \in Observers, NEW p \in Observers, Compare(o, p)
  PROVE  ObserverInv'
<1>1. alarms' = alarms \cup {restores}
        /\ UNCHANGED <<clock, phase, cast, history, restores, kept, file, locked, approval, copy, job>>
  BY DEF Compare, hostVars, vars, outputs
<1>2. restores # 0
  <2> SUFFICES ASSUME restores = 0 PROVE FALSE
    OBVIOUS
  <2>1. file[o] \in Observations /\ file[p] \in Observations
    BY DEF Compare, ObserverInv, ObserverType
  <2>2. file[o].history \in Histories /\ file[p].history \in Histories
    BY <2>1 DEF Observations
  <2>3. Extends(history, file[o].history) /\ Extends(history, file[p].history)
    BY DEF Compare, ObserverInv, FileSound
  <2>4. Extends(file[o].history, file[p].history) \/ Extends(file[p].history, file[o].history)
    BY <2>2, <2>3, HostTypes, ExtendsLinear
  <2>5. QED
    BY <2>4 DEF Compare
<1>3. restores > 0 /\ restores \in 0 .. MaxRestores
  BY <1>2, HostTypes
<1>4. AlarmsTrue'
  BY <1>1, <1>3 DEF ObserverInv, AlarmsTrue
<1>5. ObserverType' /\ Locks' /\ Announcing' /\ ApprovalSound'
  BY <1>1, <1>3 DEF ObserverInv, ObserverType, Locks, HoldsLock, Announcing, ApprovalSound
<1>6. ASSUME NEW j \in Jobs PROVE JobSound(job[j])' /\ ReadSince(job[j])' /\ Calm(job[j])'
  BY <1>1 DEF ObserverInv, JobSound, ReadSince, Calm, Working, Has
<1>7. ASSUME NEW q \in Observers PROVE FileSound(q)'
  BY <1>1 DEF ObserverInv, FileSound
<1>8. QED
  BY <1>4, <1>5, <1>6, <1>7 DEF ObserverInv

LEMMA ObserverNextKeeps == TrusteeInv /\ ObserverInv /\ ObserverNext => ObserverInv'
<1> SUFFICES ASSUME TrusteeInv, ObserverInv, ObserverNext PROVE ObserverInv'
  OBVIOUS
<1>1. ASSUME NEW o \in Observers,
             (\E b \in Ballots : Retain(o, b) \/ Forget(o, b)) \/ (\E p \in Observers : Compare(o, p))
      PROVE  ObserverInv'
  BY <1>1, ConfigKeeps, CompareKeeps
<1>2. ASSUME NEW j \in Jobs, (\E o \in Observers : Start(j, o) \/ StartMirror(j, o)) \/ Configure(j) \/ Lock(j) \/ ReadFile(j)
      PROVE  ObserverInv'
  BY <1>2, StartKeeps, LockKeeps, ReadFileKeeps
<1>3. ASSUME NEW j \in Jobs,
             \/ ReadChain(j) \/ ReadPoll(j) \/ AskTracker(j) \/ ReadAudit(j) \/ ReadAuditCheckpoints(j) \/ ReadResult(j)
             \/ Alarm(j) \/ Fail(j) \/ End(j) \/ Kill(j)
             \/ SaveCheck(j) \/ SaveInit(j) \/ Approve(j) \/ SaveCopy(j)
      PROVE  ObserverInv'
  BY <1>3, ReadKeeps, AlarmKeeps, EndKeeps, SaveFileKeeps, ApproveKeeps, SaveCopyKeeps
<1>4. QED
  BY <1>1, <1>2, <1>3 DEF ObserverNext

LEMMA ObserverInvInit == HostInit /\ TrusteeInit /\ ObserverInit => ObserverInv
<1> SUFFICES ASSUME HostInit, TrusteeInit, ObserverInit PROVE ObserverInv
  OBVIOUS
<1>1. TrusteeInv
  BY TrusteeInvInit
<1>2. /\ phase = "None" /\ cast = {} /\ restores = 0 /\ alarms = {}
      /\ kept = [o \in Observers |-> {}] /\ file = [o \in Observers |-> Nil] /\ locked = [o \in Observers |-> FALSE]
      /\ approval = [o \in Observers |-> Nil] /\ copy = [o \in Observers |-> [k \in Kinds |-> Nil]]
      /\ job = [j \in Jobs |-> Resting]
  BY DEF HostInit, Init, ObserverInit
<1>3. Resting \in JobType /\ JobSound(Resting) /\ ReadSince(Resting) /\ Calm(Resting)
        /\ Resting.action \notin {"init", "check"}
  BY <1>1, RestingSound, ObserverApart
<1>4. ObserverType
  BY <1>2, <1>3 DEF ObserverType
<1>5. Locks /\ Announcing /\ AlarmsTrue
  BY <1>2, <1>3 DEF Locks, HoldsLock, Announcing, AlarmsTrue
<1>6. \A j \in Jobs : JobSound(job[j]) /\ ReadSince(job[j]) /\ Calm(job[j])
  BY <1>2, <1>3
<1>7. \A o \in Observers : FileSound(o)
  BY <1>2 DEF FileSound
<1>8. ApprovalSound
  BY <1>2 DEF ApprovalSound
<1>9. QED
  BY <1>4, <1>5, <1>6, <1>7, <1>8 DEF ObserverInv

LEMMA ObserverInvariance == AuditorsSpec => []ObserverInv
<1>1. AuditorsInit => ObserverInv
  BY ObserverInvInit DEF AuditorsInit
<1>2. TrusteeInv /\ TrusteeInv' /\ ObserverInv /\ [AuditorsNext]_allVars => ObserverInv'
  <2> SUFFICES ASSUME TrusteeInv, TrusteeInv', ObserverInv, [AuditorsNext]_allVars PROVE ObserverInv'
    OBVIOUS
  <2>1. CASE HostNext /\ UNCHANGED <<trusteeVars, observerVars>>
    <3>1. Announcing' /\ Grows
      BY <2>1, HostGrows DEF ObserverInv
    <3>2. UNCHANGED observerVars
      BY <2>1
    <3>3. QED
      BY <3>1, <3>2, ObserversWait
  <2>2. ASSUME UNCHANGED <<vars, restores>>, UNCHANGED observerVars PROVE ObserverInv'
    <3>1. UNCHANGED <<clock, phase, cast, history, restores>>
      BY <2>2 DEF vars
    <3>2. Extends(history', history)
      BY <3>1, HostTypes, ExtendsSelf
    <3>3. Announcing' /\ Grows
      BY <3>1, <3>2, HostTypes DEF ObserverInv, Announcing, Grows
    <3>4. QED
      BY <2>2, <3>3, ObserversWait
  <2>3. CASE TrusteeNext /\ UNCHANGED observerVars
    BY <2>2, <2>3, TrusteesKeepHost
  <2>4. CASE ObserverNext /\ UNCHANGED trusteeVars
    BY <2>4, ObserverNextKeeps
  <2>5. CASE UNCHANGED allVars
    BY <2>2, <2>5 DEF allVars, hostVars
  <2>6. QED
    BY <2>1, <2>3, <2>4, <2>5 DEF AuditorsNext
<1>3. QED
  BY <1>1, <1>2, TrusteeInvariance, PTL DEF AuditorsSpec

(* Types; and a lock is held by the one program that writes the file       *)
(* (scripts/observer.ts, mkdir of the lock and its removal at the end).    *)
THEOREM AuditorsTypeCorrect == AuditorsSpec => []TypeOK
<1>1. TrusteeInv /\ ObserverInv => TypeOK
  <2> SUFFICES ASSUME TrusteeInv, ObserverInv PROVE TypeOK
    OBVIOUS
  <2>1. /\ phase \in Phases /\ cast \subseteq Ballots /\ history \in Histories /\ outcome \in Nat
        /\ shares \in [Trustees -> Shares \cup {Nil}]
    BY DatabaseTyped DEF TrusteeInv, HostType
  <2>2. /\ clock \in 0 .. Horizon /\ restores \in 0 .. MaxRestores /\ visible \in BOOLEAN
        /\ published \subseteq Histories
    BY DEF TrusteeInv, HostType
  <2>3. /\ bound \in [Trustees -> Histories \cup {Nil, Partial}]
        /\ share \in [Trustees -> Shares \cup {Nil, Partial}]
        /\ run \in [Runs -> RunType]
    BY DEF TrusteeInv, TrusteeType
  <2>4. ObserverType /\ Locks
    BY DEF ObserverInv
  <2>5. QED
    BY <2>1, <2>2, <2>3, <2>4 DEF TypeOK, RunType, ObserverType, Locks
<1>2. QED
  BY <1>1, TrusteeInvariance, ObserverInvariance, PTL

(* Observers raise an alarm only about a service whose database was lost   *)
(* and restored, whatever it does meanwhile and whoever is killed          *)
(* (inspectObservation and compareObservations).                           *)
THEOREM AlarmsAreTrue == AuditorsSpec => []AlarmsTrue
<1>1. ObserverInv => AlarmsTrue
  BY DEF ObserverInv
<1>2. QED
  BY <1>1, ObserverInvariance, PTL

(* A service that was approved for recovery has all that the observer had  *)
(* seen, until its next restore (scripts/recovery-verify.ts).              *)
THEOREM ApprovalsAreSound == AuditorsSpec => []ApprovalSound
<1>1. ObserverInv => ApprovalSound
  BY DEF ObserverInv
<1>2. QED
  BY <1>1, ObserverInvariance, PTL

(* No announcement and no receipt is lost from the file of an observer,    *)
(* whichever programs run on it at once (scripts/observer.ts).             *)
THEOREM SeenIsKept == AuditorsSpec => SeenStaysSeen
<1> DEFINE Stays ==
      \A o \in Observers : file[o] # Nil =>
        /\ file'[o] # Nil
        /\ Extends(file'[o].history, file[o].history)
        /\ file[o].receipts \subseteq file'[o].receipts
<1>1. TrusteeInv /\ ObserverInv /\ [AuditorsNext]_allVars => [Stays]_<<hostVars, observerVars>>
  <2> SUFFICES ASSUME TrusteeInv, ObserverInv, [AuditorsNext]_allVars PROVE Stays
    OBVIOUS
  <2>1. file \in [Observers -> Observations \cup {Nil}]
    BY DEF ObserverInv, ObserverType
  <2>2. \A o \in Observers : file[o] # Nil => Extends(file[o].history, file[o].history)
    <3> SUFFICES ASSUME NEW o \in Observers, file[o] # Nil PROVE Extends(file[o].history, file[o].history)
      OBVIOUS
    <3>1. file[o].history \in Histories
      BY <2>1 DEF Observations
    <3>2. QED
      BY <3>1, ExtendsSelf
  <2>3. CASE UNCHANGED file
    BY <2>2, <2>3
  <2>4. ASSUME NEW j \in Jobs, SaveCheck(j) \/ SaveInit(j) PROVE Stays
    <3> DEFINE p == job[j].observer
    <3> DEFINE s == Observation(j)
    <3>1. PICK action \in {"check", "init"} :
            Save(j, action) /\ (action = "init" => file[p] = Nil) /\ file' = [file EXCEPT ![p] = s]
      BY <2>4 DEF SaveCheck, SaveInit
    <3>2. /\ p \in Observers /\ job[j].step = "inspect" /\ job[j].action = action
          /\ JobSound(job[j]) /\ Passes(j) /\ s \in Observations
      BY <3>1, SaveFacts
    <3>3. s.history = job[j].history /\ s.receipts = job[j].receipts /\ s # Nil
      BY <3>2, ObserverApart DEF Observation
    <3>4. file[p] # Nil =>
            Extends(job[j].history, file[p].history) /\ file[p].receipts \subseteq job[j].receipts
      <4>1. file[p] # Nil => action = "check"
        BY <3>1
      <4>2. action = "check" => job[j].prior = file[p] /\ job[j].prior # Nil
        BY <3>2 DEF JobSound, Working, Has
      <4>3. job[j].prior # Nil => /\ Extends(job[j].history, job[j].prior.history)
                                  /\ job[j].prior.receipts \subseteq job[j].receipts
        BY <3>2 DEF Passes, Forked, Removed
      <4>4. QED
        BY <4>1, <4>2, <4>3
    <3> HIDE DEF p, s
    <3>5. \A o \in Observers : file'[o] = IF o = p THEN s ELSE file[o]
      BY <2>1, <3>1
    <3>6. QED
      BY <2>2, <3>3, <3>4, <3>5
  <2>5. CASE HostNext /\ UNCHANGED <<trusteeVars, observerVars>>
    BY <2>3, <2>5 DEF observerVars, outputs
  <2>6. CASE TrusteeNext /\ UNCHANGED observerVars
    BY <2>3, <2>6 DEF observerVars, outputs
  <2>7. CASE ObserverNext
    <3>1. ASSUME NEW o \in Observers,
                 (\E b \in Ballots : Retain(o, b) \/ Forget(o, b)) \/ (\E p \in Observers : Compare(o, p))
          PROVE  UNCHANGED file
      BY <3>1 DEF Retain, Forget, Compare, outputs
    <3>2. ASSUME NEW j \in Jobs,
                 (\E o \in Observers : Start(j, o) \/ StartMirror(j, o)) \/ Configure(j) \/ Lock(j) \/ ReadFile(j)
          PROVE  UNCHANGED file
      BY <3>2 DEF Start, StartMirror, Configure, Lock, ReadFile, outputs
    <3>3. ASSUME NEW j \in Jobs,
                 ReadChain(j) \/ ReadPoll(j) \/ AskTracker(j) \/ ReadAudit(j) \/ ReadAuditCheckpoints(j) \/ ReadResult(j)
          PROVE  UNCHANGED file
      BY <3>3 DEF ReadChain, ReadPoll, AskTracker, ReadAudit, ReadAuditCheckpoints, ReadResult, Read, outputs
    <3>4. ASSUME NEW j \in Jobs, Alarm(j) \/ Fail(j) \/ End(j) \/ Kill(j) \/ Approve(j) \/ SaveCopy(j)
          PROVE  UNCHANGED file
      BY <3>4 DEF Alarm, Fail, End, Kill, Approve, SaveCopy, outputs
    <3>5. QED
      BY <2>3, <2>4, <2>7, <3>1, <3>2, <3>3, <3>4 DEF ObserverNext
  <2>8. CASE UNCHANGED allVars
    BY <2>3, <2>8 DEF allVars, observerVars, outputs
  <2>9. QED
    BY <2>5, <2>6, <2>7, <2>8 DEF AuditorsNext
<1>2. QED
  BY <1>1, TrusteeInvariance, ObserverInvariance, PTL DEF AuditorsSpec, SeenStaysSeen

-----------------------------------------------------------------------------
(***************************************************************************)
(* An honest host convinces                                                *)
(*                                                                         *)
(* What a service announces is Genuine, before and after a restore, and so *)
(* is every history somebody has fetched from it.                          *)
(***************************************************************************)

(* The envelope of an announcement, behind the envelopes before it.        *)
Envelope(h, before, n) ==
  [sequence |-> n - 1, previous |-> PreviousDigest(before), archive |-> Archive(h[n]),
   state |-> h[n].phase, receipts |-> h[n].ballots]

Chained(h, chain, n) ==
  chain = [i \in 0 .. n |-> IF i = 0 THEN <<>> ELSE Append(chain[i - 1], Envelope(h, chain[i - 1], i))]

(* Envelopes is what its recursion says.                                   *)
LEMMA ChainExists ==
  ASSUME NEW h, Len(h) \in Nat
  PROVE  \E chain : Chained(h, chain, Len(h))
<1> DEFINE T == {n \in 0 .. Len(h) : \E chain : Chained(h, chain, n)}
<1>1. 0 \in T
  <2>1. Chained(h, [i \in 0 .. 0 |-> <<>>], 0)
    BY DEF Chained
  <2>2. QED
    BY <2>1
<1>2. ASSUME NEW n \in 0 .. Len(h), n \in T, n < Len(h)
      PROVE  n + 1 \in T
  <2>1. PICK g : Chained(h, g, n)
    BY <1>2
  <2> DEFINE last == Append(g[n], Envelope(h, g[n], n + 1))
             f == [i \in 0 .. n + 1 |-> IF i = n + 1 THEN last ELSE g[i]]
  <2>2. g = [i \in 0 .. n |-> IF i = 0 THEN <<>> ELSE Append(g[i - 1], Envelope(h, g[i - 1], i))]
    BY <2>1 DEF Chained
  <2> HIDE DEF last
  <2>3. ASSUME NEW i \in 0 .. n + 1
        PROVE  f[i] = IF i = 0 THEN <<>> ELSE Append(f[i - 1], Envelope(h, f[i - 1], i))
    <3>1. CASE i = n + 1
      <4>1. f[i] = last /\ f[i - 1] = g[n] /\ i # 0
        BY <3>1
      <4>2. QED
        BY <3>1, <4>1 DEF last
    <3>2. CASE i # n + 1
      <4>1. i \in 0 .. n /\ f[i] = g[i] /\ (i # 0 => f[i - 1] = g[i - 1])
        BY <3>2
      <4>2. g[i] = IF i = 0 THEN <<>> ELSE Append(g[i - 1], Envelope(h, g[i - 1], i))
        BY <2>2, <4>1
      <4>3. QED
        BY <4>1, <4>2
    <3>3. QED
      BY <3>1, <3>2
  <2>4. Chained(h, f, n + 1)
    BY <2>3 DEF Chained
  <2>5. QED
    BY <2>4
<1> HIDE DEF T
<1>3. \A n \in 0 .. Len(h) : n \in T
  BY <1>1, <1>2, Climb
<1>4. QED
  BY <1>3 DEF T

LEMMA EnvelopesUnfold ==
  ASSUME NEW h, Len(h) \in Nat
  PROVE  \E chain : Chained(h, chain, Len(h)) /\ Envelopes(h) = chain[Len(h)]
<1> DEFINE f == CHOOSE chain : Chained(h, chain, Len(h))
<1>1. Chained(h, f, Len(h))
  BY ChainExists
<1>2. Envelopes(h) = f[Len(h)]
  BY DEF Envelopes, Chained, Envelope
<1>3. QED
  BY <1>1, <1>2

(* One envelope per announcement, each with the digest of the one before.  *)
ChainOf(h, chain) ==
  /\ chain \in Seq({chain[i] : i \in 1 .. Len(h)})
  /\ Len(chain) = Len(h) /\ DOMAIN chain = 1 .. Len(h)
  /\ \A i \in 1 .. Len(h) :
       /\ chain[i].sequence = i - 1
       /\ chain[i].previous = IF i = 1 THEN Nil ELSE Digest(chain[i - 1])
       /\ chain[i].archive = Archive(h[i]) /\ chain[i].state = h[i].phase /\ chain[i].receipts = h[i].ballots

LEMMA EnvelopesAre == ASSUME NEW h, Len(h) \in Nat PROVE ChainOf(h, Envelopes(h))
<1>1. PICK chain : Chained(h, chain, Len(h)) /\ Envelopes(h) = chain[Len(h)]
  BY EnvelopesUnfold
<1> DEFINE e(i) == Envelope(h, chain[i - 1], i)
           S == {e(i) : i \in 1 .. Len(h)}
           Good(n) == chain[n] \in Seq(S) /\ Len(chain[n]) = n /\ \A i \in 1 .. n : chain[n][i] = e(i)
           T == {n \in 0 .. Len(h) : Good(n)}
<1>2. chain[0] = <<>> /\ \A i \in 1 .. Len(h) : chain[i] = Append(chain[i - 1], e(i))
  <2>1. chain = [i \in 0 .. Len(h) |-> IF i = 0 THEN <<>> ELSE Append(chain[i - 1], e(i))]
    BY <1>1 DEF Chained
  <2> HIDE DEF e
  <2>2. \A i \in 0 .. Len(h) : chain[i] = IF i = 0 THEN <<>> ELSE Append(chain[i - 1], e(i))
    BY <2>1
  <2>3. 0 \in 0 .. Len(h) /\ \A i \in 1 .. Len(h) : i \in 0 .. Len(h) /\ i # 0
    OBVIOUS
  <2>4. QED
    BY <2>2, <2>3
<1>3. 0 \in T
  <2> HIDE DEF e
  <2>1. chain[0] \in Seq(S) /\ Len(chain[0]) = 0
    BY <1>2
  <2>2. QED
    BY <2>1
<1>4. ASSUME NEW n \in 0 .. Len(h), n \in T, n < Len(h)
      PROVE  n + 1 \in T
  <2> HIDE DEF e
  <2>1. chain[n] \in Seq(S) /\ Len(chain[n]) = n /\ \A i \in 1 .. n : chain[n][i] = e(i)
    BY <1>4
  <2>2. chain[n + 1] = Append(chain[n], e(n + 1)) /\ e(n + 1) \in S
    <3>1. n + 1 \in 1 .. Len(h) /\ n + 1 - 1 = n
      BY <1>4
    <3>2. e(n + 1) \in S
      BY <3>1
    <3>3. chain[n + 1] = Append(chain[n + 1 - 1], e(n + 1))
      BY <1>2, <3>1
    <3>4. QED
      BY <3>1, <3>2, <3>3
  <2> HIDE DEF S
  <2>3. /\ chain[n + 1] \in Seq(S) /\ Len(chain[n + 1]) = n + 1
        /\ chain[n + 1][n + 1] = e(n + 1) /\ \A i \in 1 .. n : chain[n + 1][i] = chain[n][i]
    BY <2>1, <2>2
  <2>4. \A i \in 1 .. n + 1 : chain[n + 1][i] = e(i)
    BY <2>1, <2>3
  <2>5. QED
    BY <1>4, <2>3, <2>4
<1> HIDE DEF T
<1>5. \A n \in 0 .. Len(h) : n \in T
  BY <1>3, <1>4, Climb
<1>6. \A n \in 0 .. Len(h) : Good(n)
  BY <1>5 DEF T
<1> DEFINE last == chain[Len(h)]
<1> HIDE DEF e, S
<1>7. Len(h) \in 0 .. Len(h) /\ \A i \in 1 .. Len(h) : i - 1 \in 0 .. Len(h)
  OBVIOUS
<1>8. last \in Seq(S) /\ Len(last) = Len(h) /\ \A i \in 1 .. Len(h) : last[i] = e(i)
  BY <1>6, <1>7
<1>9. \A i \in 1 .. Len(h) : Len(chain[i - 1]) = i - 1 /\ \A k \in 1 .. i - 1 : chain[i - 1][k] = e(k)
  BY <1>6, <1>7
<1> HIDE DEF last, Good
<1>10. S = {last[i] : i \in 1 .. Len(h)}
  BY <1>8 DEF S
<1>11. ASSUME NEW i \in 1 .. Len(h)
       PROVE  PreviousDigest(chain[i - 1]) = IF i = 1 THEN Nil ELSE Digest(last[i - 1])
  <2>1. CASE i = 1
    BY <1>2, <2>1 DEF PreviousDigest
  <2>2. CASE i # 1
    <3>1. i - 1 \in 1 .. Len(h) /\ i - 1 \in 1 .. i - 1
      BY <2>2
    <3>2. Len(chain[i - 1]) = i - 1 /\ chain[i - 1][i - 1] = e(i - 1) /\ last[i - 1] = e(i - 1)
      BY <1>8, <1>9, <3>1
    <3>3. chain[i - 1] # <<>>
      BY <2>2, <3>2
    <3>4. QED
      BY <2>2, <3>2, <3>3 DEF PreviousDigest
  <2>3. QED
    BY <2>1, <2>2
<1>12. ASSUME NEW i \in 1 .. Len(h)
       PROVE  /\ last[i].sequence = i - 1
              /\ last[i].previous = IF i = 1 THEN Nil ELSE Digest(last[i - 1])
              /\ last[i].archive = Archive(h[i]) /\ last[i].state = h[i].phase /\ last[i].receipts = h[i].ballots
  <2>1. last[i] = Envelope(h, chain[i - 1], i)
    BY <1>8 DEF e
  <2>2. last[i].previous = PreviousDigest(chain[i - 1])
    BY <2>1 DEF Envelope
  <2>3. QED
    BY <1>11, <2>1, <2>2 DEF Envelope
<1>13. Envelopes(h) = last
  BY <1>1 DEF last
<1>14. DOMAIN last = 1 .. Len(h)
  BY <1>8
<1>15. ChainOf(h, last)
  BY <1>8, <1>10, <1>12, <1>14 DEF ChainOf
<1>16. QED
  BY <1>13, <1>15

(* The chain is linked, if the ballots announced only grow.                *)
LEMMA EnvelopesVerify ==
  ASSUME NEW h, Len(h) \in Nat, \A i \in 2 .. Len(h) : h[i - 1].ballots \subseteq h[i].ballots
  PROVE  VerifyChain(Envelopes(h))
<1> DEFINE chain == Envelopes(h)
<1>1. ChainOf(h, chain)
  BY EnvelopesAre
<1> HIDE DEF chain
<1> USE DEF ChainOf
<1>2. ASSUME NEW i \in 1 .. Len(h)
      PROVE  PreviousDigest(SubSeq(chain, 1, i - 1)) = IF i = 1 THEN Nil ELSE Digest(chain[i - 1])
  <2> DEFINE s == SubSeq(chain, 1, i - 1)
  <2>1. CASE i = 1
    <3>1. s = <<>>
      BY <1>1, <2>1
    <3>2. QED
      BY <2>1, <3>1 DEF PreviousDigest
  <2>2. CASE i # 1
    <3>1. 1 \in Int /\ i - 1 \in Int /\ i - 1 >= 1 /\ \A k \in 1 .. i - 1 : k \in 1 .. Len(h)
      BY <2>2
    <3> DEFINE S == {chain[k] : k \in 1 .. Len(h)}
    <3>2. chain \in Seq(S) /\ \A k \in 1 .. i - 1 : chain[k] \in S
      BY <1>1, <3>1
    <3> HIDE DEF S
    <3>3. Len(s) = i - 1 /\ s[i - 1] = chain[i - 1]
      BY <2>2, <3>1, <3>2, SubSeqProperties
    <3> HIDE DEF s
    <3>4. s # <<>>
      BY <3>1, <3>3
    <3> USE DEF s
    <3>5. QED
      BY <2>2, <3>3, <3>4 DEF PreviousDigest
  <2>3. QED
    BY <2>1, <2>2
<1>3. ASSUME NEW i \in 1 .. Len(h), i > 1
      PROVE  chain[i - 1].receipts \subseteq chain[i].receipts
  <2>1. i \in 2 .. Len(h) /\ i - 1 \in 1 .. Len(h)
    BY <1>3
  <2>2. QED
    BY <1>1, <2>1
<1>4. VerifyChain(chain)
  BY <1>1, <1>2, <1>3 DEF VerifyChain
<1>5. QED
  BY <1>4 DEF chain

-----------------------------------------------------------------------------
(* A history that a service has announced by some time, when some final    *)
(* sets had been tallied: it follows the lifecycle, but for a withdrawal   *)
(* after the end; the ballots are fixed once the poll is over; it was not  *)
(* closed early, or below the threshold.                                   *)
Genuine(h, time, tallied) ==
  /\ \A i \in 1 .. Len(h) :
       /\ h[i].phase # "Open"
       /\ h[i].phase = "Scheduled" <=> i = 1
       /\ h[1].ballots \subseteq h[i].ballots
  /\ \A i \in 2 .. Len(h) :
       /\ \/ h[i].phase \in Transitions[h[i - 1].phase]
          \/ h[i].phase = "Cancelled" /\ h[i - 1].phase \in {"Cancelled", "Invalidated"}
       /\ h[i].ballots = h[Len(h)].ballots
       /\ h[i].phase \in {"Closed", "Published"} => Cardinality(h[i].ballots) >= Threshold /\ time >= ClosesAt
       /\ h[i].phase = "Published" => \E p \in tallied : Last(p).ballots = h[i].ballots

(* What the rows of a database, or of its backup, say to each other.       *)
Truthful(p, accepted, h, time, tallied) ==
  /\ Genuine(h, time, tallied)
  /\ p = "None" <=> h = <<>>
  /\ p \in {"Scheduled", "Open"} => Len(h) = 1 /\ h[1].ballots \subseteq accepted
  /\ p \notin {"None", "Scheduled", "Open"} =>
       Len(h) > 1 /\ Last(h).phase = p /\ Last(h).ballots = accepted

HostHonest ==
  /\ Truthful(phase, cast, history, clock, published)
  /\ Truthful(backup.phase, backup.cast, backup.history, clock, published)

(* What somebody has of it, if anything; and how it ends.                  *)
Known(h, time, tallied) == h \notin {Nil, <<>>} => h \in Histories /\ Genuine(h, time, tallied)

Ends(h, p, time, tallied) == Known(h, time, tallied) /\ (h \notin {Nil, <<>>} => Last(h).phase = p)

HonestInv ==
  /\ HostHonest
  /\ \A r \in Runs : Known(run[r].final, clock, published) /\ run[r].final # <<>>
  /\ \A j \in Jobs : Known(job[j].audit, clock, published)
  /\ \A o \in Observers, k \in Kinds : Ends(copy[o][k], "Published", clock, published)

(* It stays so.                                                            *)
LEMMA GenuineStays ==
  ASSUME NEW h, NEW t \in Nat, NEW u \in Nat, NEW P, NEW Q, t <= u, P \subseteq Q, Genuine(h, t, P)
  PROVE  Genuine(h, u, Q)
<1>1. t >= ClosesAt => u >= ClosesAt
  BY HostingAssumption DEF HostingAssumption
<1>2. QED
  BY <1>1 DEF Genuine

LEMMA TruthfulStays ==
  ASSUME NEW p, NEW c, NEW h, NEW t \in Nat, NEW u \in Nat, NEW P, NEW Q, t <= u, P \subseteq Q,
         Truthful(p, c, h, t, P)
  PROVE  Truthful(p, c, h, u, Q)
BY GenuineStays DEF Truthful

LEMMA EndsStays ==
  ASSUME NEW t \in Nat, NEW u \in Nat, NEW P, NEW Q, t <= u, P \subseteq Q, NEW h
  PROVE  /\ Known(h, t, P) => Known(h, u, Q)
         /\ \A p : Ends(h, p, t, P) => Ends(h, p, u, Q)
BY GenuineStays DEF Ends, Known

(* One announcement more.                                                  *)
LEMMA GenuineAppend ==
  ASSUME NEW h \in Histories, NEW a \in [phase : States, ballots : SUBSET Ballots], NEW t, NEW P,
         Genuine(h, t, P), h # <<>>,
         a.phase \notin {"Scheduled", "Open"},
         \/ a.phase \in Transitions[Last(h).phase]
         \/ a.phase = "Cancelled" /\ Last(h).phase \in {"Cancelled", "Invalidated"},
         h[1].ballots \subseteq a.ballots,
         Len(h) > 1 => Last(h).ballots = a.ballots,
         a.phase \in {"Closed", "Published"} => Cardinality(a.ballots) >= Threshold /\ t >= ClosesAt,
         a.phase = "Published" => \E p \in P : Last(p).ballots = a.ballots
  PROVE  Genuine(Append(h, a), t, P) /\ Len(Append(h, a)) > 1
<1> DEFINE g == Append(h, a)
           n == Len(h)
<1>1. /\ n \in Nat /\ n > 0 /\ Len(g) = n + 1 /\ g[n + 1] = a
      /\ \A i \in 1 .. n : g[i] = h[i]
  BY DEF Histories
<1> HIDE DEF g, n
<1>2. g[1] = h[1]
  BY <1>1
<1>3. ASSUME NEW i \in 1 .. n + 1
      PROVE  /\ g[i].phase # "Open"
             /\ g[i].phase = "Scheduled" <=> i = 1
             /\ g[1].ballots \subseteq g[i].ballots
  <2>1. CASE i \in 1 .. n
    BY <1>1, <1>2, <2>1 DEF Genuine, n
  <2>2. CASE i = n + 1
    BY <1>1, <1>2, <2>2
  <2>3. QED
    BY <1>1, <2>1, <2>2
<1>4. ASSUME NEW i \in 2 .. n + 1
      PROVE  /\ \/ g[i].phase \in Transitions[g[i - 1].phase]
                \/ g[i].phase = "Cancelled" /\ g[i - 1].phase \in {"Cancelled", "Invalidated"}
             /\ g[i].ballots = a.ballots
             /\ g[i].phase \in {"Closed", "Published"} => Cardinality(g[i].ballots) >= Threshold /\ t >= ClosesAt
             /\ g[i].phase = "Published" => \E p \in P : Last(p).ballots = g[i].ballots
  <2>1. CASE i \in 2 .. n
    <3>1. g[i] = h[i] /\ g[i - 1] = h[i - 1] /\ n > 1
      BY <1>1, <2>1
    <3>2. h[i].ballots = Last(h).ballots /\ Last(h).ballots = a.ballots
      BY <2>1, <3>1 DEF Genuine, Last, n
    <3>3. QED
      BY <2>1, <3>1, <3>2 DEF Genuine, n
  <2>2. CASE i = n + 1
    <3>1. g[i] = a /\ g[i - 1] = Last(h)
      BY <1>1, <2>2 DEF Last, n
    <3>2. QED
      BY <3>1
  <2>3. QED
    BY <1>1, <2>1, <2>2
<1>5. Genuine(g, t, P)
  BY <1>1, <1>3, <1>4 DEF Genuine
<1>6. QED
  BY <1>1, <1>5 DEF g

(* A step of the lifecycle is announced truthfully.                        *)
LEMMA AnnounceHonest ==
  ASSUME TrusteeInv, Truthful(phase, cast, history, clock, published),
         Schedule \/ Close \/ Withdraw \/ Invalidate \/ Publish,
         NEW P, published \subseteq P, Publish => \E p \in P : Last(p).ballots = cast
  PROVE  Truthful(phase', cast', history', clock, P) /\ clock' = clock
<1> DEFINE a == [phase |-> phase', ballots |-> cast]
<1>1. history' = Append(history, a) /\ cast' = cast /\ clock' = clock /\ phase' \in States /\ phase' # "Open"
  BY DEF Schedule, Close, Withdraw, Invalidate, Publish, Announce, States
<1>2. a \in [phase : States, ballots : SUBSET Ballots] /\ a.phase = phase' /\ a.ballots = cast
  BY <1>1, HostTypes
<1> HIDE DEF a
<1>3. history' \in Histories /\ Last(history') = a
  BY <1>1, <1>2, HostTypes, AppendExtends
<1>4. Genuine(history, clock, P) /\ clock \in Nat
  BY HostTypes, GenuineStays DEF Truthful
<1>5. CASE Schedule
  <2>1. history = <<>> /\ phase' = "Scheduled"
    BY <1>5 DEF Schedule, Announce, Truthful
  <2>2. Len(history') = 1 /\ history'[1] = a /\ history' # <<>>
    BY <1>1, <2>1
  <2>3. Genuine(history', clock, P)
    BY <1>2, <2>1, <2>2 DEF Genuine
  <2>4. QED
    BY <1>1, <1>2, <2>1, <2>2, <2>3 DEF Truthful
<1>6. CASE Close \/ Withdraw \/ Invalidate \/ Publish
  <2>1. phase # "None" /\ phase' \notin {"None", "Scheduled", "Open"}
    BY <1>6 DEF Close, Withdraw, Invalidate, Publish, Announce
  <2>2. history # <<>> /\ history[1].ballots \subseteq cast /\ (Len(history) > 1 => Last(history).ballots = cast)
    <3>1. CASE phase \in {"Scheduled", "Open"}
      <4>1. Len(history) = 1 /\ history[1].ballots \subseteq cast
        BY <3>1 DEF Truthful
      <4>2. history # <<>>
        BY <2>1 DEF Truthful
      <4>3. QED
        BY <4>1, <4>2
    <3>2. CASE phase \notin {"Scheduled", "Open"}
      <4>1. history # <<>> /\ Len(history) > 1 /\ Last(history).ballots = cast
        BY <2>1, <3>2 DEF Truthful
      <4>2. Len(history) \in 1 .. Len(history)
        BY <4>1, HostTypes DEF Histories
      <4>3. history[1].ballots \subseteq Last(history).ballots
        BY <4>2 DEF Truthful, Genuine, Last
      <4>4. QED
        BY <4>1, <4>3
    <3>3. QED
      BY <3>1, <3>2
  <2>3. Last(history).phase = IF phase = "Open" THEN "Scheduled" ELSE phase
    <3>1. CASE phase \in {"Scheduled", "Open"}
      <4>1. Len(history) = 1
        BY <3>1 DEF Truthful
      <4>2. history[1].phase = "Scheduled"
        BY <4>1 DEF Truthful, Genuine
      <4>3. QED
        BY <3>1, <4>1, <4>2 DEF Last
    <3>2. CASE phase \notin {"Scheduled", "Open"}
      BY <2>1, <3>2 DEF Truthful
    <3>3. QED
      BY <3>1, <3>2
  <2>4. \/ phase' \in Transitions[Last(history).phase]
        \/ phase' = "Cancelled" /\ Last(history).phase \in {"Cancelled", "Invalidated"}
    <3>1. phase \in States
      BY <2>1, HostTypes DEF Phases
    <3>2. QED
      BY <1>6, <2>3, <3>1 DEF Close, Withdraw, Invalidate, Publish, Announce, Transitions, States
  <2>5. Cardinality(cast) \in Nat /\ Threshold \in Nat /\ ClosesAt \in Nat
    BY HostTypes, HostingAssumption, FS_Subset, FS_CardinalityType DEF HostingAssumption
  <2>6. phase' \in {"Closed", "Published"} => Cardinality(cast) >= Threshold /\ clock >= ClosesAt
    <3>1. CASE Close
      BY <2>5, <3>1 DEF Close, Announce
    <3>2. CASE Publish
      <4>1. phase = "Closed" /\ Cardinality(cast) >= Threshold
        BY <3>2 DEF Publish
      <4>2. Len(history) > 1 /\ Last(history).phase = "Closed" /\ Len(history) \in 2 .. Len(history)
        BY <4>1, HostTypes DEF Truthful, Histories
      <4>3. clock >= ClosesAt
        BY <4>2 DEF Truthful, Genuine, Last
      <4>4. QED
        BY <4>1, <4>3
    <3>3. CASE Withdraw \/ Invalidate
      BY <3>3 DEF Withdraw, Invalidate, Announce
    <3>4. QED
      BY <1>6, <3>1, <3>2, <3>3
  <2>7. phase' = "Published" => \E p \in P : Last(p).ballots = cast
    BY <1>6 DEF Close, Withdraw, Invalidate, Announce
  <2>8. Genuine(history', clock, P) /\ Len(history') > 1
    BY <1>1, <1>2, <1>4, <2>1, <2>2, <2>4, <2>6, <2>7, HostTypes, GenuineAppend
  <2>9. history' # <<>>
    BY <2>8
  <2>10. QED
    BY <1>1, <1>2, <1>3, <2>1, <2>8, <2>9 DEF Truthful
<1>7. QED
  BY <1>5, <1>6

LEMMA HostHonestInit == HostInit => HostHonest
<1> SUFFICES ASSUME HostInit PROVE HostHonest
  OBVIOUS
<1>1. phase = "None" /\ history = <<>> /\ backup.phase = "None" /\ backup.history = <<>>
  BY DatabaseFields DEF HostInit, Init
<1>2. Genuine(<<>>, clock, published)
  BY DEF Genuine
<1>3. QED
  BY <1>1, <1>2 DEF HostHonest, Truthful

(* Whatever the host does, its rows and those of its backup stay truthful, *)
(* and what was genuine stays so.                                          *)
LEMMA HostStaysHonest ==
  ASSUME TrusteeInv, TrusteeInv', HostHonest, HostNext
  PROVE  HostHonest' /\ clock <= clock' /\ published \subseteq published'
<1>1. clock \in Nat
  BY HostTypes
<1>2. CASE Serve \/ PublishTally
  <2>1. UNCHANGED backup
    BY <1>2 DEF Serve, PublishTally
  <2>2. CASE Schedule \/ Close \/ Withdraw \/ Invalidate \/ Publish
    <3>1. published \subseteq published' /\ (Publish => history \in published')
      BY <1>2, <2>2 DEF Serve, PublishTally, Schedule, Close, Withdraw, Invalidate, Publish, Announce, Cast, Tick
    <3>2. Publish => Last(history).ballots = cast
      BY DEF Publish, HostHonest, Truthful
    <3>3. Truthful(phase', cast', history', clock, published') /\ clock' = clock
      BY <2>2, <3>1, <3>2, AnnounceHonest DEF HostHonest
    <3>4. Truthful(backup.phase, backup.cast, backup.history, clock, published')
      BY <1>1, <3>1, TruthfulStays DEF HostHonest
    <3>5. QED
      BY <1>1, <2>1, <3>1, <3>3, <3>4 DEF HostHonest
  <2>3. ASSUME NEW b \in Ballots, Cast(b), Serve PROVE HostHonest' /\ clock <= clock' /\ published \subseteq published'
    <3>1. /\ phase \in {"Scheduled", "Open"} /\ phase' = "Open" /\ cast \subseteq cast'
          /\ UNCHANGED <<clock, history, published>>
      BY <2>3 DEF Cast, Serve
    <3>2. Len(history) = 1 /\ history[1].ballots \subseteq cast /\ history # <<>> /\ Genuine(history, clock, published)
      BY <3>1 DEF HostHonest, Truthful
    <3>3. Truthful(phase', cast', history', clock', published')
      BY <3>1, <3>2 DEF Truthful
    <3>4. QED
      BY <1>1, <2>1, <3>1, <3>3 DEF HostHonest
  <2>4. CASE Tick /\ Serve
    <3>1. clock' = clock + 1 /\ UNCHANGED <<phase, cast, history, published>>
      BY <2>4 DEF Tick, Serve
    <3>2. clock' \in Nat /\ clock <= clock'
      BY <1>1, <3>1
    <3>3. QED
      BY <1>1, <2>1, <3>1, <3>2, TruthfulStays DEF HostHonest
  <2>5. QED
    BY <1>2, <2>2, <2>3, <2>4 DEF Serve, PublishTally
<1>3. CASE Show \/ Hide
  BY <1>1, <1>3 DEF Show, Hide, HostHonest, vars
<1>4. CASE Backup
  <2>1. UNCHANGED <<vars, published>> /\ backup' = Database
    BY <1>4 DEF Backup
  <2>2. backup'.phase = phase /\ backup'.cast = cast /\ backup'.history = history
    BY <2>1, DatabaseFields
  <2>3. QED
    BY <1>1, <2>1, <2>2 DEF HostHonest, vars
<1>5. CASE Restore
  BY <1>1, <1>5 DEF Restore, HostHonest
<1>6. QED
  BY <1>2, <1>3, <1>4, <1>5 DEF HostNext

(* A trustee's run has nothing but what the host has announced.            *)
LEMMA RunsFetch ==
  ASSUME TrusteeInv, TrusteeNext
  PROVE  \A r \in Runs : run'[r].final \in {run[r].final, Nil} \/ (phase # "None" /\ run'[r].final = history)
<1>1. ASSUME NEW q \in Runs, NEW x, run' = [run EXCEPT ![q] = x],
             x.final \in {run[q].final, Nil} \/ (phase # "None" /\ x.final = history)
      PROVE  \A r \in Runs : run'[r].final \in {run[r].final, Nil} \/ (phase # "None" /\ run'[r].final = history)
  BY <1>1 DEF TrusteeInv, TrusteeType
<1>2. PICK q \in Runs :
        \/ \E t \in Trustees : Fetch(q, t)
        \/ FetchCheckpoints(q) \/ ReadPrior(q) \/ Verify(q) \/ Bind(q) \/ BindEnd(q)
        \/ ReadShare(q) \/ MakeShare(q) \/ Store(q) \/ StoreEnd(q) \/ Deliver(q) \/ Stop(q)
  BY DEF TrusteeNext
<1> DEFINE x == run'[q]
<1>3. run' = [run EXCEPT ![q] = x]
  BY <1>2 DEF TrusteeInv, TrusteeType, Fetch, FetchCheckpoints, ReadPrior, Verify, Bind, BindEnd, ReadShare, MakeShare,
              Store, StoreEnd, Deliver, Stop, Turn
<1>4. x.final \in {run[q].final, Nil} \/ (phase # "None" /\ x.final = history)
  <2>1. run[q] \in RunType /\ run \in [Runs -> RunType]
    BY DEF TrusteeInv, TrusteeType
  <2>2. CASE (\E t \in Trustees : Fetch(q, t)) \/ FetchCheckpoints(q)
    <3>1. CASE \E t \in Trustees : Fetch(q, t)
      BY <2>1, <3>1 DEF Fetch, Idle
    <3>2. CASE FetchCheckpoints(q)
      <4>1. run' = [run EXCEPT ![q] = [run[q] EXCEPT !.step = "fetched", !.final = history]] /\ phase # "None"
        BY <2>1, <3>2 DEF FetchCheckpoints
      <4>2. QED
        BY <2>1, <4>1 DEF RunType
    <3>3. QED
      BY <2>2, <3>1, <3>2
  <2>3. CASE ReadPrior(q) \/ Verify(q) \/ Bind(q) \/ BindEnd(q)
    BY <2>1, <2>3 DEF RunType, ReadPrior, Verify, Bind, BindEnd, Turn
  <2>4. CASE ReadShare(q) \/ MakeShare(q) \/ Store(q) \/ StoreEnd(q)
    BY <2>1, <2>4 DEF RunType, ReadShare, MakeShare, Store, StoreEnd, Turn
  <2>5. CASE Deliver(q) \/ Stop(q)
    BY <2>1, <2>5 DEF Deliver, Stop, Idle
  <2>6. QED
    BY <1>2, <2>2, <2>3, <2>4, <2>5
<1>5. QED
  BY <1>1, <1>3, <1>4

(* An observer's program has nothing but what the host has announced, and  *)
(* saves the audit of a published poll and nothing else.                   *)
PublishedAudits == {h \in {job[j].audit : j \in Jobs} : h # Nil /\ Last(h).phase = "Published"}

LEMMA JobsRead ==
  ASSUME TrusteeInv, ObserverInv, ObserverNext
  PROVE  /\ \A j \in Jobs : job'[j].audit \in {job[j].audit, Nil} \/ (phase # "None" /\ job'[j].audit = history)
         /\ \A o \in Observers, k \in Kinds :
              copy'[o][k] \in {copy[o][k], Nil, <<>>} \cup PublishedAudits
<1> DEFINE Audits == \A j \in Jobs :
             job'[j].audit \in {job[j].audit, Nil} \/ (phase # "None" /\ job'[j].audit = history)
           Copies == \A o \in Observers, k \in Kinds :
             copy'[o][k] \in {copy[o][k], Nil, <<>>} \cup PublishedAudits
<1>1. /\ job \in [Jobs -> JobType] /\ copy \in [Observers -> [Kinds -> Histories \cup {Nil}]]
      /\ \A j \in Jobs : job[j] \in JobType
  BY DEF ObserverInv, ObserverType
<1>2. ASSUME NEW i \in Jobs, NEW x, job' = [job EXCEPT ![i] = x],
             x.audit \in {job[i].audit, Nil} \/ (phase # "None" /\ x.audit = history)
      PROVE  Audits
  BY <1>1, <1>2
<1>3. UNCHANGED copy => Copies
  OBVIOUS
<1>4. UNCHANGED job => Audits
  OBVIOUS
<1>5. ASSUME NEW o \in Observers, NEW k \in Kinds, NEW h, copy' = [copy EXCEPT ![o][k] = h],
             h \in {Nil, <<>>} \cup PublishedAudits
      PROVE  Copies
  BY <1>1, <1>5
<1> HIDE DEF Audits, Copies
<1>6. ASSUME NEW o \in Observers,
             (\E b \in Ballots : Retain(o, b) \/ Forget(o, b)) \/ (\E p \in Observers : Compare(o, p))
      PROVE  Audits /\ Copies
  BY <1>3, <1>4, <1>6 DEF Retain, Forget, Compare, outputs
<1>7. ASSUME NEW j \in Jobs, (\E o \in Observers : Start(j, o) \/ StartMirror(j, o)) \/ Configure(j)
      PROVE  Audits /\ Copies
  <2>1. ASSUME NEW o, NEW action, ReadConfig(j, o, action) PROVE Audits
    <3> DEFINE x == [Resting EXCEPT !.step = FirstStep[action], !.observer = o, !.action = action,
                                    !.receipts = kept[o], !.left = kept[o], !.since = restores]
    <3>1. job' = [job EXCEPT ![j] = x] /\ x.audit = Nil
      BY <2>1 DEF ReadConfig, Resting
    <3> HIDE DEF x
    <3>2. QED
      BY <1>2, <3>1
  <2>2. CASE (\E o \in Observers : Start(j, o)) \/ Configure(j)
    BY <1>3, <2>1, <2>2 DEF Start, Configure, outputs
  <2>3. ASSUME NEW o \in Observers, StartMirror(j, o) PROVE Audits /\ Copies
    <3> DEFINE x == [Resting EXCEPT !.step = "config", !.observer = o, !.action = "mirror"]
    <3>1. job' = [job EXCEPT ![j] = x] /\ x.audit = Nil
      BY <2>3 DEF StartMirror, Resting
    <3>2. copy' = [copy EXCEPT ![o]["mirror"] = <<>>]
      BY <2>3 DEF StartMirror
    <3> HIDE DEF x
    <3>3. QED
      BY <1>2, <1>5, <3>1, <3>2 DEF Kinds
  <2>4. QED
    BY <1>7, <2>2, <2>3
<1>8. ASSUME NEW j \in Jobs,
             \/ ReadFile(j) \/ ReadChain(j) \/ ReadPoll(j) \/ AskTracker(j)
             \/ ReadAudit(j) \/ ReadAuditCheckpoints(j) \/ ReadResult(j)
      PROVE  Audits /\ Copies
  <2>1. ASSUME NEW x, job' = [job EXCEPT ![j] = x], UNCHANGED copy,
               x.audit = job[j].audit \/ (phase # "None" /\ x.audit = history)
        PROVE  Audits /\ Copies
    BY <1>2, <1>3, <2>1
  <2>2. job[j] \in JobType
    BY <1>1
  <2>3. UNCHANGED copy
    BY <1>8 DEF ReadFile, ReadChain, ReadPoll, AskTracker, ReadAudit, ReadAuditCheckpoints, ReadResult, Read, outputs
  <2>4. CASE ReadFile(j)
    <3> DEFINE x == [job[j] EXCEPT !.step = "chain", !.prior = file[job[j].observer]]
    <3>1. job' = [job EXCEPT ![j] = x] /\ x.audit = job[j].audit
      BY <2>2, <2>4 DEF ReadFile, JobType
    <3> HIDE DEF x
    <3>2. QED
      BY <2>1, <2>3, <3>1
  <2>5. CASE ReadChain(j) \/ ReadPoll(j)
    <3> DEFINE x == [job[j] EXCEPT !.step = "poll", !.history = history]
               y == [job[j] EXCEPT !.step = "trackers", !.shown = visible]
    <3>1. job' = [job EXCEPT ![j] = x] \/ job' = [job EXCEPT ![j] = y]
      BY <2>5 DEF ReadChain, ReadPoll, Read
    <3>2. x.audit = job[j].audit /\ y.audit = job[j].audit
      BY <2>2 DEF JobType
    <3> HIDE DEF x, y
    <3>3. QED
      BY <2>1, <2>3, <3>1, <3>2
  <2>6. CASE AskTracker(j)
    <3>1. PICK b : Read(j, "trackers", [job[j] EXCEPT !.left = @ \ {b}, !.missing = (@ \/ b \notin cast)])
      BY <2>6 DEF AskTracker
    <3> DEFINE x == [job[j] EXCEPT !.left = @ \ {b}, !.missing = (@ \/ b \notin cast)]
    <3>2. job' = [job EXCEPT ![j] = x] /\ x.audit = job[j].audit
      BY <2>2, <3>1 DEF JobType, Read
    <3> HIDE DEF x
    <3>3. QED
      BY <2>1, <2>3, <3>2
  <2>7. CASE ReadAudit(j)
    <3> DEFINE row == [archive |-> Archive(Last(history)), result |-> outcome]
    <3> DEFINE x == [job[j] EXCEPT !.step = "checkpoints", !.row = row]
               y == [job[j] EXCEPT !.step = "inspect"]
    <3>1. job' = [job EXCEPT ![j] = x] \/ job' = [job EXCEPT ![j] = y]
      BY <2>7 DEF ReadAudit, Read
    <3> HIDE DEF row
    <3>2. x.audit = job[j].audit /\ y.audit = job[j].audit
      BY <2>2 DEF JobType
    <3> HIDE DEF x, y
    <3>3. QED
      BY <2>1, <2>3, <3>1, <3>2
  <2>8. CASE ReadAuditCheckpoints(j)
    <3> DEFINE x == [job[j] EXCEPT !.step = "result", !.audit = history]
    <3>1. job' = [job EXCEPT ![j] = x] /\ x.audit = history /\ phase # "None"
      BY <2>2, <2>8 DEF ReadAuditCheckpoints, Read, JobType
    <3> HIDE DEF x
    <3>2. QED
      BY <2>1, <2>3, <3>1
  <2>9. CASE ReadResult(j)
    <3> DEFINE agrees == outcome = job[j].row.result
    <3> DEFINE x == [job[j] EXCEPT !.step = "inspect", !.agrees = agrees]
    <3>1. job' = [job EXCEPT ![j] = x]
      BY <2>9 DEF ReadResult, Read
    <3> HIDE DEF agrees
    <3>2. x.audit = job[j].audit
      BY <2>2 DEF JobType
    <3> HIDE DEF x
    <3>3. QED
      BY <2>1, <2>3, <3>1, <3>2
  <2>10. QED
    BY <1>8, <2>4, <2>5, <2>6, <2>7, <2>8, <2>9
<1>9. ASSUME NEW j \in Jobs, NEW step, job' = [job EXCEPT ![j].step = step]
      PROVE  Audits
  <2> DEFINE x == [job[j] EXCEPT !.step = step]
  <2>1. job' = [job EXCEPT ![j] = x] /\ x.audit = job[j].audit
    BY <1>1, <1>9 DEF JobType
  <2> HIDE DEF x
  <2>2. QED
    BY <1>2, <2>1
<1>10. ASSUME NEW j \in Jobs, job' = [job EXCEPT ![j] = Resting]
       PROVE  Audits
  BY <1>2, <1>10 DEF Resting
<1>11. ASSUME NEW j \in Jobs, Alarm(j) \/ Fail(j) \/ Kill(j) \/ SaveCheck(j) \/ SaveInit(j) \/ Approve(j) \/ Lock(j)
       PROVE  Audits /\ Copies
  BY <1>3, <1>9, <1>10, <1>11 DEF Lock, Alarm, Fail, Kill, SaveCheck, SaveInit, Approve, Save, outputs
<1>12. ASSUME NEW j \in Jobs, End(j)
       PROVE  Audits /\ Copies
  <2>1. job[j].observer \in Observers
    BY <1>12 DEF End, ObserverInv, JobSound
  <2>2. UNCHANGED copy \/ copy' = [copy EXCEPT ![job[j].observer]["mirror"] = Nil]
    BY <1>12 DEF End
  <2>3. QED
    BY <1>3, <1>5, <1>10, <1>12, <2>1, <2>2 DEF End, Kinds
<1>13. ASSUME NEW j \in Jobs, SaveCopy(j)
       PROVE  Audits /\ Copies
  <2>1. job[j].observer \in Observers /\ job[j].action \in Kinds
    BY <1>13 DEF SaveCopy, ObserverInv, JobSound
  <2>2. /\ copy' = [copy EXCEPT ![job[j].observer][job[j].action] = job[j].audit]
        /\ job' = [job EXCEPT ![j].step = "saved"]
    BY <1>13 DEF SaveCopy, Save
  <2>3. job[j].audit \in PublishedAudits
    <3>1. job[j].audit = job[j].history /\ Last(job[j].history).phase = "Published"
      BY <1>13 DEF SaveCopy, Save, Passes, AuditFits, Announced
    <3>2. job[j].history # Nil
      BY <1>1, ObserverApart DEF JobType
    <3>3. QED
      BY <3>1, <3>2 DEF PublishedAudits
  <2>4. Copies
    BY <1>5, <2>1, <2>2, <2>3
  <2>5. QED
    BY <1>9, <2>2, <2>4
<1>14. QED
  BY <1>6, <1>7, <1>8, <1>11, <1>12, <1>13 DEF ObserverNext, Audits, Copies

LEMMA HonestInvariance == AuditorsSpec => []HonestInv
<1>1. AuditorsInit => HonestInv
  <2> SUFFICES ASSUME AuditorsInit PROVE HonestInv
    OBVIOUS
  <2>1. HostHonest
    BY HostHonestInit DEF AuditorsInit
  <2>2. /\ run = [r \in Runs |-> Idle] /\ Idle.final = Nil
        /\ job = [j \in Jobs |-> Resting] /\ Resting.audit = Nil
        /\ copy = [o \in Observers |-> [k \in Kinds |-> Nil]]
    BY DEF AuditorsInit, TrusteeInit, ObserverInit, Idle, Resting
  <2>3. Nil # <<>>
    <3>1. <<>> \in Histories
      BY DEF Histories
    <3>2. QED
      BY <3>1, Apart
  <2>4. QED
    BY <2>1, <2>2, <2>3 DEF HonestInv, Ends, Known
<1>2. TrusteeInv /\ TrusteeInv' /\ ObserverInv /\ HonestInv /\ [AuditorsNext]_allVars => HonestInv'
  <2> SUFFICES ASSUME TrusteeInv, TrusteeInv', ObserverInv, HonestInv, [AuditorsNext]_allVars PROVE HonestInv'
    OBVIOUS
  <2>1. clock \in Nat /\ clock' \in Nat /\ history \in Histories
    BY HostTypes DEF TrusteeInv, HostType
  <2>2. <<>> # Nil
    <3>1. <<>> \in Histories
      BY DEF Histories
    <3>2. QED
      BY <3>1, Apart
  <2>3. CASE HostNext /\ UNCHANGED <<trusteeVars, observerVars>>
    <3>1. HostHonest' /\ clock <= clock' /\ published \subseteq published'
      BY <2>3, HostStaysHonest DEF HonestInv
    <3>2. UNCHANGED <<run, job, copy>>
      BY <2>3 DEF trusteeVars, observerVars, outputs
    <3>3. \A h : /\ Known(h, clock, published) => Known(h, clock', published')
                 /\ \A p : Ends(h, p, clock, published) => Ends(h, p, clock', published')
      BY <2>1, <3>1, EndsStays
    <3>4. QED
      BY <3>1, <3>2, <3>3 DEF HonestInv
  <2>4. phase # "None" => Known(history, clock, published) /\ history # <<>>
    BY <2>1 DEF HonestInv, HostHonest, Truthful, Known
  <2>5. CASE TrusteeNext /\ UNCHANGED observerVars
    <3>1. UNCHANGED <<vars, backup, published>> /\ UNCHANGED <<job, copy>>
      BY <2>5, TrusteesKeepHost DEF observerVars, outputs
    <3>2. \A r \in Runs : run'[r].final \in {run[r].final, Nil} \/ (phase # "None" /\ run'[r].final = history)
      BY <2>5, RunsFetch
    <3>3. \A r \in Runs : Known(run'[r].final, clock, published) /\ run'[r].final # <<>>
      BY <2>2, <2>4, <3>2 DEF HonestInv, Known
    <3>4. QED
      BY <3>1, <3>3 DEF HonestInv, HostHonest, vars
  <2>6. CASE ObserverNext /\ UNCHANGED trusteeVars
    <3>1. UNCHANGED <<clock, phase, cast, history, backup, published, run>>
      BY <2>6, ObserversOnlyRead DEF hostVars, vars, trusteeVars
    <3>2. /\ \A j \in Jobs : job'[j].audit \in {job[j].audit, Nil} \/ (phase # "None" /\ job'[j].audit = history)
          /\ \A o \in Observers, k \in Kinds :
               copy'[o][k] \in {copy[o][k], Nil, <<>>} \cup PublishedAudits
      BY <2>6, JobsRead
    <3>3. \A j \in Jobs : Known(job'[j].audit, clock, published)
      BY <2>4, <3>2 DEF HonestInv, Known
    <3>4. \A h \in PublishedAudits : Ends(h, "Published", clock, published)
      BY DEF PublishedAudits, HonestInv, Ends
    <3>5. \A o \in Observers, k \in Kinds : Ends(copy'[o][k], "Published", clock, published)
      BY <3>2, <3>4 DEF HonestInv, Ends, Known
    <3>6. QED
      BY <3>1, <3>3, <3>5 DEF HonestInv, HostHonest
  <2>7. CASE UNCHANGED allVars
    BY <2>7 DEF allVars, hostVars, vars, trusteeVars, observerVars, outputs, HonestInv, HostHonest
  <2>8. QED
    BY <2>3, <2>5, <2>6, <2>7 DEF AuditorsNext
<1>3. QED
  BY <1>1, <1>2, TrusteeInvariance, ObserverInvariance, PTL DEF AuditorsSpec

-----------------------------------------------------------------------------
(* A final set is read in two requests of the database: its row and its    *)
(* checkpoints are of one state, or the poll was withdrawn, published or   *)
(* restored in between, and verifyFinal refuses it.                        *)
OneState(x) == Last(x.final).phase = "Closed" /\ x.archive = Archive(Last(x.final))

LeftClosed == {"Published", "Cancelled", "Invalidated"}

FetchSound(x) ==
  /\ x.step \notin {"idle", "fetching", "fetched", "verify"} => OneState(x)
  /\ restores = 0 =>
       /\ x.step = "fetching" =>
            phase \in LeftClosed \/ (phase = "Closed" /\ x.archive = Archive(Last(history)))
       /\ x.step \notin {"idle", "fetching"} => Last(x.final).phase \in LeftClosed \/ OneState(x)

FetchInv == \A r \in Runs : FetchSound(run[r])

(* verifyFinal lets nothing pass that is of two states.                    *)
LEMMA VerifiedOneState ==
  ASSUME TrusteeInv, NEW r \in Runs, Verify(r)
  PROVE  OneState(run[r])
<1> DEFINE h == run[r].final
           n == Len(h)
           chain == Envelopes(h)
<1>1. h \in Histories
  BY RunFacts DEF Verify, RunSound
<1>2. n \in Nat /\ ChainOf(h, chain)
  BY <1>1, EnvelopesAre DEF Histories
<1>3. /\ chain # <<>> /\ chain[Len(chain)].state = "Closed" /\ chain[Len(chain)].archive = run[r].archive
  BY DEF Verify, Verified, VerifyFinal, Fetched
<1> HIDE DEF chain
<1>4. Len(chain) = n /\ n # 0
  BY <1>2, <1>3 DEF ChainOf
<1>5. n \in 1 .. n
  BY <1>2, <1>4
<1>6. chain[n].state = h[n].phase /\ chain[n].archive = Archive(h[n])
  BY <1>2, <1>5 DEF ChainOf
<1>7. QED
  BY <1>3, <1>4, <1>6 DEF OneState, Last

(* A poll that is not restored does not come back to Closed.               *)
LEMMA HostKeepsFetched ==
  ASSUME TrusteeInv, FetchInv, HostNext, UNCHANGED run
  PROVE  FetchInv'
<1> SUFFICES ASSUME NEW r \in Runs PROVE FetchSound(run[r])'
  BY DEF FetchInv
<1>1. FetchSound(run[r])
  BY DEF FetchInv
<1>2. CASE restores' # 0
  BY <1>1, <1>2 DEF FetchSound, OneState
<1>3. CASE restores' = 0
  <2>1. ~Restore
    BY <1>3, HostTypes DEF Restore
  <2>2. restores = 0
    BY <1>3, <2>1 DEF HostNext, Serve, PublishTally, Show, Hide, Backup
  <2>3. CASE phase \notin LeftClosed \cup {"Closed"}
    <3>1. run[r].step # "fetching"
      BY <1>1, <2>2, <2>3 DEF FetchSound
    <3>2. QED
      BY <1>1, <2>2, <3>1 DEF FetchSound, OneState
  <2>4. CASE phase \in LeftClosed \cup {"Closed"}
    <3>1. phase' \in LeftClosed \/ UNCHANGED <<phase, history>>
      BY <2>1, <2>4 DEF LeftClosed, HostNext, Serve, PublishTally, Show, Hide, Backup, vars,
                        Schedule, Close, Withdraw, Invalidate, Publish, Announce, Cast, Tick
    <3>2. QED
      BY <1>1, <2>2, <3>1 DEF FetchSound, OneState
  <2>5. QED
    BY <2>3, <2>4
<1>4. QED
  BY <1>2, <1>3

LEMMA TrusteesKeepFetched ==
  ASSUME TrusteeInv, HonestInv, FetchInv, TrusteeNext
  PROVE  FetchInv'
<1>1. UNCHANGED <<phase, history, restores>> /\ run \in [Runs -> RunType]
  BY TrusteesKeepHost DEF vars, TrusteeInv, TrusteeType
<1>2. ASSUME NEW q \in Runs, NEW x, run' = [run EXCEPT ![q] = x], FetchSound(x)
      PROVE  FetchInv'
  <2> SUFFICES ASSUME NEW r \in Runs PROVE FetchSound(run[r])'
    BY DEF FetchInv
  <2>1. FetchSound(run'[r])
    BY <1>1, <1>2 DEF FetchInv
  <2>2. QED
    BY <1>1, <2>1 DEF FetchSound, OneState
<1>3. PICK q \in Runs :
        \/ \E t \in Trustees : Fetch(q, t)
        \/ FetchCheckpoints(q) \/ ReadPrior(q) \/ Verify(q) \/ Bind(q) \/ BindEnd(q)
        \/ ReadShare(q) \/ MakeShare(q) \/ Store(q) \/ StoreEnd(q) \/ Deliver(q) \/ Stop(q)
  BY DEF TrusteeNext
<1>4. run[q] \in RunType /\ FetchSound(run[q])
  BY <1>1 DEF FetchInv
<1>5. ASSUME NEW t \in Trustees, Fetch(q, t) PROVE FetchInv'
  <2> DEFINE x == [Idle EXCEPT !.step = "fetching", !.trustee = t, !.archive = FinalSet(history).archive]
  <2>1. run' = [run EXCEPT ![q] = x] /\ phase = "Closed"
    BY <1>5 DEF Fetch
  <2>2. x.step = "fetching" /\ x.archive = Archive(Last(history))
    BY DEF Idle, FinalSet, Last
  <2> HIDE DEF x
  <2>3. FetchSound(x)
    BY <2>1, <2>2 DEF FetchSound
  <2>4. QED
    BY <1>2, <2>1, <2>3
<1>6. CASE FetchCheckpoints(q)
  <2> DEFINE x == [run[q] EXCEPT !.step = "fetched", !.final = history]
  <2>1. run' = [run EXCEPT ![q] = x] /\ phase # "None" /\ run[q].step = "fetching"
    BY <1>1, <1>6 DEF FetchCheckpoints
  <2>2. x.step = "fetched" /\ x.final = history /\ x.archive = run[q].archive
    BY <1>4 DEF RunType
  <2> HIDE DEF x
  <2>3. phase \in LeftClosed \cup {"Closed"} => Last(history).phase = phase
    BY DEF LeftClosed, HonestInv, HostHonest, Truthful
  <2>4. FetchSound(x)
    BY <1>4, <2>1, <2>2, <2>3 DEF FetchSound, OneState
  <2>5. QED
    BY <1>2, <2>1, <2>4
<1>7. ASSUME NEW x, run' = [run EXCEPT ![q] = x], x.archive = run[q].archive, x.final = run[q].final,
             x.step # "fetching", run[q].step \notin {"idle", "fetching"},
             x.step \in {"fetched", "verify"} \/ OneState(run[q])
      PROVE  FetchInv'
  <2>1. FetchSound(x)
    BY <1>4, <1>7 DEF FetchSound, OneState
  <2>2. QED
    BY <1>2, <1>7, <2>1
<1>8. CASE ReadPrior(q)
  <2> DEFINE x == [run[q] EXCEPT !.step = "verify", !.prior = bound[run[q].trustee]]
  <2>1. run' = [run EXCEPT ![q] = x] /\ run[q].step = "fetched"
    BY <1>1, <1>8 DEF ReadPrior
  <2>2. x.step = "verify" /\ x.archive = run[q].archive /\ x.final = run[q].final
    BY <1>4 DEF RunType
  <2> HIDE DEF x
  <2>3. QED
    BY <1>7, <2>1, <2>2
<1>9. ASSUME NEW step, step # "fetching", Turn(q, step), OneState(run[q]), run[q].step \notin {"idle", "fetching"}
      PROVE  FetchInv'
  <2> DEFINE x == [run[q] EXCEPT !.step = step]
  <2>1. run' = [run EXCEPT ![q] = x]
    BY <1>1, <1>9 DEF Turn
  <2>2. x.step = step /\ x.archive = run[q].archive /\ x.final = run[q].final
    BY <1>4 DEF RunType
  <2> HIDE DEF x
  <2>3. QED
    BY <1>7, <1>9, <2>1, <2>2
<1>10. CASE Verify(q)
  <2>1. Turn(q, "bind") /\ OneState(run[q]) /\ run[q].step = "verify"
    BY <1>10, VerifiedOneState DEF Verify
  <2>2. QED
    BY <1>9, <2>1
<1>11. CASE Bind(q) \/ BindEnd(q) \/ Store(q) \/ StoreEnd(q)
  <2>1. run[q].step \in {"bind", "binding", "made", "storing"}
    BY <1>11 DEF Bind, BindEnd, Store, StoreEnd
  <2>2. OneState(run[q])
    BY <1>4, <2>1 DEF FetchSound
  <2>3. Turn(q, "binding") \/ Turn(q, "bound") \/ Turn(q, "storing") \/ Turn(q, "ready")
    BY <1>11 DEF Bind, BindEnd, Store, StoreEnd
  <2>4. QED
    BY <1>9, <2>1, <2>2, <2>3
<1>12. CASE ReadShare(q) \/ MakeShare(q)
  <2>1. run[q].step = "bound"
    BY <1>12 DEF ReadShare, MakeShare
  <2>2. OneState(run[q])
    BY <1>4, <2>1 DEF FetchSound
  <2>3. PICK step \in {"ready", "made"}, s \in Shares \cup {Nil, Partial} :
          run' = [run EXCEPT ![q] = [run[q] EXCEPT !.step = step, !.share = s]]
    <3>1. run[q].trustee \in Trustees /\ run[q].final \in Histories
      BY <2>1, RunFacts DEF RunSound
    <3>2. share[run[q].trustee] \in Shares \cup {Nil, Partial}
      BY <3>1 DEF TrusteeInv, TrusteeType
    <3>3. \A salt \in Salts : [final |-> run[q].final, salt |-> salt] \in Shares
      BY <3>1 DEF Shares
    <3>4. QED
      BY <1>1, <1>12, <3>2, <3>3 DEF ReadShare, MakeShare
  <2> DEFINE x == [run[q] EXCEPT !.step = step, !.share = s]
  <2>4. x.step = step /\ x.archive = run[q].archive /\ x.final = run[q].final
    BY <1>4 DEF RunType
  <2>5. run' = [run EXCEPT ![q] = x]
    BY <2>3
  <2> HIDE DEF x
  <2>6. QED
    BY <1>7, <2>1, <2>2, <2>4, <2>5
<1>13. CASE Deliver(q) \/ Stop(q)
  <2>1. run' = [run EXCEPT ![q] = Idle]
    BY <1>13 DEF Deliver, Stop
  <2>2. FetchSound(Idle)
    BY DEF FetchSound, Idle
  <2>3. QED
    BY <1>2, <2>1, <2>2
<1>14. QED
  BY <1>3, <1>5, <1>6, <1>8, <1>10, <1>11, <1>12, <1>13

LEMMA FetchInvariance == AuditorsSpec => []FetchInv
<1>1. AuditorsInit => FetchInv
  <2> SUFFICES ASSUME AuditorsInit PROVE FetchInv
    OBVIOUS
  <2>1. \A r \in Runs : run[r].step = "idle"
    BY IdleSound DEF AuditorsInit, TrusteeInit
  <2>2. QED
    BY <2>1 DEF FetchInv, FetchSound
<1>2. TrusteeInv /\ HonestInv /\ FetchInv /\ [AuditorsNext]_allVars => FetchInv'
  <2> SUFFICES ASSUME TrusteeInv, HonestInv, FetchInv, [AuditorsNext]_allVars PROVE FetchInv'
    OBVIOUS
  <2>1. CASE HostNext /\ UNCHANGED <<trusteeVars, observerVars>>
    BY <2>1, HostKeepsFetched DEF trusteeVars
  <2>2. CASE TrusteeNext /\ UNCHANGED observerVars
    BY <2>2, TrusteesKeepFetched
  <2>3. ASSUME UNCHANGED <<hostVars, run>> PROVE FetchInv'
    BY <2>3 DEF hostVars, vars, FetchInv, FetchSound, OneState
  <2>4. CASE ObserverNext /\ UNCHANGED trusteeVars
    BY <2>3, <2>4, ObserversOnlyRead DEF trusteeVars
  <2>5. CASE UNCHANGED allVars
    BY <2>3, <2>5 DEF allVars, trusteeVars
  <2>6. QED
    BY <2>1, <2>2, <2>4, <2>5 DEF AuditorsNext
<1>3. QED
  BY <1>1, <1>2, TrusteeInvariance, HonestInvariance, PTL DEF AuditorsSpec

-----------------------------------------------------------------------------
(* What a genuine history proves to those who check it.                    *)
LEMMA GenuineLinked ==
  ASSUME NEW h \in Histories, NEW t, NEW P, Genuine(h, t, P), h # <<>>
  PROVE  /\ ChainOf(h, Envelopes(h)) /\ VerifyChain(Envelopes(h)) /\ Envelopes(h) # <<>>
         /\ Len(h) \in Nat /\ Len(h) > 0
<1>1. Len(h) \in Nat /\ Len(h) > 0
  BY DEF Histories
<1>2. ASSUME NEW i \in 2 .. Len(h) PROVE h[i - 1].ballots \subseteq h[i].ballots
  <2>1. CASE i = 2
    BY <1>1, <2>1 DEF Genuine
  <2>2. CASE i # 2
    <3>1. i - 1 \in 2 .. Len(h)
      BY <2>2
    <3>2. QED
      BY <3>1 DEF Genuine
  <2>3. QED
    BY <2>1, <2>2
<1>3. ChainOf(h, Envelopes(h)) /\ VerifyChain(Envelopes(h))
  BY <1>1, <1>2, EnvelopesAre, EnvelopesVerify
<1>4. Envelopes(h) # <<>>
  <2>1. Len(Envelopes(h)) > 0
    BY <1>1, <1>3 DEF ChainOf
  <2>2. QED
    BY <2>1
<1>5. QED
  BY <1>1, <1>3, <1>4

LEMMA FinalSetConvinces ==
  ASSUME NEW h \in Histories, NEW t, NEW P, Genuine(h, t, P), h # <<>>, Last(h).phase = "Closed"
  PROVE  VerifyFinal(FinalSet(h), Threshold, t >= ClosesAt)
<1> DEFINE n == Len(h)
           final == FinalSet(h)
<1>1. ChainOf(h, Envelopes(h)) /\ VerifyChain(Envelopes(h)) /\ Envelopes(h) # <<>> /\ n \in Nat /\ n > 0
  BY GenuineLinked
<1>2. n \in 2 .. n
  <2>1. n \in 1 .. n
    BY <1>1
  <2>2. n # 1
    BY <2>1 DEF Genuine, Last
  <2> HIDE DEF n
  <2>3. QED
    BY <1>1, <2>1, <2>2
<1>3. Cardinality(h[n].ballots) >= Threshold /\ t >= ClosesAt
  BY <1>2 DEF Genuine, Last
<1>4. final.archive = Archive(h[n]) /\ final.checkpoints = Envelopes(h)
  BY DEF FinalSet
<1>5. Archive(h[n]).stage = "ended" /\ Archive(h[n]).ballots = h[n].ballots
  BY DEF Archive, Stage, Last
<1>6. /\ Len(Envelopes(h)) = n /\ Envelopes(h)[n].archive = Archive(h[n])
      /\ Envelopes(h)[n].state = "Closed" /\ Envelopes(h)[n].receipts = h[n].ballots
  BY <1>1, <1>2 DEF ChainOf, Last
<1>7. QED
  BY <1>1, <1>3, <1>4, <1>5, <1>6 DEF VerifyFinal

(* As HistoryVerifiableIfWithdrawnOnce says of the service.                *)
OnceWithdrawn(h) ==
  \A i \in 2 .. Len(h) : h[i].phase = "Cancelled" => h[i - 1].phase \notin {"Cancelled", "Invalidated"}

LEMMA ChainConvinces ==
  ASSUME NEW h \in Histories, NEW t, NEW P, Genuine(h, t, P), h # <<>>, OnceWithdrawn(h)
  PROVE  ObserverChain(Envelopes(h))
<1> DEFINE n == Len(h)
           chain == Envelopes(h)
<1>1. ChainOf(h, chain) /\ VerifyChain(chain) /\ chain # <<>> /\ n \in Nat /\ n > 0
  BY GenuineLinked
<1> HIDE DEF chain
<1>2. /\ Len(chain) = n /\ DOMAIN chain = 1 .. n
      /\ \A i \in 1 .. n : chain[i].state = h[i].phase /\ chain[i].receipts = h[i].ballots
  BY <1>1 DEF ChainOf
<1>3. chain[1].state = "Scheduled"
  <2>1. 1 \in 1 .. n
    BY <1>1
  <2>2. QED
    BY <1>2, <2>1 DEF Genuine
<1>4. ASSUME NEW i \in 2 .. n PROVE chain[i].state \in Transitions[chain[i - 1].state]
  <2>1. i \in 1 .. n /\ i - 1 \in 1 .. n
    BY <1>1
  <2>2. h[i].phase \in Transitions[h[i - 1].phase]
    BY DEF Genuine, OnceWithdrawn
  <2>3. QED
    BY <1>2, <2>1, <2>2
<1>5. ASSUME NEW i \in 1 .. n, NEW j \in 1 .. n, i < j, chain[i].state \in {"Closed", "ResultsSuppressed", "Cancelled"}
      PROVE  chain[j].receipts = chain[i].receipts
  <2>1. i # 1
    BY <1>2, <1>5 DEF Genuine
  <2>2. i \in 2 .. n /\ j \in 2 .. n
    BY <1>1, <1>5, <2>1
  <2>3. h[i].ballots = h[n].ballots /\ h[j].ballots = h[n].ballots
    BY <2>2 DEF Genuine
  <2>4. QED
    BY <1>2, <2>3
<1>6. ObserverChain(chain)
  BY <1>1, <1>2, <1>3, <1>4, <1>5 DEF ObserverChain
<1>7. QED
  BY <1>6 DEF chain

(* A published poll was scheduled, closed and published, and nothing else. *)
LEMMA PublishedLast ==
  ASSUME NEW h \in Histories, NEW t, NEW P, Genuine(h, t, P), h # <<>>, Last(h).phase = "Published"
  PROVE  Len(h) = 3 /\ h[2].phase = "Closed" /\ h[3].phase = "Published"
<1>1. PICK n \in Nat : n = Len(h) /\ n > 0
  BY DEF Histories
<1>2. h[n].phase = "Published"
  BY <1>1 DEF Last
<1>3. n # 1
  BY <1>1, <1>2 DEF Genuine
<1>4. n \in 2 .. n /\ n - 1 \in 1 .. n
  BY <1>1, <1>3
<1>5. \A i \in 1 .. n : h[i].phase \in States
  <2> DEFINE E == [phase : States, ballots : SUBSET Ballots]
  <2>1. h \in Seq(E)
    BY DEF Histories
  <2>2. ASSUME NEW i \in 1 .. n PROVE h[i] \in E
    <3> HIDE DEF E
    <3>1. QED
      BY <1>1, <2>1, <2>2
  <2>3. QED
    BY <2>2
<1>6. h[n].phase \in Transitions[h[n - 1].phase]
  BY <1>1, <1>2, <1>4 DEF Genuine
<1>7. h[n - 1].phase = "Closed"
  BY <1>2, <1>4, <1>5, <1>6 DEF Transitions, States
<1>8. n - 1 # 1
  BY <1>1, <1>4, <1>7 DEF Genuine
<1>9. n - 1 \in 2 .. n /\ n - 2 \in 1 .. n /\ n - 1 - 1 = n - 2
  BY <1>4, <1>8
<1>10. h[n - 1].phase \in Transitions[h[n - 2].phase]
  BY <1>1, <1>7, <1>9 DEF Genuine
<1>11. h[n - 2].phase \in {"Scheduled", "Open"}
  BY <1>5, <1>7, <1>9, <1>10 DEF Transitions, States
<1>12. n - 2 = 1
  BY <1>1, <1>9, <1>11 DEF Genuine
<1>13. n = 3 /\ n - 1 = 2
  <2>1. \A i \in Nat : i - 2 = 1 => i = 3 /\ i - 1 = 2
    OBVIOUS
  <2>2. QED
    BY <1>12, <2>1
<1>14. QED
  BY <1>1, <1>2, <1>7, <1>13

LEMMA AuditConvinces ==
  ASSUME NEW h \in Histories, NEW t, NEW P, Genuine(h, t, P), h # <<>>, Last(h).phase = "Published"
  PROVE  VerifyPublicAudit(Audit(h), Threshold, t >= ClosesAt)
<1> DEFINE audit == Audit(h)
<1>1. Len(h) = 3 /\ h[2].phase = "Closed" /\ h[3].phase = "Published"
  BY PublishedLast
<1>2. OnceWithdrawn(h)
  <2>1. \A i \in 2 .. Len(h) : i = 2 \/ i = 3
    BY <1>1
  <2>2. QED
    BY <1>1, <2>1 DEF OnceWithdrawn
<1>3. ObserverChain(Envelopes(h))
  BY <1>2, ChainConvinces
<1>4. Cardinality(h[3].ballots) >= Threshold /\ t >= ClosesAt
  <2>1. 3 \in 2 .. Len(h)
    BY <1>1
  <2>2. QED
    BY <1>1, <2>1 DEF Genuine
<1>5. audit.archive = Archive(h[3]) /\ audit.checkpoints = Envelopes(h) /\ audit.result = Cardinality(h[3].ballots)
  BY <1>1 DEF Audit
<1>6. Archive(h[3]).stage = "tallied" /\ Archive(h[3]).ballots = h[3].ballots
  BY <1>1 DEF Archive, Stage
<1>7. /\ Len(Envelopes(h)) = 3 /\ Envelopes(h)[3].archive = Archive(h[3])
      /\ Envelopes(h)[3].state = "Published" /\ Envelopes(h)[3].receipts = h[3].ballots
  <2>1. ChainOf(h, Envelopes(h)) /\ 3 \in 1 .. Len(h)
    BY <1>1, GenuineLinked
  <2>2. QED
    BY <1>1, <2>1 DEF ChainOf
<1>8. QED
  BY <1>3, <1>4, <1>5, <1>6, <1>7 DEF VerifyPublicAudit

-----------------------------------------------------------------------------
(* No trustee is kept from decrypting by a check that an honest host       *)
(* fails.  What the service holds of a closed poll passes verifyFinal, and *)
(* so does every set that was read of one state; a set that is not, which  *)
(* the two reads of /internal/final can produce, shows in its checkpoints  *)
(* that the poll was published or withdrawn in between, or was read across *)
(* a restore, and no run goes past its verification with one.              *)
FinalSetsVerify ==
  /\ phase = "Closed" => VerifyFinal(FinalSet(history), Threshold, clock >= ClosesAt)
  /\ \A r \in Runs : run[r].step \notin {"idle", "fetching"} =>
       /\ OneState(run[r]) => VerifyFinal(Fetched(r), Threshold, clock >= ClosesAt)
       /\ run[r].step \notin {"fetched", "verify"} => OneState(run[r])
       /\ restores = 0 => OneState(run[r]) \/ Last(run[r].final).phase \in LeftClosed

(* A final set that an honest service hands out is refused by a trustee    *)
(* only when it was read in two states; without a restore these are the    *)
(* two sides of a publication or a withdrawal.                             *)
THEOREM HonestFinalSetsVerify == AuditorsSpec => []FinalSetsVerify
<1>1. TrusteeInv /\ HonestInv /\ FetchInv => FinalSetsVerify
  <2> SUFFICES ASSUME TrusteeInv, HonestInv, FetchInv PROVE FinalSetsVerify
    OBVIOUS
  <2>1. ASSUME phase = "Closed" PROVE VerifyFinal(FinalSet(history), Threshold, clock >= ClosesAt)
    <3>1. Genuine(history, clock, published) /\ history # <<>> /\ Last(history).phase = "Closed"
      BY <2>1 DEF HonestInv, HostHonest, Truthful
    <3>2. QED
      BY <3>1, HostTypes, FinalSetConvinces
  <2>2. ASSUME NEW r \in Runs, run[r].step \notin {"idle", "fetching"}, OneState(run[r])
        PROVE  VerifyFinal(Fetched(r), Threshold, clock >= ClosesAt)
    <3>1. run[r].final \in Histories
      BY <2>2, RunFacts DEF RunSound
    <3>2. run[r].final # Nil
      BY <3>1, Apart
    <3>3. run[r].final # <<>> /\ Genuine(run[r].final, clock, published)
      BY <3>2 DEF HonestInv, Known
    <3>4. Last(run[r].final).phase = "Closed" /\ Fetched(r) = FinalSet(run[r].final)
      BY <2>2 DEF OneState, Fetched, FinalSet, Last
    <3>5. QED
      BY <3>1, <3>3, <3>4, FinalSetConvinces
  <2>3. ASSUME NEW r \in Runs, run[r].step \notin {"idle", "fetching"}
        PROVE  /\ run[r].step \notin {"fetched", "verify"} => OneState(run[r])
               /\ restores = 0 => OneState(run[r]) \/ Last(run[r].final).phase \in LeftClosed
    BY <2>3 DEF FetchInv, FetchSound
  <2>4. QED
    BY <2>1, <2>2, <2>3 DEF FinalSetsVerify
<1>2. QED
  BY <1>1, TrusteeInvariance, HonestInvariance, FetchInvariance, PTL

(* Nobody doubts an honest host: the audit of a published poll, and every  *)
(* copy that was ever exported, passes verifyPublicAudit; and its chain    *)
(* passes observerChain as long as it was withdrawn at most once.          *)
AuditsVerify ==
  /\ phase = "Published" => VerifyPublicAudit(Audit(history), Threshold, clock >= ClosesAt)
  /\ \A o \in Observers, k \in Kinds : copy[o][k] \notin {Nil, <<>>} =>
       VerifyPublicAudit(Audit(copy[o][k]), Threshold, clock >= ClosesAt)
  /\ phase # "None" /\ OnceWithdrawn(history) => ObserverChain(Envelopes(history))

(* Every audit that an honest service publishes, or that somebody has      *)
(* exported, passes the public verification.                               *)
THEOREM HonestAuditsVerify == AuditorsSpec => []AuditsVerify
<1>1. TrusteeInv /\ HonestInv => AuditsVerify
  <2> SUFFICES ASSUME TrusteeInv, HonestInv PROVE AuditsVerify
    OBVIOUS
  <2>1. Genuine(history, clock, published) /\ history \in Histories /\ (phase # "None" => history # <<>>)
    BY HostTypes DEF HonestInv, HostHonest, Truthful
  <2>2. phase = "Published" => VerifyPublicAudit(Audit(history), Threshold, clock >= ClosesAt)
    <3>1. phase = "Published" => Last(history).phase = "Published"
      BY DEF HonestInv, HostHonest, Truthful
    <3>2. QED
      BY <2>1, <3>1, AuditConvinces
  <2>3. ASSUME NEW o \in Observers, NEW k \in Kinds, copy[o][k] \notin {Nil, <<>>}
        PROVE  VerifyPublicAudit(Audit(copy[o][k]), Threshold, clock >= ClosesAt)
    <3>1. copy[o][k] \in Histories /\ Last(copy[o][k]).phase = "Published" /\ Genuine(copy[o][k], clock, published)
      BY <2>3 DEF HonestInv, Ends, Known
    <3>2. QED
      BY <2>3, <3>1, AuditConvinces
  <2>4. phase # "None" /\ OnceWithdrawn(history) => ObserverChain(Envelopes(history))
    BY <2>1, ChainConvinces
  <2>5. QED
    BY <2>2, <2>3, <2>4 DEF AuditsVerify
<1>2. QED
  BY <1>1, TrusteeInvariance, HonestInvariance, PTL

(* No two people ever hold verified audits of different ballots, whatever  *)
(* was lost and restored between their exports: every copy counts the      *)
(* ballots of the one final set that was tallied.                          *)
CopiesAgree ==
  \A o, p \in Observers : \A k, l \in Kinds :
    copy[o][k] \notin {Nil, <<>>} /\ copy[p][l] \notin {Nil, <<>>} =>
      /\ Last(copy[o][k]).ballots = Last(copy[p][l]).ballots
      /\ Audit(copy[o][k]).result = Audit(copy[p][l]).result

(* All exported copies, of all observers, are of one tally.                *)
THEOREM PublicCopiesAgree == AuditorsSpec => []CopiesAgree
<1>1. TrusteeInv /\ HonestInv => CopiesAgree
  <2> SUFFICES ASSUME TrusteeInv, HonestInv PROVE CopiesAgree
    OBVIOUS
  <2>1. ASSUME NEW o \in Observers, NEW k \in Kinds, copy[o][k] \notin {Nil, <<>>}
        PROVE  \E h \in published : Last(h).ballots = Last(copy[o][k]).ballots
    <3> DEFINE c == copy[o][k]
    <3>1. c \in Histories /\ c # <<>> /\ Last(c).phase = "Published" /\ Genuine(c, clock, published)
      BY <2>1 DEF HonestInv, Ends, Known
    <3> HIDE DEF c
    <3>2. Len(c) = 3 /\ c[3].phase = "Published"
      BY <3>1, PublishedLast
    <3>3. 3 \in 2 .. Len(c)
      BY <3>2
    <3>4. \E h \in published : Last(h).ballots = c[3].ballots
      BY <3>1, <3>2, <3>3 DEF Genuine
    <3>5. QED
      BY <3>2, <3>4 DEF Last, c
  <2>2. \A g, h \in published : Last(g).ballots = Last(h).ballots
    BY OneTallyOf DEF Last
  <2>3. ASSUME NEW o \in Observers, NEW p \in Observers, NEW k \in Kinds, NEW l \in Kinds,
               copy[o][k] \notin {Nil, <<>>}, copy[p][l] \notin {Nil, <<>>}
        PROVE  /\ Last(copy[o][k]).ballots = Last(copy[p][l]).ballots
               /\ Audit(copy[o][k]).result = Audit(copy[p][l]).result
    <3>1. Last(copy[o][k]).ballots = Last(copy[p][l]).ballots
      BY <2>1, <2>2, <2>3
    <3>2. QED
      BY <3>1 DEF Audit, Last
  <2>4. QED
    BY <2>3 DEF CopiesAgree
<1>2. QED
  BY <1>1, TrusteeInvariance, HonestInvariance, PTL

(* A host that is never restored keeps the promises of Election, whatever  *)
(* its trustees and its observers do: the bound on the clock aside, every  *)
(* behaviour of it is one of the abstract service.                         *)
THEOREM UnrestoredHostIsElection == AuditorsSpec /\ [](restores = 0) => Spec
<1> DEFINE Unrestored == restores = 0
<1>1. AuditorsInit => Init
  BY DEF AuditorsInit, HostInit
<1>2. TrusteeInv /\ Unrestored /\ Unrestored' /\ [AuditorsNext]_allVars => [Next]_vars
  <2> SUFFICES ASSUME TrusteeInv, restores = 0, restores' = 0, [AuditorsNext]_allVars PROVE [Next]_vars
    OBVIOUS
  <2>1. CASE HostNext /\ UNCHANGED <<trusteeVars, observerVars>>
    <3>1. CASE Serve
      BY <3>1 DEF Serve, Next
    <3>2. CASE PublishTally
      BY <3>2 DEF PublishTally, Next
    <3>3. CASE Show \/ Hide \/ Backup
      BY <3>3 DEF Show, Hide, Backup
    <3>4. CASE Restore
      BY <3>4 DEF Restore
    <3>5. QED
      BY <2>1, <3>1, <3>2, <3>3, <3>4 DEF HostNext
  <2>2. CASE TrusteeNext /\ UNCHANGED observerVars
    BY <2>2, TrusteesKeepHost
  <2>3. CASE ObserverNext /\ UNCHANGED trusteeVars
    BY <2>3, ObserversOnlyRead DEF hostVars
  <2>4. CASE UNCHANGED allVars
    BY <2>4 DEF allVars, hostVars
  <2>5. QED
    BY <2>1, <2>2, <2>3, <2>4 DEF AuditorsNext
<1> HIDE DEF Unrestored
<1>3. AuditorsSpec /\ []Unrestored => Spec
  BY <1>1, <1>2, TrusteeInvariance, PTL DEF AuditorsSpec, Spec
<1>4. QED
  BY <1>3 DEF Unrestored
=============================================================================
