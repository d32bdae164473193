------------------------------ MODULE Observer ------------------------------
(***************************************************************************)
(* The observers' programs: scripts/observer.ts (init, check, compare),    *)
(* recovery-verify.ts, audit-export.ts and mirror-export.ts, all over      *)
(* observePublic() (observer-client.ts) and inspectObservation()           *)
(* (packages/domain/src/observer.ts).  They only read, in several          *)
(* requests, from a service that goes on meanwhile and may be restored     *)
(* from a backup between two of them.  A program may be killed anywhere.   *)
(***************************************************************************)
EXTENDS Hosting

CONSTANTS Observers,
          Jobs  \* bound: the programs running at any time

Observations == [history : Histories, receipts : SUBSET Ballots, prior : Histories, since : Nat]

Actions == {"init", "check", "recover", "audit", "mirror"}

ASSUME ObserverAssumption == Nil \notin Observers \cup Observations \cup Histories \cup Actions

VARIABLES
  kept,      \* the receipts in each observer's configuration
  file,      \* the observation file of each observer
  locked,    \* whether its lock directory exists
  approval,  \* the recovery approval of each observer
  copy,      \* its exported audit, and its mirror, which is a directory
  job,       \* the programs in progress
  alarms     \* history: the alarms raised, and the restores seen by then

outputs == <<file, locked, approval, copy>>
observerVars == <<kept, outputs, job, alarms>>

Resting == [step |-> "resting", observer |-> Nil, action |-> Nil, prior |-> Nil, receipts |-> {}, left |-> {},
            missing |-> FALSE, history |-> <<>>, shown |-> FALSE, row |-> Nil, audit |-> Nil, agrees |-> TRUE,
            since |-> 0]

Kinds == {"audit", "mirror"}

ObserverInit ==
  /\ kept = [o \in Observers |-> {}]
  /\ file = [o \in Observers |-> Nil]
  /\ locked = [o \in Observers |-> FALSE]
  /\ approval = [o \in Observers |-> Nil]
  /\ copy = [o \in Observers |-> [k \in Kinds |-> Nil]]
  /\ job = [j \in Jobs |-> Resting]
  /\ alarms = {}

(* A voter hands a receipt of an accepted ballot to an observer.           *)
Retain(o, b) ==
  /\ b \in cast \ kept[o]
  /\ kept' = [kept EXCEPT ![o] = @ \cup {b}]
  /\ UNCHANGED <<hostVars, outputs, job, alarms>>

(* The observer edits the configuration.                                   *)
Forget(o, b) ==
  /\ b \in kept[o]
  /\ kept' = [kept EXCEPT ![o] = @ \ {b}]
  /\ UNCHANGED <<hostVars, outputs, job, alarms>>

----------------------------------------------------------------------------
(* The configuration is read first, and never again: the lock is taken and *)
(* the file read when others may have saved more meanwhile.                *)
FirstStep == [init |-> "lock", check |-> "lock", recover |-> "prior", audit |-> "chain", mirror |-> "chain"]

ReadConfig(j, o, action) ==
  job' = [job EXCEPT ![j] = [Resting EXCEPT !.step = FirstStep[action], !.observer = o, !.action = action,
                             !.receipts = kept[o], !.left = kept[o], !.since = restores]]

(* observer init and check, recovery-verify, audit-export                  *)
Start(j, o) ==
  /\ job[j] = Resting
  /\ \E action \in Actions \ {"mirror"} : ReadConfig(j, o, action)
  /\ UNCHANGED <<hostVars, kept, outputs, alarms>>

(* mirror-export: its directory must be new; then the configuration.       *)
StartMirror(j, o) ==
  /\ job[j] = Resting
  /\ copy[o]["mirror"] = Nil
  /\ copy' = [copy EXCEPT ![o]["mirror"] = <<>>]
  /\ job' = [job EXCEPT ![j] = [Resting EXCEPT !.step = "config", !.observer = o, !.action = "mirror"]]
  /\ UNCHANGED <<hostVars, kept, file, locked, approval, alarms>>

Configure(j) ==
  /\ job[j].step = "config"
  /\ ReadConfig(j, job[j].observer, "mirror")
  /\ UNCHANGED <<hostVars, kept, outputs, alarms>>

(* Mutant: a lock that is there already does not stop the program. *)
LockShared(j) ==
  /\ job[j].step = "lock"
  /\ locked' = [locked EXCEPT ![job[j].observer] = TRUE]
  /\ job' = [job EXCEPT ![j].step = IF job[j].action = "check" THEN "prior" ELSE "chain"]
  /\ UNCHANGED <<hostVars, kept, file, approval, copy, alarms>>

(* mkdir of the lock, which must not be there.                             *)
Lock(j) ==
  /\ job[j].step = "lock" /\ ~locked[job[j].observer]
  /\ locked' = [locked EXCEPT ![job[j].observer] = TRUE]
  /\ job' = [job EXCEPT ![j].step = IF job[j].action = "check" THEN "prior" ELSE "chain"]
  /\ UNCHANGED <<hostVars, kept, file, approval, copy, alarms>>

(* check and recovery-verify compare with the observation file.            *)
ReadFile(j) ==
  /\ job[j].step = "prior" /\ file[job[j].observer] # Nil
  /\ job' = [job EXCEPT ![j].step = "chain", ![j].prior = file[job[j].observer]]
  /\ UNCHANGED <<hostVars, kept, outputs, alarms>>

----------------------------------------------------------------------------
(* observePublic()                                                         *)

Read(j, step, value) ==
  /\ job[j].step = step
  /\ job' = [job EXCEPT ![j] = value]
  /\ UNCHANGED <<hostVars, kept, outputs, alarms>>

ReadChain(j) ==
  /\ phase # "None" /\ ObserverChain(Envelopes(history))
  /\ Read(j, "chain", [job[j] EXCEPT !.step = "poll", !.history = history])

ReadPoll(j) == Read(j, "poll", [job[j] EXCEPT !.step = "trackers", !.shown = visible])

AskTracker(j) ==
  \E b \in job[j].left :
    Read(j, "trackers", [job[j] EXCEPT !.left = @ \ {b}, !.missing = (@ \/ b \notin cast)])

Last(h) == h[Len(h)]

Announced(j) == Last(job[j].history).phase

(* /audit reads the row, and then the checkpoints; /result reads the row   *)
(* once more.                                                              *)
ReadAudit(j) ==
  /\ job[j].step = "trackers" /\ job[j].left = {}
  /\ IF Announced(j) = "Published"
     THEN /\ phase = "Published"
          /\ Read(j, "trackers", [job[j] EXCEPT !.step = "checkpoints",
                                   !.row = [archive |-> Archive(Last(history)), result |-> outcome]])
     ELSE Read(j, "trackers", [job[j] EXCEPT !.step = "inspect"])

ReadAuditCheckpoints(j) ==
  /\ phase # "None"
  /\ Read(j, "checkpoints", [job[j] EXCEPT !.step = "result", !.audit = history])

ReadResult(j) ==
  /\ phase = "Published"
  /\ Read(j, "result", [job[j] EXCEPT !.step = "inspect", !.agrees = (outcome = job[j].row.result)])

----------------------------------------------------------------------------
(* inspectObservation(): the first check that fails raises its alarm.      *)

Extends(h, prior) == Len(prior) <= Len(h) /\ SubSeq(h, 1, Len(prior)) = prior

(* Mutant: a receipt is looked for in every announcement. *)
MissingAnywhere(j) == job[j].missing \/ ~job[j].receipts \subseteq Last(job[j].history).ballots

(* An announcement lists all ballots of a closed poll; before, it cannot.  *)
Missing(j) ==
  \/ job[j].missing
  \/ Announced(j) \notin {"Scheduled", "Open"} /\ ~job[j].receipts \subseteq Last(job[j].history).ballots

(* Mutant: only the lengths of the histories are compared. *)
ForkedByLength(j) == job[j].prior # Nil /\ Len(job[j].prior.history) > Len(job[j].history)

Forked(j) == job[j].prior # Nil /\ ~Extends(job[j].history, job[j].prior.history)

(* OBSERVED_RECEIPT_REMOVED_FROM_CONFIG                                    *)
Removed(j) == job[j].prior # Nil /\ ~job[j].prior.receipts \subseteq job[j].receipts

Early(j) == Announced(j) \in {"Closed", "Published", "ResultsSuppressed"} /\ clock < ClosesAt

AuditFits(j) ==
  IF Announced(j) = "Published"
  THEN /\ job[j].shown /\ job[j].agrees
       /\ job[j].audit = job[j].history
       /\ LET audit == [archive |-> job[j].row.archive, checkpoints |-> Envelopes(job[j].audit), result |-> job[j].row.result]
          IN  VerifyPublicAudit(audit, Threshold, clock >= ClosesAt)
  ELSE ~job[j].shown

(* Mutant: the configuration may have lost receipts. *)
PassesForgetful(j) == ~Early(j) /\ ~Forked(j) /\ ~Missing(j) /\ AuditFits(j)

Passes(j) == ~Early(j) /\ ~Forked(j) /\ ~Removed(j) /\ ~Missing(j) /\ AuditFits(j)

(* An approval has besides what it was compared with and the restores then.*)
Observation(j) == [history |-> job[j].history, receipts |-> job[j].receipts, prior |-> <<>>, since |-> 0]

(* OBSERVER_HISTORY_ROLLBACK, OBSERVER_HISTORY_FORK,                       *)
(* ACKNOWLEDGED_BALLOT_MISSING, EARLY_CLOSE_OBSERVED                       *)
Alarm(j) ==
  /\ job[j].step = "inspect" /\ (Early(j) \/ Forked(j) \/ (~Removed(j) /\ Missing(j)))
  /\ alarms' = alarms \cup {restores}
  /\ job' = [job EXCEPT ![j].step = "failed"]
  /\ UNCHANGED <<hostVars, kept, outputs>>

(* Anything else that is wrong: a receipt gone from the configuration; a   *)
(* poll shown or an audit served before or after its announcement, or put  *)
(* together from two states; a request or a write fails, or what it would  *)
(* write is there already.                                                 *)
Fail(j) ==
  /\ job[j].step \in {"config", "prior", "chain", "poll", "trackers", "checkpoints", "result", "inspect"}
  /\ job' = [job EXCEPT ![j].step = "failed"]
  /\ UNCHANGED <<hostVars, kept, outputs, alarms>>

(* finally: the lock is removed, and a mirror that is not complete.        *)
End(j) ==
  LET o == job[j].observer IN
  /\ job[j].step \in {"saved", "failed"}
  /\ locked' = IF job[j].action \in {"init", "check"} THEN [locked EXCEPT ![o] = FALSE] ELSE locked
  /\ copy' = IF job[j].action = "mirror" /\ job[j].step = "failed" THEN [copy EXCEPT ![o]["mirror"] = Nil] ELSE copy
  /\ job' = [job EXCEPT ![j] = Resting]
  /\ UNCHANGED <<hostVars, kept, file, approval, alarms>>

(* The program is killed, or finds the lock, and cleans nothing up.        *)
Kill(j) ==
  /\ job[j] # Resting
  /\ job' = [job EXCEPT ![j] = Resting]
  /\ UNCHANGED <<hostVars, kept, outputs, alarms>>

Save(j, action) ==
  /\ job[j].step = "inspect" /\ job[j].action = action
  /\ Passes(j)
  /\ job' = [job EXCEPT ![j].step = "saved"]
  /\ UNCHANGED <<hostVars, kept, locked, alarms>>

(* rename() replaces the file, link() does not.                            *)
SaveCheck(j) ==
  /\ Save(j, "check")
  /\ file' = [file EXCEPT ![job[j].observer] = Observation(j)]
  /\ UNCHANGED <<approval, copy>>

SaveInit(j) ==
  /\ Save(j, "init")
  /\ file[job[j].observer] = Nil
  /\ file' = [file EXCEPT ![job[j].observer] = Observation(j)]
  /\ UNCHANGED <<approval, copy>>

Approve(j) ==
  /\ Save(j, "recover")
  /\ approval[job[j].observer] = Nil
  /\ approval' = [approval EXCEPT ![job[j].observer] =
                                 [Observation(j) EXCEPT !.prior = job[j].prior.history, !.since = job[j].since]]
  /\ UNCHANGED <<file, copy>>

SaveCopy(j) ==
  LET o == job[j].observer
      k == job[j].action
  IN
  /\ k \in Kinds /\ job[j].step = "inspect" /\ Announced(j) = "Published"
  /\ k = "audit" => copy[o][k] = Nil
  /\ Save(j, k)
  /\ copy' = [copy EXCEPT ![o][k] = job[j].audit]
  /\ UNCHANGED <<file, approval>>

(* compareObservations(): OBSERVER_SPLIT_VIEW_DETECTED                     *)
Compare(o, p) ==
  /\ file[o] # Nil /\ file[p] # Nil
  /\ ~Extends(file[o].history, file[p].history) /\ ~Extends(file[p].history, file[o].history)
  /\ alarms' = alarms \cup {restores}
  /\ UNCHANGED <<hostVars, kept, outputs, job>>

ObserverNext ==
  \/ \E o \in Observers : (\E b \in Ballots : Retain(o, b) \/ Forget(o, b)) \/ (\E p \in Observers : Compare(o, p))
  \/ \E j \in Jobs :
       \/ \E o \in Observers : Start(j, o) \/ StartMirror(j, o)
       \/ Configure(j) \/ Lock(j) \/ ReadFile(j)
       \/ ReadChain(j) \/ ReadPoll(j) \/ AskTracker(j) \/ ReadAudit(j) \/ ReadAuditCheckpoints(j) \/ ReadResult(j)
       \/ Alarm(j) \/ Fail(j) \/ End(j) \/ Kill(j)
       \/ SaveCheck(j) \/ SaveInit(j) \/ Approve(j) \/ SaveCopy(j)
----------------------------------------------------------------------------
(* What an observer has seen stays seen: no check, init or crash, one      *)
(* after another or at the same time, loses an announcement or a receipt   *)
(* of the file.                                                            *)
SeenStaysSeen ==
  [][\A o \in Observers : file[o] # Nil =>
       /\ file'[o] # Nil
       /\ Extends(file'[o].history, file[o].history)
       /\ file[o].receipts \subseteq file'[o].receipts]_<<hostVars, observerVars>>

(* An observer never cries wolf: that a history was rolled back, forked or *)
(* split, that a ballot is missing or a poll was closed early it says only *)
(* when the service has lost its database and was restored.                *)
AlarmsTrue == \A n \in alarms : n > 0

(* A service that is approved for recovery, and was not restored again     *)
(* since the verification began, has every announcement the observer had   *)
(* seen and every ballot whose receipt it had.                             *)
ApprovalSound ==
  \A o \in Observers : approval[o] # Nil /\ approval[o].since = restores =>
    /\ Extends(history, approval[o].history) /\ Extends(history, approval[o].prior)
    /\ approval[o].receipts \subseteq cast
=============================================================================
