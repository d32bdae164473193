----------------------------- MODULE MCAuditors -----------------------------
EXTENDS Auditors, TLC

CONSTANTS b1, b2, d1

MCCredentialOf == b1 :> 1 @@ b2 :> 2
MCQuorums == {{d1}}

Symmetry ==
  Permutations(Ballots) \cup Permutations(Runs) \cup Permutations(Salts) \cup Permutations(Jobs)

Busy == {j \in Jobs : job[j] # Resting}

NothingCopied ==
  /\ \A o \in Observers : copy[o] = [k \in Kinds |-> Nil]
  /\ \A j \in Jobs : job[j].action \notin Kinds

NothingObserved ==
  /\ Busy = {}
  /\ NothingCopied
  /\ \A o \in Observers : kept[o] = {} /\ file[o] = Nil

(* Bounds.  Only init and check share what they write: only they run at    *)
(* the same time, before the host announces a second end or is restored.   *)
(* Copies are made where nothing else was and nothing is restored.  No     *)
(* program starts after an approval, or when a killed one left the lock.   *)
(* A configuration is edited while nobody has read it, or while those who  *)
(* have still wait for the lock; as it is read once, it is as well edited  *)
(* back when a program with an old one goes on.  One ballot is enough for  *)
(* the host, its backup and the receipts to differ, and a backup from      *)
(* before or after the poll is open.                                       *)
Observing ==
  /\ \A o \in Observers :
       /\ approval[o] # Nil => \A j \in Busy : job[j].step = "saved"
       /\ locked[o] => Busy # {}
  /\ Cardinality(Busy) <= 1 \/ (restores = 0 /\ Len(history) <= 2 /\ \A j \in Busy : job[j].action \in {"init", "check"})
  /\ \/ NothingCopied
     \/ /\ restores = 0
        /\ \A o \in Observers : file[o] = Nil /\ Cardinality({k \in Kinds : copy[o][k] # Nil}) <= 1
        /\ \A j \in Busy : job[j].action \in Kinds
  /\ \A j \in Busy : job[j].step \in {"config", "lock"} \/ job[j].receipts = kept[job[j].observer]
  /\ Cardinality(cast \cup backup.cast \cup UNION {kept[o] : o \in Observers}) <= 1
  /\ backup.phase \in {"Scheduled", "Closed"} \/ (backup.phase = "None" /\ restores = 0)

(* Trustees and observers share the host and nothing else: the trustees    *)
(* have done all or nothing when the observers begin.  The first alarm,    *)
(* and a second withdrawal, end a behaviour.                               *)
OneConcern ==
  /\ Len(history) <= 3 /\ alarms = {}
  /\ \A i, j \in DOMAIN history : history[i].phase = "Cancelled" /\ history[j].phase = "Cancelled" => i = j
  /\ \/ NothingObserved
     \/ /\ Observing
        /\ \A r \in Runs : run[r] = Idle
        /\ published # {} \/ \A t \in Trustees : bound[t] = Nil
=============================================================================
