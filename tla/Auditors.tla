------------------------------ MODULE Auditors ------------------------------
(***************************************************************************)
(* One host with its trustees and its observers: who checks it from the    *)
(* files on their own disks.                                               *)
(***************************************************************************)
EXTENDS Trustee, Observer

allVars == <<hostVars, trusteeVars, observerVars>>

AuditorsInit == HostInit /\ TrusteeInit /\ ObserverInit

AuditorsNext ==
  \/ HostNext /\ UNCHANGED <<trusteeVars, observerVars>>
  \/ TrusteeNext /\ UNCHANGED observerVars
  \/ ObserverNext /\ UNCHANGED trusteeVars

AuditorsSpec == AuditorsInit /\ [][AuditorsNext]_allVars
----------------------------------------------------------------------------
(* Past the mkdir of the lock.                                             *)
HoldsLock(j) == job[j].action \in {"init", "check"} /\ job[j].step # "lock"

(* Types; and whoever writes the observation file of an observer has its   *)
(* lock, and has it alone.                                                 *)
TypeOK ==
  /\ clock \in 0 .. Horizon /\ phase \in Phases /\ cast \subseteq Ballots /\ outcome \in Nat
  /\ history \in Histories
  /\ shares \in [Trustees -> Shares \cup {Nil}]
  /\ visible \in BOOLEAN /\ restores \in 0 .. MaxRestores
  /\ published \subseteq Histories
  /\ bound \in [Trustees -> Histories \cup {Nil, Partial}]
  /\ share \in [Trustees -> Shares \cup {Nil, Partial}]
  /\ run \in [Runs -> [step : {"idle", "fetching", "fetched", "verify", "bind", "binding", "bound", "made", "storing", "ready"},
                       trustee : Trustees \cup {Nil}, archive : Archives \cup {Nil}, final : Histories \cup {Nil},
                       prior : Histories \cup {Nil, Partial}, share : Shares \cup {Nil, Partial}]]
  /\ kept \in [Observers -> SUBSET Ballots]
  /\ file \in [Observers -> Observations \cup {Nil}]
  /\ approval \in [Observers -> Observations \cup {Nil}]
  /\ copy \in [Observers -> [Kinds -> Histories \cup {Nil}]]
  /\ alarms \subseteq 0 .. MaxRestores
  /\ locked \in [Observers -> BOOLEAN]
  /\ \A i, j \in Jobs :
       HoldsLock(i) => locked[job[i].observer] /\ (HoldsLock(j) /\ job[i].observer = job[j].observer => i = j)
=============================================================================
