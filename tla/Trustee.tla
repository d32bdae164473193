------------------------------ MODULE Trustee ------------------------------
(***************************************************************************)
(* A trustee's program (scripts/trustee.ts, trustee-client.ts): it fetches *)
(* the final set, checks it, binds itself to it on its own disk, makes its *)
(* decryption share once and delivers it.  It may be killed anywhere and   *)
(* run again, and several runs may overlap.                                *)
(*                                                                         *)
(* A file is created, empty, before its content is in it.                  *)
(***************************************************************************)
EXTENDS Hosting

CONSTANTS
  Runs,    \* bound: the runs in progress at any time
  Salts,   \* a share is randomised
  Partial  \* a file that is not completely written

Shares == [final : Histories, salt : Salts]

ASSUME TrusteeAssumption ==
  /\ Nil # Partial /\ Nil \notin Trustees
  /\ {Nil, Partial} \cap Histories = {} /\ {Nil, Partial} \cap Shares = {}

VARIABLES
  bound,  \* final.sha256 of each trustee
  share,  \* share.jsons of each trustee
  run     \* the runs in progress

files == <<bound, share>>
trusteeVars == <<files, run>>

Idle == [step |-> "idle", trustee |-> Nil, archive |-> Nil, final |-> Nil, prior |-> Nil, share |-> Nil]

TrusteeInit ==
  /\ bound = [t \in Trustees |-> Nil]
  /\ share = [t \in Trustees |-> Nil]
  /\ run = [r \in Runs |-> Idle]

Turn(r, step) == run' = [run EXCEPT ![r].step = step]

(* POST /internal/final reads the row of a closed poll, and then its       *)
(* checkpoints, in no transaction: the two may be of different states.     *)
Fetch(r, t) ==
  /\ run[r] = Idle
  /\ phase = "Closed"
  /\ run' = [run EXCEPT ![r] = [Idle EXCEPT !.step = "fetching", !.trustee = t, !.archive = FinalSet(history).archive]]
  /\ UNCHANGED <<hostVars, files>>

(* A set without checkpoints is none.                                      *)
FetchCheckpoints(r) ==
  /\ run[r].step = "fetching"
  /\ phase # "None"
  /\ run' = [run EXCEPT ![r].step = "fetched", ![r].final = history]
  /\ UNCHANGED <<hostVars, files>>

ReadPrior(r) ==
  /\ run[r].step = "fetched"
  /\ run' = [run EXCEPT ![r].step = "verify", ![r].prior = bound[run[r].trustee]]
  /\ UNCHANGED <<hostVars, files>>

Fetched(r) == [archive |-> run[r].archive, checkpoints |-> Envelopes(run[r].final)]

(* verifyFinal(); a file that is there and says otherwise refuses.  The    *)
(* archive of a set that passes is that of its last checkpoint, so from    *)
(* here on its checkpoints stand for the set and for its digest.           *)
Verified(r) ==
  /\ VerifyFinal(Fetched(r), Threshold, clock >= ClosesAt)
  /\ run[r].prior \in {Nil, run[r].final}

Verify(r) ==
  /\ run[r].step = "verify" /\ Verified(r)
  /\ Turn(r, "bind")
  /\ UNCHANGED <<hostVars, files>>

(* writeOnce(final.sha256)                                                 *)
Bind(r) ==
  LET t == run[r].trustee IN
  /\ run[r].step = "bind"
  /\ \/ /\ bound[t] = Nil
        /\ bound' = [bound EXCEPT ![t] = Partial]
        /\ Turn(r, "binding")
     \/ /\ bound[t] = run[r].final
        /\ Turn(r, "bound")
        /\ UNCHANGED bound
  /\ UNCHANGED <<hostVars, share>>

BindEnd(r) ==
  /\ run[r].step = "binding"
  /\ bound' = [bound EXCEPT ![run[r].trustee] = run[r].final]
  /\ Turn(r, "bound")
  /\ UNCHANGED <<hostVars, share>>

(* The stored share is used again, whatever it is.                         *)
ReadShare(r) ==
  /\ run[r].step = "bound" /\ share[run[r].trustee] # Nil
  /\ run' = [run EXCEPT ![r].step = "ready", ![r].share = share[run[r].trustee]]
  /\ UNCHANGED <<hostVars, files>>

MakeShare(r) ==
  /\ run[r].step = "bound" /\ share[run[r].trustee] = Nil
  /\ \E s \in Salts :
       run' = [run EXCEPT ![r].step = "made", ![r].share = [final |-> run[r].final, salt |-> s]]
  /\ UNCHANGED <<hostVars, files>>

(* Mutant: two runs may each keep a share of their own. *)
StoreOver(r) ==
  /\ run[r].step = "made"
  /\ share' = [share EXCEPT ![run[r].trustee] = run[r].share]
  /\ Turn(r, "ready")
  /\ UNCHANGED <<hostVars, bound>>

(* writeOnce(share.jsons)                                                  *)
Store(r) ==
  LET t == run[r].trustee IN
  /\ run[r].step = "made"
  /\ \/ /\ share[t] = Nil
        /\ share' = [share EXCEPT ![t] = Partial]
        /\ Turn(r, "storing")
     \/ /\ share[t] = run[r].share
        /\ Turn(r, "ready")
        /\ UNCHANGED share
  /\ UNCHANGED <<hostVars, bound>>

StoreEnd(r) ==
  /\ run[r].step = "storing"
  /\ share' = [share EXCEPT ![run[r].trustee] = run[r].share]
  /\ Turn(r, "ready")
  /\ UNCHANGED <<hostVars, bound>>

(* Mutant: the share is not checked against the final archive. *)
DeliverUnchecked(r) ==
  LET t == run[r].trustee
      s == run[r].share
  IN
  /\ run[r].step = "ready"
  /\ phase = "Closed"
  /\ s # Partial
  /\ shares[t] \in {Nil, s}
  /\ shares' = [shares EXCEPT ![t] = s]
  /\ run' = [run EXCEPT ![r] = Idle]
  /\ UNCHANGED <<vars, visible, backup, restores, published, files>>

(* POST /internal/share: the core checks the share against the final       *)
(* archive, and one that is recorded stays.  The reply may be lost.        *)
Deliver(r) ==
  LET t == run[r].trustee
      s == run[r].share
  IN
  /\ run[r].step = "ready"
  /\ phase = "Closed"
  /\ s # Partial
  /\ FinalSet(s.final).archive = FinalSet(history).archive
  /\ shares[t] \in {Nil, s}
  /\ shares' = [shares EXCEPT ![t] = s]
  /\ run' = [run EXCEPT ![r] = Idle]
  /\ UNCHANGED <<vars, visible, backup, restores, published, files>>

(* A check refuses, the core or the network fails, or the run is killed.   *)
Stop(r) ==
  /\ run[r] # Idle
  /\ run' = [run EXCEPT ![r] = Idle]
  /\ UNCHANGED <<hostVars, files>>

TrusteeNext ==
  \E r \in Runs :
    \/ \E t \in Trustees : Fetch(r, t)
    \/ FetchCheckpoints(r) \/ ReadPrior(r) \/ Verify(r) \/ Bind(r) \/ BindEnd(r)
    \/ ReadShare(r) \/ MakeShare(r) \/ Store(r) \/ StoreEnd(r) \/ Deliver(r) \/ Stop(r)
----------------------------------------------------------------------------
(* Backups are restored, ballots are lost, trustees are killed and run     *)
(* again: one final set at most is ever tallied and published.             *)
OneTally == Cardinality({h[Len(h)].ballots : h \in published}) <= 1

(* A trustee makes one share for the world: whatever the service has       *)
(* recorded of it, now or in a backup, is what its disk has, and belongs   *)
(* to the final set its disk is bound to.                                  *)
SharesBound ==
  \A t \in Trustees : \A s \in {shares[t], backup.shares[t]} : s # Nil =>
    share[t] = s /\ bound[t] # Nil /\ bound[t] = s.final
=============================================================================
