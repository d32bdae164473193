---------------------------- MODULE Provisioning ----------------------------
(***************************************************************************)
(* The ceremony of one poll: what an approval in apps/api/src/management.ts *)
(* does between the identity service, the files of apps/api/src/           *)
(* provisioning.ts and of the trustees, and the ballot service.  The       *)
(* approval holds the row of the poll, so there is one at a time; it is    *)
(* several steps in four places, none undone when a later one fails, and   *)
(* the moderator tries again.  People sign in and are revoked meanwhile.   *)
(*                                                                         *)
(* A file is created once and never written over.  A crash in the middle   *)
(* of writing it leaves a part of it, which no retry accepts.              *)
(***************************************************************************)
EXTENDS Identity

CONSTANTS Trustees,
          Whole, Partial  \* a file, or a part of it

ASSUME ProvisioningAssumption ==
  /\ Whole # Partial /\ Nil \notin {Whole, Partial}
  /\ {Nil, Partial} \cap [uuid : Polls, roster : SUBSET Persons] = {}

VARIABLES
  input,      \* provisioning/<id>/input.sha256: Nil, Partial or Whole
  ceremony,   \* provisioning/<id>/ceremony.json: Nil, Partial or the setup
  custody,    \* trustees/<n>/<uuid>/private.json
  elections,  \* the elections registered in the ballot service
  published,  \* the cryptoId of the committed approval
  approval,   \* the approval in progress: its step and what it works with
  made        \* the identifiers of the ceremonies made so far

files == <<input, ceremony, custody>>
places == <<elections, published, made>>
pvars == <<vars, files, places, approval>>

NoApproval == [step |-> "none", roster |-> {}, setup |-> Nil, left |-> {}]

PInit ==
  /\ Init
  /\ input = Nil /\ ceremony = Nil
  /\ custody = [k \in Polls |-> [t \in Trustees |-> Nil]]
  /\ elections = {} /\ published = Nil /\ made = {}
  /\ approval = NoApproval

At(step) == approval.step = step

Goto(step) == approval' = [approval EXCEPT !.step = step]

(* Mutant: a file that exists is taken for the right one. *)
WriteOnceTrusts(f, content) == TRUE

(* writeOnce() of a file whose content is f: it may exist with the same    *)
(* content and with no other.                                              *)
WriteOnce(f, content) == f \in {Nil, content}

Written(f, content) == IF f = Nil THEN content ELSE f

----------------------------------------------------------------------------
(* POST /internal/roster: every eligible person who is not revoked.        *)
Approve ==
  /\ approval = NoApproval /\ published = Nil /\ now < ClosesAt
  /\ approval' = [NoApproval EXCEPT !.step = "provision", !.roster = {p \in Persons : persons[p] # "revoked"}]
  /\ UNCHANGED <<vars, files, places>>

(* provision(): the hash of the manifest first.  A ceremony that is there  *)
(* is used again, whoever is in its roster.                                *)
WriteInput ==
  /\ At("provision")
  /\ WriteOnce(input, Whole)
  /\ input' = Written(input, Whole)
  /\ Goto("ceremony")
  /\ UNCHANGED <<vars, ceremony, custody, places>>

HandOut(setup) == approval' = [approval EXCEPT !.step = "custody", !.setup = setup, !.left = Trustees]

Reuse ==
  /\ At("ceremony") /\ ceremony \notin {Nil, Partial}
  /\ HandOut(ceremony)
  /\ UNCHANGED <<vars, files, places>>

Create ==
  /\ At("ceremony") /\ ceremony = Nil
  /\ \E k \in Polls \ made :
       /\ made' = made \cup {k}
       /\ ceremony' = [uuid |-> k, roster |-> approval.roster]
       /\ HandOut(ceremony')
  /\ UNCHANGED <<vars, input, custody, elections, published>>

(* The files of one trustee.                                               *)
HandOver(t) ==
  LET k == approval.setup.uuid IN
  /\ At("custody") /\ t \in approval.left
  /\ WriteOnce(custody[k][t], Whole)
  /\ custody' = [custody EXCEPT ![k][t] = Written(@, Whole)]
  /\ approval' = [approval EXCEPT !.left = @ \ {t}, !.step = IF approval.left = {t} THEN "roster" ELSE @]
  /\ UNCHANGED <<vars, input, ceremony, places>>

(* POST /internal/register-roster: all of the roster in one transaction,   *)
(* or, when one of its members is revoked, nothing; the same request again *)
(* is answered as the first.                                               *)
RegisterRoster ==
  LET setup == approval.setup IN
  /\ At("roster")
  /\ credentials[setup.uuid] = Nil
  /\ \A p \in setup.roster : persons[p] # "revoked"
  /\ credentials' = [credentials EXCEPT ![setup.uuid] = setup.roster]
  /\ persons' = [p \in Persons |-> IF p \in setup.roster /\ persons[p] = Nil THEN "own" ELSE persons[p]]
  /\ Goto("ballot")
  /\ UNCHANGED <<now, attempts, sessions, providers, req, page, files, places>>

RosterRegistered ==
  /\ At("roster")
  /\ credentials[approval.setup.uuid] # Nil
  /\ Goto("ballot")
  /\ UNCHANGED <<vars, files, places>>

(* POST /internal/register of the ballot service.                          *)
RegisterBallot ==
  /\ At("ballot")
  /\ elections' = elections \cup {approval.setup.uuid}
  /\ Goto("commit")
  /\ UNCHANGED <<vars, files, published, made>>

Publish ==
  /\ At("commit")
  /\ published' = approval.setup.uuid
  /\ Goto("remove")
  /\ UNCHANGED <<vars, files, elections, made>>

(* The same review of an approved poll only removes the files again.       *)
ApproveAgain ==
  /\ approval = NoApproval /\ published # Nil
  /\ Goto("remove")
  /\ UNCHANGED <<vars, files, places>>

(* Mutant: the files are removed before the approval is committed. *)
RemoveEarly ==
  /\ approval.step \in {"ballot", "commit", "remove"}
  /\ input' = Nil /\ ceremony' = Nil
  /\ approval' = IF At("remove") THEN NoApproval ELSE approval
  /\ UNCHANGED <<vars, custody, places>>

RemoveFiles ==
  /\ At("remove")
  /\ input' = Nil /\ ceremony' = Nil
  /\ approval' = NoApproval
  /\ UNCHANGED <<vars, custody, places>>

(* The approval fails or the service crashes, anywhere: a reply is lost,   *)
(* a check refuses, a file is left half written.                           *)
Abandon ==
  LET left(f, step) == IF At(step) /\ f = Nil THEN {Nil, Partial} ELSE {f} IN
  /\ approval # NoApproval
  /\ input' \in left(input, "provision")
  /\ ceremony' \in left(ceremony, "ceremony")
  /\ \/ UNCHANGED custody
     \/ /\ At("custody")
        /\ \E t \in approval.left : custody[approval.setup.uuid][t] = Nil
             /\ custody' = [custody EXCEPT ![approval.setup.uuid][t] = Partial]
  /\ approval' = NoApproval
  /\ UNCHANGED <<vars, places>>

PNext ==
  \/ Next /\ UNCHANGED <<files, places, approval>>
  \/ Approve \/ WriteInput \/ Reuse \/ Create
  \/ \E t \in Trustees : HandOver(t)
  \/ RegisterRoster \/ RosterRegistered \/ RegisterBallot \/ Publish \/ ApproveAgain \/ RemoveFiles
  \/ Abandon

Spec == PInit /\ [][PNext]_pvars
----------------------------------------------------------------------------
Steps == {"none", "provision", "ceremony", "custody", "roster", "ballot", "commit", "remove"}
Setups == [uuid : Polls, roster : SUBSET Persons]
RequestSteps == {"free", "finish", "asked", "attested", "minted", "signedIn", "credential", "entitled",
                 "granted", "rejected", "failed"}

TypeOK ==
  /\ now \in 0 .. Horizon
  /\ persons \in [Persons -> {Nil, "own", "other", "revoked"}]
  /\ attempts \in [Attempts -> {Nil} \cup [subject : Persons, provider : Providers,
                                          expires : Nat, token : Tokens \cup {Nil}]]
  /\ sessions \in [Tokens -> {Nil} \cup [person : Persons, attempt : Attempts, expires : Nat]]
  /\ credentials \in [Polls -> {Nil} \cup SUBSET Persons]
  /\ providers \in [Providers -> {"up", "down", "conflicting"}]
  /\ req \in [Requests -> [step : RequestSteps, page : Pages \cup {Nil}, attempt : Attempts \cup {Nil},
                           token : Tokens \cup {Nil}, content : Polls \cup {Nil, "own", "other"}]]
  /\ page \in [Pages -> [step : {"form", "waiting"}, subject : Persons \cup {Nil}, attempt : Attempts \cup {Nil},
                         tries : 0 .. MaxTries, terminal : BOOLEAN, token : Tokens \cup {Nil}]]
  /\ input \in {Nil, Partial, Whole}
  /\ ceremony \in {Nil, Partial} \cup Setups
  /\ custody \in [Polls -> [Trustees -> {Nil, Partial, Whole}]]
  /\ elections \subseteq Polls /\ made \subseteq Polls
  /\ published \in Polls \cup {Nil}
  /\ approval \in [step : Steps, roster : SUBSET Persons, setup : Setups \cup {Nil}, left : SUBSET Trustees]

(* One poll has one election: whatever fails, and however often the        *)
(* approval is tried again, one roster and one election are registered, so *)
(* nobody is given a second right to vote.                                 *)
OneElection ==
  Cardinality(elections \cup {k \in Polls : credentials[k] # Nil}) <= 1

(* An approval that is committed has everything the poll needs: its        *)
(* election, its roster, and every trustee's key, whole.                   *)
PublishedIsComplete ==
  published # Nil =>
    /\ elections = {published} /\ credentials[published] # Nil
    /\ \A t \in Trustees : custody[published][t] = Whole
=============================================================================
