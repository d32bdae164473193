---------------------------- MODULE Publication ----------------------------
(***************************************************************************)
(* The life of one poll in the management service (apps/api/src/           *)
(* management.ts), with the election it leads to in the ballot service.    *)
(*                                                                         *)
(* The ballot service is its abstract specification, Election: each of its *)
(* answers is one step there.  The two services share no transaction.  A   *)
(* handler that calls the ballot service is several actions here: it finds *)
(* the poll, calls, and stores the document it found with another state.   *)
(* Only drafts and reviews hold the row for as long as they use it.        *)
(*                                                                         *)
(* The document is [state, version, linked, removed]: version stands for   *)
(* its content, linked for its cryptoId and manifestRaw (the version they  *)
(* were made for, 0 before the approval), removed for the tombstone that   *)
(* replaces all of it.                                                     *)
(***************************************************************************)
EXTENDS Naturals, Sequences, FiniteSets

CONSTANTS
  Requests,                  \* the moderator requests in progress at any time
  Ballots,                   \* one per voter
  OpensAt, ClosesAt, Threshold,
  Horizon,                   \* bound: the clock stops here
  MaxVersion,                \* bound: no more edits of a draft
  MaxAnnouncements           \* bound: no cancellation once the history is this long

ASSUME PublicationAssumption ==
  /\ OpensAt \in Nat /\ ClosesAt \in Nat /\ OpensAt < ClosesAt
  /\ Threshold \in Nat \ {0}
  /\ Horizon \in Nat /\ MaxVersion \in Nat \ {0} /\ MaxAnnouncements \in Nat

VARIABLES
  now,
  doc,          \* the document of the poll
  provisioned,  \* the version the files of its key ceremony are for, 0 without files
  pc, read, out,  \* per request: where it is, the document it found, the one to store
  phase, cast, history, outcome,  \* the election in the ballot service
  registered                      \* the version it was registered for, 0 before

election == <<phase, cast, history, outcome, registered>>
vars == <<now, doc, provisioned, pc, read, out, election>>

Ballot == INSTANCE Election WITH
  clock <- now,
  CredentialOf <- [b \in Ballots |-> b]

NewDraft == [state |-> "Draft", version |-> 1, linked |-> 0, removed |-> FALSE]

Init ==
  /\ now = 0
  /\ doc = NewDraft
  /\ provisioned = 0
  /\ pc = [r \in Requests |-> "idle"]
  /\ read = [r \in Requests |-> NewDraft]
  /\ out = [r \in Requests |-> NewDraft]
  /\ registered = 0
  /\ Ballot!Init

(* Mutant: a state the schema does not have. *)
CurrentTypo(d) ==
  [d EXCEPT !.state =
     IF @ \in {"Scheduled", "Open"} /\ now >= ClosesAt THEN "Closing"
     ELSE IF @ = "Scheduled" /\ now >= OpensAt THEN "Open"
     ELSE @]

(* currentPoll(): the state the clock implies, which a handler stores.     *)
Current(d) ==
  [d EXCEPT !.state =
     IF @ \in {"Scheduled", "Open"} /\ now >= ClosesAt THEN "Closed"
     ELSE IF @ = "Scheduled" /\ now >= OpensAt THEN "Open"
     ELSE @]

(* An approval holds the row of the poll (SELECT ... FOR UPDATE).          *)
RowFree == \A r \in Requests : pc[r] \notin {"approve", "approved"}

Goto(r, step) == pc' = [pc EXCEPT ![r] = step]

(* The handler has ended, and its documents are forgotten.                 *)
Finish(r) ==
  /\ Goto(r, "idle")
  /\ read' = [read EXCEPT ![r] = NewDraft]
  /\ out' = [out EXCEPT ![r] = NewDraft]

(* Mutant: a tombstone is not noticed. *)
FindAnything(r, step) ==
  /\ pc[r] = "idle"
  /\ Goto(r, step)
  /\ read' = [read EXCEPT ![r] = Current(doc)]
  /\ UNCHANGED <<now, doc, provisioned, out, election>>

(* find(): a removed poll is gone.                                         *)
Find(r, step) ==
  /\ pc[r] = "idle"
  /\ ~doc.removed
  /\ Goto(r, step)
  /\ read' = [read EXCEPT ![r] = Current(doc)]
  /\ UNCHANGED <<now, doc, provisioned, out, election>>

(* The ballot service has answered: what the handler is about to store.    *)
Answer(r, s, gone) ==
  /\ out' = [out EXCEPT ![r] = [read[r] EXCEPT !.state = s, !.removed = gone]]
  /\ Goto(r, "store")
  /\ UNCHANGED <<doc, provisioned, read>>

(* The UPDATE that ends close, demo-tally and incident.                    *)
Store(r) ==
  /\ pc[r] = "store"
  /\ RowFree
  /\ doc' = out[r]
  /\ Finish(r)
  /\ UNCHANGED <<now, provisioned, election>>

----------------------------------------------------------------------------
(* Drafts, rejections and appeals: one transaction each, on the row itself. *)

Change(from, to) ==
  /\ RowFree
  /\ ~doc.removed
  /\ doc.state = from
  /\ doc' = [doc EXCEPT !.state = to]
  /\ UNCHANGED <<now, provisioned, pc, read, out, election>>

Edit ==
  /\ RowFree
  /\ ~doc.removed
  /\ doc.state = "Draft"
  /\ doc.version < MaxVersion
  /\ doc' = [doc EXCEPT !.version = @ + 1]
  /\ UNCHANGED <<now, provisioned, pc, read, out, election>>

Submit == Change("Draft", "Review")

Reject == Change("Review", "Rejected")

(* An appeal is resolved by reopening the draft.                           *)
Reopen == Change("Rejected", "Draft")

----------------------------------------------------------------------------
(* POST /v1/polls/:id/review, an approval: one transaction.                *)

(* Mutant: an interrupted ceremony serves any content. *)
ApproveAnyCeremony(r) ==
  /\ pc[r] = "idle"
  /\ RowFree
  /\ ~doc.removed
  /\ doc.state = "Review"
  /\ now < ClosesAt
  /\ provisioned' = IF provisioned = 0 THEN doc.version ELSE provisioned
  /\ Goto(r, "approve")
  /\ read' = [read EXCEPT ![r] = doc]
  /\ out' = [out EXCEPT ![r] = [doc EXCEPT !.state = "Scheduled", !.linked = provisioned']]
  /\ UNCHANGED <<now, doc, election>>

(* The ceremony, made once and for one content (provision()).              *)
Approve(r) ==
  /\ pc[r] = "idle"
  /\ RowFree
  /\ ~doc.removed
  /\ doc.state = "Review"
  /\ now < ClosesAt
  /\ provisioned \in {0, doc.version}
  /\ provisioned' = doc.version
  /\ Goto(r, "approve")
  /\ read' = [read EXCEPT ![r] = doc]
  /\ out' = [out EXCEPT ![r] = [doc EXCEPT !.state = "Scheduled", !.linked = provisioned']]
  /\ UNCHANGED <<now, doc, election>>

(* The registration, which an earlier attempt may have made.  An attempt   *)
(* the handler no longer waits for ("late") may still arrive.              *)
ApproveRegister(r) ==
  /\ \/ now < ClosesAt /\ Ballot!Schedule /\ registered' = out[r].linked
     \/ registered = out[r].linked /\ UNCHANGED <<now, election>>
  /\ \/ pc[r] = "approve" /\ Goto(r, "approved") /\ UNCHANGED <<read, out>>
     \/ pc[r] = "late" /\ Finish(r)
  /\ UNCHANGED <<doc, provisioned>>

ApproveCommit(r) ==
  /\ pc[r] = "approved"
  /\ doc' = out[r]
  /\ Goto(r, "committed")
  /\ UNCHANGED <<now, provisioned, read, out, election>>

(* A repeated approval is answered with the poll.                          *)
ApproveAgain(r) ==
  /\ pc[r] = "idle"
  /\ RowFree
  /\ ~doc.removed
  /\ doc.linked # 0
  /\ Goto(r, "committed")
  /\ UNCHANGED <<now, doc, provisioned, read, out, election>>

(* After the commit the files of the ceremony are removed.                 *)
ApproveClean(r) ==
  /\ pc[r] = "committed"
  /\ provisioned' = 0
  /\ Finish(r)
  /\ UNCHANGED <<now, doc, election>>

(* The handler gives up waiting and rolls back: the ballot service may     *)
(* still be verifying.                                                     *)
ApproveTimeout(r) ==
  /\ pc[r] = "approve"
  /\ Goto(r, "late")
  /\ UNCHANGED <<now, doc, provisioned, read, out, election>>

----------------------------------------------------------------------------
(* POST /v1/polls/:id/close                                                *)

CloseFind(r) ==
  /\ doc.linked # 0
  /\ Find(r, "close")

(* The ballot service closes, or has closed, and answers with its state.   *)
CloseCall(r) ==
  /\ pc[r] = "close"
  /\ \/ Ballot!Close /\ UNCHANGED registered
     \/ phase \in {"Closed", "ResultsSuppressed"} /\ UNCHANGED <<now, election>>
  /\ Answer(r, phase', FALSE)

----------------------------------------------------------------------------
(* POST /v1/polls/:id/demo-tally                                           *)

TallyFind(r) ==
  /\ Current(doc).state \in {"Closed", "Tallying"}
  /\ Find(r, "tally")

(* From here on the handler counts on its own mark.                        *)
TallyMark(r) ==
  /\ pc[r] = "tally"
  /\ RowFree
  /\ doc' = [read[r] EXCEPT !.state = "Tallying"]
  /\ read' = [read EXCEPT ![r].state = "Tallying"]
  /\ Goto(r, "tallying")
  /\ UNCHANGED <<now, provisioned, out, election>>

(* scripts/tally.ts: three trustees fetch /internal/final, which only a    *)
(* closed election has, and send their shares, a quorum.                   *)
TallyScript(r) ==
  /\ pc[r] = "tallying"
  /\ phase = "Closed"
  /\ Goto(r, "counted")
  /\ UNCHANGED <<now, doc, provisioned, read, out, election>>

(* Mutant: a refusal of the ballot service is taken for an answer. *)
TallyCallUnchecked(r) ==
  /\ pc[r] = "counted"
  /\ \/ Ballot!Publish /\ UNCHANGED registered
     \/ phase # "Closed" /\ UNCHANGED <<now, election>>
  /\ Answer(r, "Published", FALSE)

TallyCall(r) ==
  /\ pc[r] = "counted"
  /\ \/ Ballot!Publish /\ UNCHANGED registered
     \/ phase = "Published" /\ UNCHANGED <<now, election>>
  /\ Answer(r, "Published", FALSE)

----------------------------------------------------------------------------
(* POST /v1/polls/:id/incident                                             *)

IncidentFind(r, action) ==
  /\ \/ action = "Invalidated" /\ Current(doc).state = "Published"
     \/ action = "Cancelled" /\ Current(doc).state \notin {"Published", "Invalidated"}
  /\ Find(r, action)

(* The ballot service is told first, if there is an election; a removal    *)
(* for legal reasons leaves a tombstone.                                   *)
IncidentCall(r, gone) ==
  /\ pc[r] \in {"Cancelled", "Invalidated"}
  /\ \/ read[r].linked = 0 /\ UNCHANGED <<now, election>>
     \/ read[r].linked # 0 /\ pc[r] = "Cancelled" /\ Len(history) < MaxAnnouncements
          /\ Ballot!Withdraw /\ UNCHANGED registered
     \/ read[r].linked # 0 /\ pc[r] = "Invalidated"
          /\ Ballot!Invalidate /\ UNCHANGED registered
  /\ Answer(r, pc[r], gone)

----------------------------------------------------------------------------
(* A handler that ends early: a refusal, a lost answer, a crash.           *)
Abort(r) ==
  /\ pc[r] # "idle"
  /\ Finish(r)
  /\ UNCHANGED <<now, doc, provisioned, election>>

(* Voters send their ballots to the ballot service, not to this one.       *)
Vote(b) ==
  /\ Ballot!Cast(b)
  /\ UNCHANGED <<doc, provisioned, pc, read, out, registered>>

Tick ==
  /\ now < Horizon
  /\ now' = now + 1
  /\ UNCHANGED <<doc, provisioned, pc, read, out, election>>

Next ==
  \/ Edit
  \/ Submit
  \/ Reject
  \/ Reopen
  \/ \E r \in Requests : Approve(r)
  \/ \E r \in Requests : ApproveRegister(r)
  \/ \E r \in Requests : ApproveCommit(r)
  \/ \E r \in Requests : ApproveAgain(r)
  \/ \E r \in Requests : ApproveClean(r)
  \/ \E r \in Requests : ApproveTimeout(r)
  \/ \E r \in Requests : CloseFind(r)
  \/ \E r \in Requests : CloseCall(r)
  \/ \E r \in Requests : TallyFind(r)
  \/ \E r \in Requests : TallyMark(r)
  \/ \E r \in Requests : TallyScript(r)
  \/ \E r \in Requests : TallyCall(r)
  \/ \E r \in Requests, action \in {"Cancelled", "Invalidated"} : IncidentFind(r, action)
  \/ \E r \in Requests, gone \in BOOLEAN : IncidentCall(r, gone)
  \/ \E r \in Requests : Store(r)
  \/ \E r \in Requests : Abort(r)
  \/ \E b \in Ballots : Vote(b)
  \/ Tick

Spec == Init /\ [][Next]_vars

(* A moderator who tallies again and again, handlers that end, and calls   *)
(* that fail now and then but not always.                                  *)
FairSpec ==
  /\ Spec
  /\ \A r \in Requests :
       /\ SF_vars(TallyFind(r))
       /\ SF_vars(TallyMark(r))
       /\ SF_vars(TallyScript(r))
       /\ SF_vars(TallyCall(r))
       /\ SF_vars(Store(r))
       /\ WF_vars(Abort(r))

----------------------------------------------------------------------------
DocStates == {"Draft", "Review", "Rejected", "Scheduled", "Open", "Closed",
              "ResultsSuppressed", "Tallying", "Published", "Cancelled", "Invalidated"}

Docs == [state : DocStates, version : 1 .. MaxVersion, linked : 0 .. MaxVersion,
         removed : BOOLEAN]

(* Types.                                                                  *)
TypeOK ==
  /\ now \in 0 .. Horizon
  /\ doc \in Docs
  /\ provisioned \in 0 .. MaxVersion /\ registered \in 0 .. MaxVersion
  /\ pc \in [Requests -> {"idle", "approve", "approved", "committed", "late", "close",
                          "tally", "tallying", "counted", "Cancelled", "Invalidated", "store"}]
  /\ read \in [Requests -> Docs]
  /\ out \in [Requests -> Docs]
  /\ cast \subseteq Ballots

Announced(s) == \E i \in DOMAIN history : history[i].phase = s

(* The public document never claims an outcome the ballot service has not  *)
(* announced, however late it was stored.                                  *)
OutcomeBacked ==
  doc.linked # 0 /\ doc.state \in {"ResultsSuppressed", "Published", "Cancelled", "Invalidated"}
    => Announced(doc.state)

(* A document that names an election shows the content the election was    *)
(* registered for, and the election is there: also after failed approvals, *)
(* edits of a reopened draft and stale stores.                             *)
ApprovedContentFrozen ==
  doc.linked # 0 =>
    /\ doc.version = doc.linked
    /\ doc.linked = registered
    /\ phase # "None"

(* The lifecycle of a document, with the ways back that the handlers have: *)
(* a rejection may be appealed, and a tally that was started before the    *)
(* ballot service had closed, or has failed, may be closed again.          *)
Lifecycle ==
  {<<"Draft", "Review">>, <<"Review", "Rejected">>, <<"Rejected", "Draft">>,
   <<"Review", "Scheduled">>, <<"Open", "Closed">>, <<"Closed", "ResultsSuppressed">>,
   <<"Closed", "Tallying">>, <<"Tallying", "Closed">>, <<"Tallying", "ResultsSuppressed">>,
   <<"Tallying", "Published">>,
   <<"Published", "Invalidated">>}
  \cup (DocStates \ {"Published", "Invalidated"}) \X {"Cancelled"}

(* A step in which no request stores what it found too long ago.           *)
Fresh == \A r \in Requests : pc'[r] # pc[r] => Current(read[r]) = Current(doc)

(* A handler that stores a document nobody else has changed keeps to the   *)
(* lifecycle, changes the content of drafts only, never unlinks a poll     *)
(* from its election and never brings back what was removed: every other   *)
(* change comes from a request that overlapped another one.                *)
LifecycleUnlessStale ==
  [][Fresh =>
       LET before == Current(doc) IN
       /\ doc'.state # before.state => doc' = doc \/ <<before.state, doc'.state>> \in Lifecycle
       /\ doc'.version # doc.version => doc.state = "Draft"
       /\ doc.linked # 0 => doc'.linked = doc.linked
       /\ doc.removed => doc'.removed]_vars

(* docs/OBSERVER.md: a removal replaces the public document with a         *)
(* tombstone, and there is no automatic republication.                     *)
RemovedStaysRemoved == [][doc.removed => doc'.removed]_vars

(* docs/REQUIREMENTS.md: Tallying leads to Published.  Once the ballot     *)
(* service has published the result, so does the public document, unless   *)
(* the result is invalidated.                                              *)
PublicationCompletes ==
  phase = "Published" ~> (doc.state = "Published" \/ phase # "Published")
=============================================================================
