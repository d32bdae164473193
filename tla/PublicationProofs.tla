------------------------- MODULE PublicationProofs -------------------------
(***************************************************************************)
(* The invariants of Publication, for every number of moderators' requests *)
(* in progress, of ballots, of edits and of announcements.                 *)
(*                                                                         *)
(* The election moves on while requests hold documents they found earlier, *)
(* so what is true of the stored document has to be true of every document *)
(* a request may still store (SoundDoc, RequestSound).  It stays true as   *)
(* an election is registered once, and its history only grows (Moves).     *)
(* Every step is a step of the election or none (NextElects), so a result  *)
(* that is shown was counted as the ballot service counts (Counted).       *)
(***************************************************************************)
EXTENDS Publication, TLAPS

Outcomes == {"ResultsSuppressed", "Published", "Cancelled", "Invalidated"}

Phases == {"Scheduled", "Open", "Closed"} \cup Outcomes

(* What the history says of the phase of the election.                     *)
ElectionSound ==
  /\ cast \subseteq Ballots
  /\ history \in Seq([phase : Phases, ballots : SUBSET Ballots])
  /\ phase \in {"None"} \cup Phases /\ (registered # 0 => phase # "None")
  /\ phase \in {"None", "Scheduled", "Open"} => \A i \in DOMAIN history : history[i].phase = "Scheduled"
  /\ phase \in {"Closed", "ResultsSuppressed"} =>
       now >= ClosesAt /\ \A i \in DOMAIN history : history[i].phase \in {"Scheduled", phase}
  /\ phase \in Outcomes => Announced(phase)

SoundDoc(d) ==
  d.linked # 0 =>
    /\ d.state \notin {"Draft", "Review", "Rejected"}
    /\ d.version = d.linked /\ d.linked = registered /\ phase # "None"
    /\ d.state \in Outcomes => Announced(d.state)

(* What a handler may store over what it found.                            *)
Ends(found, s) ==
  \/ /\ s \in {"Closed", "ResultsSuppressed"} /\ now >= ClosesAt
     /\ found \in {"Scheduled", "Open", "Closed", "Tallying", "ResultsSuppressed"}
     /\ found = "ResultsSuppressed" => s = "ResultsSuppressed"
  \/ found = "Tallying" /\ s = "Published"
  \/ found = "Published" /\ s = "Invalidated"
  \/ found \notin {"Published", "Invalidated"} /\ s = "Cancelled"

Approving == {"approve", "approved", "late"}

RequestSound(p, x, o) ==
  /\ SoundDoc(x)
  /\ p \notin Approving => SoundDoc(o)
  /\ p \in Approving =>
       /\ x.state = "Review" /\ x.linked = 0
       /\ o.state = "Scheduled" /\ o.linked = o.version /\ o.version = x.version /\ o.removed = x.removed
  /\ p = "approved" => registered = o.linked /\ phase # "None"
  /\ p \notin {"idle", "committed"} => ~x.removed
  /\ p = "close" => x.linked # 0
  /\ p = "tally" => x.state \in {"Closed", "Tallying"}
  /\ p \in {"tallying", "counted"} => x.state = "Tallying"
  /\ p = "Invalidated" => x.state = "Published"
  /\ p = "Cancelled" => x.state \notin {"Published", "Invalidated"}
  /\ p = "store" => o.version = x.version /\ o.linked = x.linked /\ Ends(x.state, o.state)

PublicationInv ==
  /\ TypeOK /\ ElectionSound /\ SoundDoc(doc)
  /\ \A r \in Requests : RequestSound(pc[r], read[r], out[r])

(* The election goes on; time and announcements are not taken back.        *)
Grown ==
  /\ phase # "None" => phase' # "None" /\ registered' = registered
  /\ \A s : Announced(s) => Announced(s)'
  /\ now <= now'

LEMMA Bounds ==
  /\ OpensAt \in Nat /\ ClosesAt \in Nat /\ OpensAt < ClosesAt
  /\ Horizon \in Nat /\ MaxVersion \in Nat /\ 1 <= MaxVersion
  BY PublicationAssumption DEF PublicationAssumption

LEMMA Types ==
  ASSUME TypeOK
  PROVE  now \in Nat /\ ClosesAt \in Nat /\ now \in 0 .. Horizon
  BY Bounds DEF TypeOK

LEMMA NewDraftSound ==
  NewDraft \in Docs /\ SoundDoc(NewDraft) /\ NewDraft.linked = 0 /\ RequestSound("idle", NewDraft, NewDraft)
<1>1. NewDraft \in Docs /\ NewDraft.linked = 0
  BY Bounds DEF NewDraft, Docs, DocStates
<1>2. SoundDoc(NewDraft)
  BY <1>1 DEF SoundDoc
<1>3. QED
  BY <1>1, <1>2 DEF RequestSound, Approving

LEMMA Committed ==
  ASSUME NEW x \in Docs, NEW o \in Docs, SoundDoc(x), SoundDoc(o)
  PROVE  RequestSound("committed", x, o)
  BY DEF RequestSound, Approving

(* Whatever was sound stays so when the election goes on.                  *)
LEMMA SoundDocStays ==
  ASSUME Grown, NEW d, SoundDoc(d)
  PROVE  d.linked # 0 => /\ d.state \notin {"Draft", "Review", "Rejected"}
                         /\ d.version = d.linked /\ d.linked = registered' /\ phase' # "None"
                         /\ d.state \in Outcomes => Announced(d.state)'
<1>1. phase # "None" => phase' # "None" /\ registered' = registered
  BY DEF Grown
<1>2. Announced(d.state) => Announced(d.state)'
  BY DEF Grown
<1>3. QED
  BY <1>1, <1>2 DEF SoundDoc

LEMMA StillSound ==
  ASSUME now \in Nat, now' \in Nat, Grown, NEW p, NEW x, NEW o, RequestSound(p, x, o)
  PROVE  RequestSound(p, x, o)'
<1>1. SoundDoc(x)'
  BY SoundDocStays DEF RequestSound, SoundDoc
<1>2. SoundDoc(o) => SoundDoc(o)'
  BY SoundDocStays DEF SoundDoc
<1>3. Ends(x.state, o.state) => Ends(x.state, o.state)'
  <2>1. now >= ClosesAt => now' >= ClosesAt
    BY Bounds DEF Grown
  <2>2. QED
    BY <2>1 DEF Ends
<1>4. phase # "None" => phase' # "None" /\ registered' = registered
  BY DEF Grown
<1>5. QED
  BY <1>1, <1>2, <1>3, <1>4 DEF RequestSound

LEMMA RequestsStay ==
  ASSUME TypeOK, TypeOK', Grown, NEW r \in Requests, pc'[r] = pc[r], read'[r] = read[r], out'[r] = out[r],
         RequestSound(pc[r], read[r], out[r])
  PROVE  RequestSound(pc[r], read[r], out[r])'
<1>1. PICK p, x, o : p = pc[r] /\ x = read[r] /\ o = out[r]
  OBVIOUS
<1>2. now \in Nat /\ now' \in Nat
  BY Types DEF TypeOK
<1>3. RequestSound(p, x, o)'
  BY <1>1, <1>2, StillSound
<1>4. QED
  BY <1>1, <1>3

LEMMA Together ==
  ASSUME PublicationInv, TypeOK', ElectionSound', Grown, SoundDoc(doc)', NEW r \in Requests,
         \A q \in Requests : q # r => pc'[q] = pc[q] /\ read'[q] = read[q] /\ out'[q] = out[q],
         RequestSound(pc[r], read[r], out[r])'
  PROVE  PublicationInv'
<1>1. ASSUME NEW q \in Requests PROVE RequestSound(pc[q], read[q], out[q])'
  <2>1. CASE q # r
    BY <2>1, RequestsStay DEF PublicationInv
  <2>2. CASE q = r
    BY <2>2
  <2>3. QED
    BY <2>1, <2>2
<1>2. QED
  BY <1>1 DEF PublicationInv

LEMMA StandsStill ==
  ASSUME PublicationInv, UNCHANGED <<now, election>>
  PROVE  Grown /\ ElectionSound'
<1>1. UNCHANGED <<now, phase, cast, history, registered>>
  BY DEF election
<1>2. now <= now'
  BY <1>1, Types DEF PublicationInv
<1>3. ElectionSound'
  BY <1>1 DEF PublicationInv, ElectionSound, Announced
<1>4. QED
  BY <1>1, <1>2, <1>3 DEF Grown, Announced

(* One announcement more.                                                  *)
LEMMA Announcement ==
  ASSUME PublicationInv, NEW p \in Phases \ {"Open"}, Ballot!Announce(p), UNCHANGED <<now, cast>>,
         phase # "None" => registered' = registered,
         p = "Scheduled" => phase = "None",
         p \in {"Closed", "ResultsSuppressed"} => phase \in {"Scheduled", "Open"} /\ now >= ClosesAt
  PROVE  Grown /\ ElectionSound' /\ phase' = p /\ Announced(p)'
<1> DEFINE E == [phase : Phases, ballots : SUBSET Ballots]
<1> DEFINE a == [phase |-> p, ballots |-> cast]
<1>1. history \in Seq(E) /\ history' = Append(history, a) /\ phase' = p /\ a \in E /\ a.phase = p
  BY DEF PublicationInv, ElectionSound, Ballot!Announce
<1> HIDE DEF E, a
<1>2. /\ history' \in Seq(E) /\ DOMAIN history' = 1 .. Len(history) + 1 /\ DOMAIN history = 1 .. Len(history)
      /\ Len(history) \in Nat /\ history'[Len(history) + 1] = a
      /\ \A i \in 1 .. Len(history) : history'[i] = history[i]
  BY <1>1
<1>3. \A i \in DOMAIN history : i \in DOMAIN history' /\ history'[i] = history[i]
  BY <1>2
<1>4. Len(history) + 1 \in DOMAIN history' /\ \A i \in DOMAIN history' : i \in DOMAIN history \/ history'[i] = a
  BY <1>2
<1>5. \A s : Announced(s) => Announced(s)'
  BY <1>3 DEF Announced
<1>6. Announced(p)'
  BY <1>1, <1>2, <1>4 DEF Announced
<1>7. Grown
  BY <1>1, <1>5, Types DEF Grown, Phases, Outcomes, PublicationInv
<1>8. \A i \in DOMAIN history' : history'[i].phase = p \/ (i \in DOMAIN history /\ history'[i].phase = history[i].phase)
  BY <1>1, <1>3, <1>4
<1>9. phase \in {"None", "Scheduled", "Open"} => \A i \in DOMAIN history' : history'[i].phase \in {"Scheduled", p}
  BY <1>8 DEF PublicationInv, ElectionSound
<1>10. ElectionSound'
  BY <1>1, <1>2, <1>6, <1>9 DEF ElectionSound, PublicationInv, E, Phases, Outcomes
<1>11. QED
  BY <1>1, <1>6, <1>7, <1>10

LEMMA RegisterMoves ==
  ASSUME PublicationInv, NEW n \in Nat, Ballot!Schedule, registered' = n
  PROVE  Grown /\ ElectionSound' /\ registered' = n /\ phase' # "None" /\ UNCHANGED <<now, cast>>
<1>1. Ballot!Announce("Scheduled") /\ UNCHANGED <<now, cast>> /\ phase = "None"
  BY DEF Ballot!Schedule
<1>2. QED
  BY <1>1, Announcement DEF Phases, Outcomes

LEMMA CloseMoves ==
  ASSUME PublicationInv, Ballot!Close, UNCHANGED registered
  PROVE  /\ Grown /\ ElectionSound' /\ UNCHANGED <<now, cast>>
         /\ phase' \in {"Closed", "ResultsSuppressed"} /\ phase \in {"Scheduled", "Open"}
<1>1. PICK p \in {"Closed", "ResultsSuppressed"} : Ballot!Announce(p)
  BY DEF Ballot!Close
<1>2. UNCHANGED <<now, cast>> /\ phase \in {"Scheduled", "Open"} /\ now >= ClosesAt
  BY DEF Ballot!Close
<1>3. QED
  BY <1>1, <1>2, Announcement DEF Phases, Outcomes

LEMMA PublishMoves ==
  ASSUME PublicationInv, Ballot!Publish, UNCHANGED registered
  PROVE  Grown /\ ElectionSound' /\ UNCHANGED <<now, cast>> /\ Announced("Published")'
<1>1. Ballot!Announce("Published") /\ UNCHANGED <<now, cast>>
  BY DEF Ballot!Publish
<1>2. QED
  BY <1>1, Announcement DEF Phases, Outcomes

LEMMA WithdrawMoves ==
  ASSUME PublicationInv, Ballot!Withdraw, UNCHANGED registered
  PROVE  Grown /\ ElectionSound' /\ UNCHANGED <<now, cast>> /\ Announced("Cancelled")'
<1>1. Ballot!Announce("Cancelled") /\ UNCHANGED <<now, cast>>
  BY DEF Ballot!Withdraw
<1>2. QED
  BY <1>1, Announcement DEF Phases, Outcomes

LEMMA InvalidateMoves ==
  ASSUME PublicationInv, Ballot!Invalidate, UNCHANGED registered
  PROVE  Grown /\ ElectionSound' /\ UNCHANGED <<now, cast>> /\ Announced("Invalidated")'
<1>1. Ballot!Announce("Invalidated") /\ UNCHANGED <<now, cast>>
  BY DEF Ballot!Invalidate
<1>2. QED
  BY <1>1, Announcement DEF Phases, Outcomes

LEMMA CastMoves ==
  ASSUME PublicationInv, NEW b \in Ballots, Ballot!Cast(b), UNCHANGED registered
  PROVE  Grown /\ ElectionSound' /\ UNCHANGED now /\ cast' \subseteq Ballots
<1>1. phase \in {"Scheduled", "Open"} /\ phase' = "Open" /\ cast' = cast \cup {b} /\ UNCHANGED <<now, history>>
  BY DEF Ballot!Cast
<1>2. Grown
  BY <1>1, Types DEF Grown, Announced, PublicationInv
<1>3. ElectionSound'
  BY <1>1 DEF PublicationInv, ElectionSound, Phases, Outcomes
<1>4. QED
  BY <1>1, <1>2, <1>3 DEF PublicationInv, ElectionSound

-----------------------------------------------------------------------------
(* The typed part of a step of one request.                                *)
LEMMA TypesKept ==
  ASSUME TypeOK, NEW r \in Requests, NEW step, NEW x \in Docs, NEW o \in Docs,
         pc' = [pc EXCEPT ![r] = step], read' = [read EXCEPT ![r] = x], out' = [out EXCEPT ![r] = o],
         step \in {"idle", "approve", "approved", "committed", "late", "close",
                   "tally", "tallying", "counted", "Cancelled", "Invalidated", "store"},
         UNCHANGED now, doc' \in Docs, provisioned' \in 0 .. MaxVersion, registered' \in 0 .. MaxVersion,
         cast' \subseteq Ballots
  PROVE  /\ TypeOK' /\ pc'[r] = step /\ read'[r] = x /\ out'[r] = o
         /\ \A q \in Requests : q # r => pc'[q] = pc[q] /\ read'[q] = read[q] /\ out'[q] = out[q]
  BY DEF TypeOK

(* A step of one request: what is left to show is that the documents it    *)
(* holds, and the one it stores, are sound.                                *)
LEMMA RequestStep ==
  ASSUME PublicationInv, ElectionSound', Grown, NEW r \in Requests, NEW step, NEW x \in Docs, NEW o \in Docs,
         pc' = [pc EXCEPT ![r] = step], read' = [read EXCEPT ![r] = x], out' = [out EXCEPT ![r] = o],
         step \in {"idle", "approve", "approved", "committed", "late", "close",
                   "tally", "tallying", "counted", "Cancelled", "Invalidated", "store"},
         UNCHANGED now, doc' \in Docs, provisioned' \in 0 .. MaxVersion, registered' \in 0 .. MaxVersion,
         SoundDoc(doc)', RequestSound(step, x, o)'
  PROVE  PublicationInv'
<1>1. TypeOK' /\ pc'[r] = step /\ read'[r] = x /\ out'[r] = o
        /\ \A q \in Requests : q # r => pc'[q] = pc[q] /\ read'[q] = read[q] /\ out'[q] = out[q]
  BY TypesKept DEF PublicationInv, ElectionSound
<1>2. RequestSound(pc[r], read[r], out[r])'
  BY <1>1
<1>3. QED
  BY <1>1, <1>2, Together

LEMMA DocStays ==
  ASSUME PublicationInv, Grown, UNCHANGED doc
  PROVE  SoundDoc(doc)' /\ doc' \in Docs
  BY SoundDocStays DEF PublicationInv, SoundDoc, TypeOK

LEMMA RequestTypes ==
  ASSUME TypeOK, NEW r \in Requests
  PROVE  /\ read[r] \in Docs /\ out[r] \in Docs /\ doc \in Docs
         /\ read = [read EXCEPT ![r] = read[r]] /\ out = [out EXCEPT ![r] = out[r]]
         /\ provisioned \in 0 .. MaxVersion /\ registered \in 0 .. MaxVersion
  BY DEF TypeOK

LEMMA CurrentTyped ==
  ASSUME NEW d \in Docs
  PROVE  /\ Current(d) \in Docs
         /\ Current(d).version = d.version /\ Current(d).linked = d.linked /\ Current(d).removed = d.removed
         /\ Current(d).state = d.state \/ (d.state \in {"Scheduled", "Open"} /\ Current(d).state \in {"Open", "Closed"})
  BY DEF Current, Docs, DocStates

LEMMA CurrentSound ==
  ASSUME NEW d \in Docs, SoundDoc(d)
  PROVE  SoundDoc(Current(d))
  BY CurrentTyped DEF SoundDoc, Outcomes

LEMMA FinishKeeps ==
  ASSUME PublicationInv, ElectionSound', Grown, NEW r \in Requests, Finish(r), UNCHANGED now,
         doc' \in Docs, provisioned' \in 0 .. MaxVersion, registered' \in 0 .. MaxVersion, SoundDoc(doc)'
  PROVE  PublicationInv'
<1>1. /\ pc' = [pc EXCEPT ![r] = "idle"] /\ read' = [read EXCEPT ![r] = NewDraft]
      /\ out' = [out EXCEPT ![r] = NewDraft] /\ NewDraft \in Docs
  BY NewDraftSound DEF Finish, Goto
<1>2. RequestSound("idle", NewDraft, NewDraft)'
  BY NewDraftSound DEF RequestSound, SoundDoc, Approving
<1>3. QED
  BY <1>1, <1>2, RequestStep

LEMMA FindKeeps ==
  ASSUME PublicationInv, NEW r \in Requests, NEW step \in {"close", "tally", "Cancelled", "Invalidated"}, Find(r, step),
         step = "close" => doc.linked # 0,
         step = "tally" => Current(doc).state \in {"Closed", "Tallying"},
         step = "Invalidated" => Current(doc).state = "Published",
         step = "Cancelled" => Current(doc).state \notin {"Published", "Invalidated"}
  PROVE  PublicationInv'
<1>1. /\ TypeOK /\ pc' = [pc EXCEPT ![r] = step] /\ read' = [read EXCEPT ![r] = Current(doc)] /\ pc[r] = "idle"
      /\ UNCHANGED <<now, doc, provisioned, out, election>> /\ ~doc.removed
  BY DEF Find, Goto, PublicationInv
<1>2. Grown /\ ElectionSound' /\ UNCHANGED <<registered, phase, history>>
  BY <1>1, StandsStill DEF election
<1>3. SoundDoc(doc)' /\ doc' \in Docs
  BY <1>1, <1>2, DocStays
<1>4. /\ Current(doc) \in Docs /\ out[r] \in Docs /\ out' = [out EXCEPT ![r] = out[r]]
      /\ provisioned' \in 0 .. MaxVersion /\ registered' \in 0 .. MaxVersion
  BY <1>1, <1>2, RequestTypes, CurrentTyped
<1>5. SoundDoc(Current(doc)) /\ SoundDoc(out[r]) /\ Current(doc).removed = FALSE /\ Current(doc).linked = doc.linked
  BY <1>1, RequestTypes, CurrentTyped, CurrentSound DEF PublicationInv, RequestSound, Approving, Docs
<1>6. RequestSound(step, Current(doc), out[r])
  BY <1>5 DEF RequestSound, Approving
<1>7. PICK x \in Docs, o \in Docs : x = Current(doc) /\ o = out[r]
  BY <1>4
<1>8. RequestSound(step, x, o) /\ read' = [read EXCEPT ![r] = x] /\ out' = [out EXCEPT ![r] = o]
  BY <1>1, <1>4, <1>6, <1>7
<1>9. RequestSound(step, x, o)'
  BY <1>1, <1>2, <1>8, StillSound, Types
<1>10. QED
  BY <1>1, <1>2, <1>3, <1>4, <1>8, <1>9, RequestStep

(* The ballot service has answered what the handler may store.             *)
LEMMA AnswerKeeps ==
  ASSUME PublicationInv, ElectionSound', Grown, UNCHANGED now, registered' \in 0 .. MaxVersion,
         NEW r \in Requests, NEW s \in DocStates \ {"Draft", "Review", "Rejected"}, NEW gone \in BOOLEAN,
         Answer(r, s, gone), pc[r] \notin Approving \cup {"idle", "committed"},
         Ends(read[r].state, s), read[r].linked # 0 /\ s \in Outcomes => Announced(s)'
  PROVE  PublicationInv'
<1>1. /\ out' = [out EXCEPT ![r] = [read[r] EXCEPT !.state = s, !.removed = gone]] /\ pc' = [pc EXCEPT ![r] = "store"]
      /\ UNCHANGED <<doc, provisioned, read>>
  BY DEF Answer, Goto
<1>2. /\ read[r] \in Docs /\ read' = [read EXCEPT ![r] = read[r]] /\ provisioned' \in 0 .. MaxVersion
      /\ now \in Nat /\ now' \in Nat
  BY <1>1, RequestTypes, Types DEF PublicationInv
<1>3. PICK x \in Docs : x = read[r]
  BY <1>2
<1> DEFINE o == [x EXCEPT !.state = s, !.removed = gone]
<1>4. o \in Docs /\ o.state = s /\ o.version = x.version /\ o.linked = x.linked
  BY DEF Docs
<1>5. read' = [read EXCEPT ![r] = x] /\ out' = [out EXCEPT ![r] = o]
  BY <1>1, <1>2, <1>3
<1> HIDE DEF o
<1>6. SoundDoc(x) /\ ~x.removed /\ Ends(x.state, s)
  BY <1>3 DEF PublicationInv, RequestSound
<1>7. SoundDoc(x)' /\ Ends(x.state, s)'
  BY <1>2, <1>6, SoundDocStays DEF SoundDoc, Ends
<1>8. SoundDoc(o)'
  BY <1>3, <1>4, <1>7 DEF SoundDoc
<1>9. RequestSound("store", x, o)'
  BY <1>4, <1>6, <1>7, <1>8 DEF RequestSound, Approving
<1>10. SoundDoc(doc)' /\ doc' \in Docs
  BY <1>1, DocStays
<1>11. QED
  BY <1>1, <1>2, <1>4, <1>5, <1>9, <1>10, RequestStep

LEMMA CloseCallKeeps ==
  ASSUME PublicationInv, NEW r \in Requests, CloseCall(r)
  PROVE  PublicationInv'
<1>1. pc[r] = "close" /\ Answer(r, phase', FALSE)
  BY DEF CloseCall
<1>2. SoundDoc(read[r]) /\ read[r].linked # 0 /\ read[r] \in Docs /\ RequestSound(pc[r], read[r], out[r])
  BY <1>1, RequestTypes DEF PublicationInv, RequestSound
<1>3. ElectionSound' /\ Grown /\ UNCHANGED <<now, registered>> /\ phase' \in {"Closed", "ResultsSuppressed"}
  <2>1. CASE Ballot!Close /\ UNCHANGED registered
    BY <2>1, CloseMoves
  <2>2. CASE phase \in {"Closed", "ResultsSuppressed"} /\ UNCHANGED <<now, election>>
    BY <2>2, StandsStill DEF election
  <2>3. QED
    BY <2>1, <2>2 DEF CloseCall
<1>4. PICK s : s = phase'
  OBVIOUS
<1>5. s \in {"Closed", "ResultsSuppressed"} /\ Answer(r, s, FALSE) /\ s \in DocStates \ {"Draft", "Review", "Rejected"}
  BY <1>1, <1>3, <1>4 DEF DocStates
<1>6. now >= ClosesAt /\ \A i \in DOMAIN history' : history'[i].phase \in {"Scheduled", s}
  BY <1>3, <1>4, <1>5 DEF ElectionSound
<1>7. \A t \in Outcomes : Announced(t)' => t = s
  BY <1>6 DEF Announced, Outcomes
<1>8. read[r].state \in Outcomes => read[r].state = s
  <2>1. read[r].state \in Outcomes => Announced(read[r].state)
    BY <1>2 DEF SoundDoc
  <2>2. PICK t : t = read[r].state
    OBVIOUS
  <2>3. t \in Outcomes => Announced(t)'
    BY <1>3, <2>1, <2>2 DEF Grown
  <2>4. QED
    BY <1>7, <2>2, <2>3
<1>9. Ends(read[r].state, s)
  <2>1. read[r].state \in DocStates \ {"Draft", "Review", "Rejected"}
    BY <1>2 DEF SoundDoc, Docs
  <2>2. QED
    BY <1>5, <1>6, <1>8, <2>1 DEF Ends, DocStates, Outcomes
<1>10. s \in Outcomes => Announced(s)'
  BY <1>3, <1>4 DEF ElectionSound
<1>11. registered' \in 0 .. MaxVersion
  BY <1>3, RequestTypes DEF PublicationInv
<1>12. QED
  BY <1>1, <1>3, <1>5, <1>9, <1>10, <1>11, AnswerKeeps DEF Approving

LEMMA TallyCallKeeps ==
  ASSUME PublicationInv, NEW r \in Requests, TallyCall(r)
  PROVE  PublicationInv'
<1>1. pc[r] = "counted" /\ Answer(r, "Published", FALSE) /\ read[r].state = "Tallying"
  BY DEF TallyCall, PublicationInv, RequestSound
<1>2. ElectionSound' /\ Grown /\ UNCHANGED <<now, registered>> /\ Announced("Published")'
  <2>1. CASE Ballot!Publish /\ UNCHANGED registered
    BY <2>1, PublishMoves
  <2>2. CASE phase = "Published" /\ UNCHANGED <<now, election>>
    <3>1. ElectionSound' /\ Grown /\ UNCHANGED <<now, registered, phase>>
      BY <2>2, StandsStill DEF election
    <3>2. QED
      BY <2>2, <3>1 DEF ElectionSound, Outcomes
  <2>3. QED
    BY <2>1, <2>2 DEF TallyCall
<1>3. registered' \in 0 .. MaxVersion
  BY <1>2, RequestTypes DEF PublicationInv
<1>4. Ends(read[r].state, "Published") /\ "Published" \in DocStates \ {"Draft", "Review", "Rejected"}
  BY <1>1 DEF Ends, DocStates
<1>5. QED
  BY <1>1, <1>2, <1>3, <1>4, AnswerKeeps DEF Approving

LEMMA IncidentCallKeeps ==
  ASSUME PublicationInv, NEW r \in Requests, NEW gone \in BOOLEAN, IncidentCall(r, gone)
  PROVE  PublicationInv'
<1>1. PICK s \in {"Cancelled", "Invalidated"} : pc[r] = s /\ Answer(r, s, gone)
  BY DEF IncidentCall
<1>2. ElectionSound' /\ Grown /\ UNCHANGED <<now, registered>> /\ (read[r].linked # 0 => Announced(s)')
  <2>1. CASE read[r].linked = 0 /\ UNCHANGED <<now, election>>
    BY <2>1, StandsStill DEF election
  <2>2. CASE s = "Cancelled" /\ Ballot!Withdraw /\ UNCHANGED registered
    BY <2>2, WithdrawMoves
  <2>3. CASE s = "Invalidated" /\ Ballot!Invalidate /\ UNCHANGED registered
    BY <2>3, InvalidateMoves
  <2>4. QED
    BY <1>1, <2>1, <2>2, <2>3 DEF IncidentCall
<1>3. registered' \in 0 .. MaxVersion
  BY <1>2, RequestTypes DEF PublicationInv
<1>4. Ends(read[r].state, s) /\ s \in DocStates \ {"Draft", "Review", "Rejected"}
  BY <1>1 DEF Ends, DocStates, PublicationInv, RequestSound
<1>5. QED
  BY <1>1, <1>2, <1>3, <1>4, AnswerKeeps DEF Approving

(* Steps that are not of a request.                                        *)
LEMMA NoRequest ==
  ASSUME PublicationInv, ElectionSound', Grown, TypeOK', SoundDoc(doc)', UNCHANGED <<pc, read, out>>
  PROVE  PublicationInv'
<1>1. \A r \in Requests : RequestSound(pc[r], read[r], out[r])'
  BY RequestsStay DEF PublicationInv
<1>2. QED
  BY <1>1 DEF PublicationInv

LEMMA DraftKeeps ==
  ASSUME PublicationInv, Edit \/ Submit \/ Reject \/ Reopen
  PROVE  PublicationInv'
<1>1. doc \in Docs /\ SoundDoc(doc) /\ TypeOK
  BY DEF PublicationInv, TypeOK
<1>2. UNCHANGED <<now, provisioned, pc, read, out, election>> /\ doc.state \in {"Draft", "Review", "Rejected"}
  BY DEF Edit, Submit, Reject, Reopen, Change
<1>3. doc.linked = 0
  BY <1>1, <1>2 DEF SoundDoc
<1>4. doc' \in Docs /\ doc'.linked = 0
  <2>1. CASE Edit
    BY <1>1, <1>3, <2>1, Bounds DEF Edit, Docs
  <2>2. ASSUME NEW from \in DocStates, NEW to \in DocStates, Change(from, to) PROVE doc' \in Docs /\ doc'.linked = 0
    BY <1>1, <1>3, <2>2 DEF Change, Docs
  <2>3. QED
    BY <2>1, <2>2 DEF Submit, Reject, Reopen, DocStates
<1>5. Grown /\ ElectionSound' /\ UNCHANGED <<registered, cast>>
  BY <1>2, StandsStill DEF election
<1>6. TypeOK'
  BY <1>1, <1>2, <1>4, <1>5 DEF TypeOK
<1>7. SoundDoc(doc)'
  BY <1>4 DEF SoundDoc
<1>8. QED
  BY <1>2, <1>5, <1>6, <1>7, NoRequest

LEMMA VoteKeeps ==
  ASSUME PublicationInv, NEW b \in Ballots, Vote(b)
  PROVE  PublicationInv'
<1>1. Ballot!Cast(b) /\ UNCHANGED <<doc, provisioned, pc, read, out, registered>>
  BY DEF Vote
<1>2. Grown /\ ElectionSound' /\ UNCHANGED now /\ cast' \subseteq Ballots
  BY <1>1, CastMoves
<1>3. TypeOK'
  BY <1>1, <1>2 DEF PublicationInv, TypeOK
<1>4. QED
  BY <1>1, <1>2, <1>3, NoRequest, DocStays

LEMMA TickKeeps ==
  ASSUME PublicationInv, Tick
  PROVE  PublicationInv'
<1>1. now' = now + 1 /\ now < Horizon /\ UNCHANGED <<doc, provisioned, pc, read, out, phase, cast, history, registered>>
  BY DEF Tick, election
<1>2. now' \in 0 .. Horizon /\ now <= now'
  BY <1>1, Types, Bounds DEF PublicationInv
<1>3. Grown
  BY <1>1, <1>2 DEF Grown, Announced
<1>4. now >= ClosesAt => now' >= ClosesAt
  BY <1>1, Types DEF PublicationInv
<1>5. ElectionSound'
  BY <1>1, <1>4 DEF PublicationInv, ElectionSound, Announced
<1>6. TypeOK'
  BY <1>1, <1>2 DEF PublicationInv, TypeOK
<1>7. QED
  BY <1>1, <1>3, <1>5, <1>6, NoRequest, DocStays

LEMMA ApproveBeginKeeps ==
  ASSUME PublicationInv, NEW r \in Requests, Approve(r)
  PROVE  PublicationInv'
<1>1. /\ doc.state = "Review" /\ ~doc.removed /\ pc' = [pc EXCEPT ![r] = "approve"] /\ read' = [read EXCEPT ![r] = doc]
      /\ out' = [out EXCEPT ![r] = [doc EXCEPT !.state = "Scheduled", !.linked = provisioned']]
      /\ provisioned' = doc.version /\ UNCHANGED <<now, doc, election>>
  BY DEF Approve, Goto
<1>2. doc \in Docs /\ SoundDoc(doc) /\ registered \in 0 .. MaxVersion
  BY DEF PublicationInv, TypeOK
<1>3. Grown /\ ElectionSound' /\ UNCHANGED registered
  BY <1>1, StandsStill DEF election
<1>4. PICK x \in Docs : x = doc
  BY <1>2
<1> DEFINE o == [x EXCEPT !.state = "Scheduled", !.linked = x.version]
<1>5. /\ o \in Docs /\ o.state = "Scheduled" /\ o.linked = o.version /\ o.version = x.version /\ o.removed = x.removed
      /\ x.version \in 0 .. MaxVersion
  <2>1. x.version \in 1 .. MaxVersion /\ x.version \in 0 .. MaxVersion
    BY Bounds DEF Docs
  <2>2. QED
    BY <2>1 DEF Docs, DocStates
<1>6. read' = [read EXCEPT ![r] = x] /\ out' = [out EXCEPT ![r] = o] /\ provisioned' \in 0 .. MaxVersion
  BY <1>1, <1>4, <1>5
<1> HIDE DEF o
<1>7. x.state = "Review" /\ x.linked = 0 /\ ~x.removed
  BY <1>1, <1>2, <1>4 DEF SoundDoc
<1>8. RequestSound("approve", x, o)'
  BY <1>5, <1>7 DEF RequestSound, Approving, SoundDoc
<1>9. SoundDoc(doc)' /\ doc' \in Docs
  BY <1>1, <1>3, DocStays
<1>10. QED
  BY <1>1, <1>2, <1>3, <1>5, <1>6, <1>8, <1>9, RequestStep

(* A request goes on with the documents it has.                            *)
LEMMA GotoKeeps ==
  ASSUME PublicationInv, ElectionSound', Grown, UNCHANGED <<now, provisioned, read, out>>,
         registered' \in 0 .. MaxVersion, doc' \in Docs, SoundDoc(doc)', NEW r \in Requests,
         NEW step \in {"approve", "approved", "committed", "late", "counted"}, Goto(r, step),
         RequestSound(step, read[r], out[r])'
  PROVE  PublicationInv'
<1>1. pc' = [pc EXCEPT ![r] = step] /\ provisioned' \in 0 .. MaxVersion
  BY RequestTypes DEF Goto, PublicationInv
<1>2. PICK x \in Docs, o \in Docs : x = read[r] /\ o = out[r]
  BY RequestTypes DEF PublicationInv
<1>3. read' = [read EXCEPT ![r] = x] /\ out' = [out EXCEPT ![r] = o] /\ x = read'[r] /\ o = out'[r]
  BY <1>2, RequestTypes DEF PublicationInv
<1>4. RequestSound(step, x, o)'
  BY <1>3
<1>5. QED
  BY <1>1, <1>3, <1>4, RequestStep

LEMMA RegisterKeeps ==
  ASSUME PublicationInv, NEW r \in Requests, ApproveRegister(r)
  PROVE  PublicationInv'
<1>1. pc[r] \in {"approve", "late"} /\ UNCHANGED <<doc, provisioned>> /\ RequestSound(pc[r], read[r], out[r])
        /\ out[r] \in Docs /\ read[r] \in Docs
  BY RequestTypes DEF ApproveRegister, PublicationInv
<1>2. out[r].linked \in 1 .. MaxVersion
  BY <1>1, Bounds DEF RequestSound, Approving, Docs
<1>3. Grown /\ ElectionSound' /\ registered' = out[r].linked /\ phase' # "None" /\ UNCHANGED now
  <2>1. CASE Ballot!Schedule /\ registered' = out[r].linked
    <3>1. PICK n \in Nat : n = out[r].linked
      BY <1>2
    <3>2. registered' = n
      BY <2>1, <3>1
    <3>3. QED
      BY <2>1, <3>1, <3>2, RegisterMoves
  <2>2. CASE registered = out[r].linked /\ UNCHANGED <<now, election>>
    <3>1. Grown /\ ElectionSound' /\ UNCHANGED <<registered, phase>>
      BY <2>2, StandsStill DEF election
    <3>2. phase # "None"
      BY <1>2, <2>2 DEF PublicationInv, ElectionSound
    <3>3. QED
      BY <2>2, <3>1, <3>2
  <2>3. QED
    BY <2>1, <2>2 DEF ApproveRegister
<1>4. registered' \in 0 .. MaxVersion /\ SoundDoc(doc)' /\ doc' \in Docs
  BY <1>1, <1>2, <1>3, DocStays
<1>5. CASE pc[r] = "late"
  <2>1. Finish(r) /\ provisioned' \in 0 .. MaxVersion
    BY <1>1, <1>5, RequestTypes DEF ApproveRegister, PublicationInv
  <2>2. QED
    BY <1>3, <1>4, <2>1, FinishKeeps
<1>6. CASE pc[r] = "approve"
  <2>1. Goto(r, "approved") /\ UNCHANGED <<read, out, provisioned>>
    BY <1>1, <1>6 DEF ApproveRegister
  <2>2. RequestSound("approved", read[r], out[r])'
    BY <1>1, <1>3, <1>6, <2>1 DEF RequestSound, Approving, SoundDoc
  <2>3. QED
    BY <1>3, <1>4, <2>1, <2>2, GotoKeeps
<1>7. QED
  BY <1>1, <1>5, <1>6

LEMMA ApproveEndKeeps ==
  ASSUME PublicationInv, NEW r \in Requests,
         ApproveCommit(r) \/ ApproveAgain(r) \/ ApproveClean(r) \/ ApproveTimeout(r)
  PROVE  PublicationInv'
<1>1. /\ UNCHANGED <<now, election>> /\ read[r] \in Docs /\ out[r] \in Docs /\ registered \in 0 .. MaxVersion
      /\ RequestSound(pc[r], read[r], out[r])
  BY RequestTypes DEF PublicationInv, ApproveCommit, ApproveAgain, ApproveClean, ApproveTimeout
<1>2. Grown /\ ElectionSound' /\ UNCHANGED <<registered, phase, history, now>>
  BY <1>1, StandsStill DEF election
<1>3. CASE ApproveCommit(r)
  <2>1. pc[r] = "approved" /\ doc' = out[r] /\ Goto(r, "committed") /\ UNCHANGED <<provisioned, read, out>>
    BY <1>3 DEF ApproveCommit
  <2>2. SoundDoc(out[r])
    BY <1>1, <2>1 DEF RequestSound, SoundDoc, Approving, Outcomes
  <2>3. SoundDoc(doc)' /\ SoundDoc(out[r])' /\ SoundDoc(read[r])'
    BY <1>1, <1>2, <2>1, <2>2 DEF SoundDoc, Announced, RequestSound
  <2>4. RequestSound("committed", read[r], out[r])'
    BY <2>3 DEF RequestSound, Approving
  <2>5. QED
    BY <1>1, <1>2, <2>1, <2>3, <2>4, GotoKeeps
<1>4. CASE ApproveAgain(r)
  <2>1. pc[r] = "idle" /\ Goto(r, "committed") /\ UNCHANGED <<provisioned, read, out, doc>>
    BY <1>4 DEF ApproveAgain
  <2>2. SoundDoc(out[r])' /\ SoundDoc(read[r])'
    BY <1>1, <1>2, <2>1 DEF SoundDoc, Announced, RequestSound, Approving
  <2>3. RequestSound("committed", read[r], out[r])'
    BY <2>2 DEF RequestSound, Approving
  <2>4. QED
    BY <1>1, <1>2, <2>1, <2>3, DocStays, GotoKeeps
<1>5. CASE ApproveClean(r)
  <2>1. Finish(r) /\ provisioned' \in 0 .. MaxVersion /\ UNCHANGED doc
    BY <1>5, Bounds DEF ApproveClean
  <2>2. QED
    BY <1>1, <1>2, <2>1, DocStays, FinishKeeps
<1>6. CASE ApproveTimeout(r)
  <2>1. pc[r] = "approve" /\ Goto(r, "late") /\ UNCHANGED <<provisioned, read, out, doc>>
    BY <1>6 DEF ApproveTimeout
  <2>2. RequestSound("late", read[r], out[r])'
    BY <1>1, <2>1 DEF RequestSound, Approving, SoundDoc
  <2>3. QED
    BY <1>1, <1>2, <2>1, <2>2, DocStays, GotoKeeps
<1>7. QED
  BY <1>3, <1>4, <1>5, <1>6

LEMMA TallyKeeps ==
  ASSUME PublicationInv, NEW r \in Requests, TallyMark(r) \/ TallyScript(r)
  PROVE  PublicationInv'
<1>1. /\ UNCHANGED <<now, provisioned, out, election>> /\ read[r] \in Docs /\ out[r] \in Docs /\ doc \in Docs
      /\ registered \in 0 .. MaxVersion /\ provisioned \in 0 .. MaxVersion /\ RequestSound(pc[r], read[r], out[r])
  BY RequestTypes DEF PublicationInv, TallyMark, TallyScript
<1>2. Grown /\ ElectionSound' /\ UNCHANGED <<registered, phase, history>>
  BY <1>1, StandsStill DEF election
<1>3. CASE TallyScript(r)
  <2>1. pc[r] = "tallying" /\ Goto(r, "counted") /\ UNCHANGED <<doc, read>>
    BY <1>3 DEF TallyScript
  <2>2. RequestSound("counted", read[r], out[r])'
    BY <1>1, <1>2, <2>1 DEF RequestSound, Approving, SoundDoc, Announced
  <2>3. QED
    BY <1>1, <1>2, <2>1, <2>2, DocStays, GotoKeeps
<1>4. CASE TallyMark(r)
  <2>1. /\ pc[r] = "tally" /\ doc' = [read[r] EXCEPT !.state = "Tallying"] /\ pc' = [pc EXCEPT ![r] = "tallying"]
        /\ read' = [read EXCEPT ![r] = doc']
    BY <1>1, <1>4 DEF TallyMark, Goto, PublicationInv, TypeOK
  <2>2. PICK x \in Docs, o \in Docs : x = [read[r] EXCEPT !.state = "Tallying"] /\ o = out[r]
    BY <1>1 DEF Docs, DocStates
  <2>3. x.state = "Tallying" /\ x.linked = read[r].linked /\ x.version = read[r].version /\ x.removed = read[r].removed
    BY <1>1, <2>2 DEF Docs
  <2>4. read' = [read EXCEPT ![r] = x] /\ out' = [out EXCEPT ![r] = o] /\ doc' = x
    BY <1>1, <2>1, <2>2, RequestTypes DEF PublicationInv
  <2>5. SoundDoc(x) /\ SoundDoc(o) /\ ~x.removed
    BY <1>1, <2>1, <2>2, <2>3 DEF RequestSound, SoundDoc, Approving, Outcomes
  <2>6. SoundDoc(x)' /\ SoundDoc(o)'
    BY <1>2, <2>5 DEF SoundDoc, Announced
  <2>7. RequestSound("tallying", x, o)'
    BY <2>3, <2>5, <2>6 DEF RequestSound, Approving
  <2>8. SoundDoc(doc)' /\ doc' \in Docs
    BY <2>4, <2>6 DEF SoundDoc
  <2>9. QED
    BY <1>1, <1>2, <2>1, <2>4, <2>7, <2>8, RequestStep
<1>5. QED
  BY <1>3, <1>4

LEMMA EndKeeps ==
  ASSUME PublicationInv, NEW r \in Requests, Store(r) \/ Abort(r)
  PROVE  PublicationInv'
<1>1. /\ UNCHANGED <<now, provisioned, election>> /\ out[r] \in Docs /\ Finish(r)
      /\ registered \in 0 .. MaxVersion /\ provisioned \in 0 .. MaxVersion /\ RequestSound(pc[r], read[r], out[r])
  BY RequestTypes DEF PublicationInv, Store, Abort
<1>2. Grown /\ ElectionSound' /\ UNCHANGED <<registered, phase, history, now>>
  BY <1>1, StandsStill DEF election
<1>3. SoundDoc(doc)' /\ doc' \in Docs
  <2>1. CASE Abort(r)
    BY <1>2, <2>1, DocStays DEF Abort
  <2>2. CASE Store(r)
    <3>1. doc' = out[r] /\ SoundDoc(out[r])
      BY <1>1, <2>2 DEF Store, RequestSound, Approving
    <3>2. QED
      BY <1>1, <1>2, <3>1 DEF SoundDoc, Announced
  <2>3. QED
    BY <2>1, <2>2
<1>4. QED
  BY <1>1, <1>2, <1>3, FinishKeeps

LEMMA InvInit == Init => PublicationInv
<1> SUFFICES ASSUME Init PROVE PublicationInv
  OBVIOUS
<1>1. /\ now = 0 /\ doc = NewDraft /\ provisioned = 0 /\ registered = 0
      /\ pc = [r \in Requests |-> "idle"] /\ read = [r \in Requests |-> NewDraft] /\ out = [r \in Requests |-> NewDraft]
      /\ phase = "None" /\ cast = {} /\ history = <<>>
  BY DEF Init, Ballot!Init
<1>2. TypeOK
  BY <1>1, NewDraftSound, Bounds DEF TypeOK
<1>3. ElectionSound
  BY <1>1 DEF ElectionSound, Phases, Outcomes
<1>4. QED
  BY <1>1, <1>2, <1>3, NewDraftSound DEF PublicationInv

LEMMA NextKeeps == PublicationInv /\ [Next]_vars => PublicationInv'
<1> SUFFICES ASSUME PublicationInv, [Next]_vars PROVE PublicationInv'
  OBVIOUS
<1>1. CASE Edit \/ Submit \/ Reject \/ Reopen
  BY <1>1, DraftKeeps
<1>2. ASSUME NEW r \in Requests,
             \/ Approve(r) \/ ApproveRegister(r) \/ ApproveCommit(r) \/ ApproveAgain(r)
             \/ ApproveClean(r) \/ ApproveTimeout(r)
      PROVE  PublicationInv'
  BY <1>2, ApproveBeginKeeps, RegisterKeeps, ApproveEndKeeps
<1>3. ASSUME NEW r \in Requests, CloseFind(r) \/ TallyFind(r) PROVE PublicationInv'
  BY <1>3, FindKeeps DEF CloseFind, TallyFind
<1>4. ASSUME NEW r \in Requests, CloseCall(r) \/ TallyCall(r) PROVE PublicationInv'
  BY <1>4, CloseCallKeeps, TallyCallKeeps
<1>5. ASSUME NEW r \in Requests, TallyMark(r) \/ TallyScript(r) \/ Store(r) \/ Abort(r) PROVE PublicationInv'
  BY <1>5, TallyKeeps, EndKeeps
<1>6. ASSUME NEW r \in Requests, NEW action \in {"Cancelled", "Invalidated"}, IncidentFind(r, action)
      PROVE  PublicationInv'
  BY <1>6, FindKeeps DEF IncidentFind
<1>7. ASSUME NEW r \in Requests, NEW gone \in BOOLEAN, IncidentCall(r, gone) PROVE PublicationInv'
  BY <1>7, IncidentCallKeeps
<1>8. CASE (\E b \in Ballots : Vote(b)) \/ Tick
  BY <1>8, VoteKeeps, TickKeeps
<1>9. CASE UNCHANGED vars
  <2>1. UNCHANGED <<now, doc, provisioned, pc, read, out, election, cast, registered>>
    BY <1>9 DEF vars, election
  <2>2. TypeOK'
    BY <2>1 DEF PublicationInv, TypeOK
  <2>3. QED
    BY <2>1, <2>2, StandsStill, DocStays, NoRequest
<1>10. QED
  BY <1>1, <1>2, <1>3, <1>4, <1>5, <1>6, <1>7, <1>8, <1>9 DEF Next

LEMMA Invariance == Spec => []PublicationInv
  BY InvInit, NextKeeps, PTL DEF Spec

-----------------------------------------------------------------------------
(* The documents, stored or in the hands of a handler, are ones that       *)
(* management.ts knows.                                                    *)
THEOREM PublicationTypeCorrect == Spec => []TypeOK
<1>1. PublicationInv => TypeOK
  BY DEF PublicationInv
<1>2. QED
  BY <1>1, Invariance, PTL

(* The public document claims no outcome that the ballot service has not   *)
(* announced, whichever requests overlapped (close, demo-tally, incident). *)
THEOREM OutcomesAreBacked == Spec => []OutcomeBacked
<1>1. PublicationInv => OutcomeBacked
  BY DEF PublicationInv, SoundDoc, OutcomeBacked, Outcomes
<1>2. QED
  BY <1>1, Invariance, PTL

(* What a poll shows once it names an election is what the election was    *)
(* registered for, also after failed, late and repeated approvals.         *)
THEOREM ApprovedContentIsFrozen == Spec => []ApprovedContentFrozen
<1>1. PublicationInv => ApprovedContentFrozen
  BY DEF PublicationInv, SoundDoc, ApprovedContentFrozen
<1>2. QED
  BY <1>1, Invariance, PTL

(* What one step does to the document, when nothing that is stored is      *)
(* stale.                                                                  *)
Follows ==
  /\ doc'.state # Current(doc).state => doc' = doc \/ <<Current(doc).state, doc'.state>> \in Lifecycle
  /\ doc'.version # doc.version => doc.state = "Draft"
  /\ doc.linked # 0 => doc'.linked = doc.linked
  /\ doc.removed => doc'.removed

LEMMA FreshFields ==
  ASSUME PublicationInv, Fresh, NEW r \in Requests, pc'[r] # pc[r]
  PROVE  /\ Current(read[r]).state = Current(doc).state /\ read[r].version = doc.version
         /\ read[r].linked = doc.linked /\ read[r].removed = doc.removed
         /\ read[r] \in Docs /\ doc \in Docs /\ out[r] \in Docs /\ RequestSound(pc[r], read[r], out[r])
<1>1. read[r] \in Docs /\ doc \in Docs /\ out[r] \in Docs /\ RequestSound(pc[r], read[r], out[r])
  BY RequestTypes DEF PublicationInv
<1>2. Current(read[r]) = Current(doc)
  BY DEF Fresh
<1>3. QED
  BY <1>1, <1>2, CurrentTyped

LEMMA StoreFollows ==
  ASSUME PublicationInv, Fresh, NEW r \in Requests, Store(r)
  PROVE  Follows
<1>1. pc[r] = "store" /\ pc'[r] = "idle" /\ doc' = out[r]
  BY DEF Store, Finish, Goto, PublicationInv, TypeOK
<1> DEFINE found == read[r].state
<1> DEFINE s == out[r].state
<1>2. /\ Current(read[r]).state = Current(doc).state /\ read[r].version = doc.version
      /\ read[r].linked = doc.linked /\ read[r].removed = doc.removed
      /\ read[r] \in Docs /\ doc \in Docs /\ RequestSound(pc[r], read[r], out[r])
  BY <1>1, FreshFields
<1>3. out[r].version = read[r].version /\ out[r].linked = read[r].linked /\ Ends(found, s) /\ ~read[r].removed
  BY <1>1, <1>2 DEF RequestSound
<1>4. /\ found \in DocStates /\ now \in Nat /\ ClosesAt \in Nat
      /\ Current(read[r]).state = IF found \in {"Scheduled", "Open"} /\ now >= ClosesAt THEN "Closed"
                                ELSE IF found = "Scheduled" /\ now >= OpensAt THEN "Open" ELSE found
  BY <1>2, Types DEF Current, Docs, PublicationInv
<1> HIDE DEF found, s
<1>5. Current(read[r]).state = s \/ <<Current(read[r]).state, s>> \in Lifecycle
  <2>1. CASE s \in {"Closed", "ResultsSuppressed"} /\ found # "Published"
    BY <1>3, <1>4, <2>1 DEF Ends, Lifecycle
  <2>2. CASE found = "Tallying" /\ s = "Published"
    BY <1>4, <2>2 DEF Lifecycle
  <2>3. CASE found = "Published" /\ s = "Invalidated"
    BY <1>4, <2>3 DEF Lifecycle
  <2>4. CASE found \notin {"Published", "Invalidated"} /\ s = "Cancelled"
    <3>1. Current(read[r]).state \in DocStates \ {"Published", "Invalidated"}
      BY <1>4, <2>4 DEF DocStates
    <3>2. QED
      BY <2>4, <3>1 DEF Lifecycle
  <2>5. QED
    BY <1>3, <2>1, <2>2, <2>3, <2>4 DEF Ends
<1>6. QED
  BY <1>1, <1>2, <1>3, <1>5 DEF Follows, s

(* A document that nobody else has changed keeps to the lifecycle, and     *)
(* only drafts change their content, no poll loses its election and no     *)
(* tombstone becomes a poll again (management.ts).                         *)
THEOREM LifecycleIsKept == Spec => LifecycleUnlessStale
<1>1. PublicationInv /\ [Next]_vars => [Fresh => Follows]_vars
  <2> SUFFICES ASSUME PublicationInv, [Next]_vars, Fresh PROVE Follows
    OBVIOUS
  <2>1. doc \in Docs /\ SoundDoc(doc)
    BY DEF PublicationInv, TypeOK
  <2>2. CASE UNCHANGED doc
    BY <2>2 DEF Follows
  <2>3. CASE Edit
    BY <2>1, <2>3 DEF Edit, Follows, Current, Docs
  <2>4. CASE Submit \/ Reject \/ Reopen
    <3>1. /\ doc.state \in {"Draft", "Review", "Rejected"} /\ doc'.version = doc.version /\ doc'.linked = doc.linked
          /\ ~doc.removed /\ <<doc.state, doc'.state>> \in {<<"Draft", "Review">>, <<"Review", "Rejected">>, <<"Rejected", "Draft">>}
      BY <2>1, <2>4 DEF Submit, Reject, Reopen, Change, Docs
    <3>2. Current(doc).state = doc.state
      BY <2>1, <3>1, CurrentTyped
    <3>3. QED
      BY <3>1, <3>2 DEF Follows, Lifecycle
  <2>5. ASSUME NEW r \in Requests, ApproveCommit(r) PROVE Follows
    <3>1. pc[r] = "approved" /\ pc'[r] = "committed" /\ doc' = out[r]
      BY <2>5 DEF ApproveCommit, Goto, PublicationInv, TypeOK
    <3>2. /\ Current(read[r]).state = Current(doc).state /\ read[r].version = doc.version
          /\ read[r].linked = doc.linked /\ read[r].removed = doc.removed /\ read[r] \in Docs
          /\ RequestSound(pc[r], read[r], out[r])
      BY <3>1, FreshFields
    <3>3. /\ read[r].state = "Review" /\ read[r].linked = 0 /\ ~read[r].removed
          /\ out[r].state = "Scheduled" /\ out[r].version = read[r].version
      BY <3>1, <3>2 DEF RequestSound, Approving
    <3>4. Current(doc).state = "Review"
      BY <3>2, <3>3, CurrentTyped
    <3>5. QED
      BY <3>1, <3>2, <3>3, <3>4 DEF Follows, Lifecycle
  <2>6. ASSUME NEW r \in Requests, TallyMark(r) PROVE Follows
    <3>1. pc[r] = "tally" /\ pc'[r] = "tallying" /\ doc' = [read[r] EXCEPT !.state = "Tallying"]
      BY <2>6 DEF TallyMark, Goto, PublicationInv, TypeOK
    <3>2. /\ Current(read[r]).state = Current(doc).state /\ read[r].version = doc.version
          /\ read[r].linked = doc.linked /\ read[r].removed = doc.removed /\ read[r] \in Docs
          /\ RequestSound(pc[r], read[r], out[r])
      BY <3>1, FreshFields
    <3>3. read[r].state \in {"Closed", "Tallying"}
      BY <3>1, <3>2 DEF RequestSound
    <3>4. Current(doc).state \in {"Closed", "Tallying"}
      BY <3>2, <3>3, CurrentTyped
    <3>5. /\ doc'.state = "Tallying" /\ doc'.version = doc.version /\ doc'.linked = doc.linked /\ doc'.removed = doc.removed
      BY <3>1, <3>2 DEF Docs
    <3>6. QED
      BY <3>4, <3>5 DEF Follows, Lifecycle
  <2>7. ASSUME NEW r \in Requests, Store(r) PROVE Follows
    BY <2>7, StoreFollows
  <2>8. ASSUME NEW r \in Requests,
               \/ Approve(r) \/ ApproveRegister(r) \/ ApproveAgain(r) \/ ApproveClean(r) \/ ApproveTimeout(r)
               \/ CloseFind(r) \/ CloseCall(r) \/ TallyFind(r) \/ TallyScript(r) \/ TallyCall(r) \/ Abort(r)
        PROVE  UNCHANGED doc
    BY <2>8 DEF Approve, ApproveRegister, ApproveAgain, ApproveClean, ApproveTimeout, CloseFind, CloseCall,
                TallyFind, TallyScript, TallyCall, Abort, Find, Answer
  <2>9. ASSUME NEW r \in Requests,
               \/ \E action \in {"Cancelled", "Invalidated"} : IncidentFind(r, action)
               \/ \E gone \in BOOLEAN : IncidentCall(r, gone)
        PROVE  UNCHANGED doc
    BY <2>9 DEF IncidentFind, IncidentCall, Find, Answer
  <2>10. CASE (\E b \in Ballots : Vote(b)) \/ Tick \/ UNCHANGED vars
    BY <2>2, <2>10 DEF Vote, Tick, vars
  <2>11. QED
    BY <2>2, <2>3, <2>4, <2>5, <2>6, <2>7, <2>8, <2>9, <2>10 DEF Next
<1>2. [Fresh => Follows]_vars =>
        [Fresh =>
          LET before == Current(doc) IN
          /\ doc'.state # before.state => doc' = doc \/ <<before.state, doc'.state>> \in Lifecycle
          /\ doc'.version # doc.version => doc.state = "Draft"
          /\ doc.linked # 0 => doc'.linked = doc.linked
          /\ doc.removed => doc'.removed]_vars
  BY DEF Follows
<1>3. QED
  BY <1>1, <1>2, Invariance, PTL DEF Spec, LifecycleUnlessStale

-----------------------------------------------------------------------------
(* What the requests do to the election is one step of it, or none.        *)
LEMMA NextElects == [Next]_vars => [Ballot!Next]_(Ballot!vars)
<1> USE DEF Ballot!vars, Ballot!Next
<1> SUFFICES ASSUME [Next]_vars PROVE [Ballot!Next]_(Ballot!vars)
  OBVIOUS
<1>1. CASE Edit \/ Submit \/ Reject \/ Reopen \/ UNCHANGED vars
  BY <1>1 DEF Edit, Submit, Reject, Reopen, Change, election, vars
<1>2. ASSUME NEW r \in Requests,
             \/ Approve(r) \/ ApproveCommit(r) \/ ApproveAgain(r) \/ ApproveClean(r) \/ ApproveTimeout(r)
             \/ CloseFind(r) \/ TallyFind(r) \/ TallyMark(r) \/ TallyScript(r) \/ Store(r) \/ Abort(r)
             \/ \E action \in {"Cancelled", "Invalidated"} : IncidentFind(r, action)
      PROVE  UNCHANGED <<now, election>>
  <2>1. CASE Approve(r) \/ ApproveCommit(r) \/ ApproveAgain(r) \/ ApproveClean(r) \/ ApproveTimeout(r)
    BY <2>1 DEF Approve, ApproveCommit, ApproveAgain, ApproveClean, ApproveTimeout
  <2>2. CASE CloseFind(r) \/ TallyFind(r) \/ (\E action \in {"Cancelled", "Invalidated"} : IncidentFind(r, action))
    BY <2>2 DEF CloseFind, TallyFind, IncidentFind, Find
  <2>3. CASE TallyMark(r) \/ TallyScript(r) \/ Store(r) \/ Abort(r)
    BY <2>3 DEF TallyMark, TallyScript, Store, Abort
  <2>4. QED
    BY <1>2, <2>1, <2>2, <2>3
<1>3. ASSUME NEW r \in Requests, ApproveRegister(r) PROVE Ballot!Schedule \/ UNCHANGED <<now, election>>
  BY <1>3 DEF ApproveRegister
<1>4. ASSUME NEW r \in Requests, CloseCall(r) PROVE Ballot!Close \/ UNCHANGED <<now, election>>
  BY <1>4 DEF CloseCall
<1>5. ASSUME NEW r \in Requests, TallyCall(r) PROVE Ballot!Publish \/ UNCHANGED <<now, election>>
  BY <1>5 DEF TallyCall
<1>6. ASSUME NEW r \in Requests, NEW gone \in BOOLEAN, IncidentCall(r, gone)
      PROVE  Ballot!Withdraw \/ Ballot!Invalidate \/ UNCHANGED <<now, election>>
  BY <1>6 DEF IncidentCall
<1>7. ASSUME NEW b \in Ballots, Vote(b) PROVE Ballot!Cast(b)
  BY <1>7 DEF Vote
<1>8. CASE Tick
  BY <1>8 DEF Tick, Ballot!Tick, election
<1>9. UNCHANGED <<now, election>> => UNCHANGED Ballot!vars
  BY DEF election
<1>10. QED
  BY <1>1, <1>2, <1>3, <1>4, <1>5, <1>6, <1>7, <1>8, <1>9 DEF Next

(* Whatever the management service asks, and however often, the election   *)
(* stays one of the abstract ballot service.                               *)
THEOREM PublicationElects == Spec => Ballot!Spec
<1>1. Init => Ballot!Init
  BY DEF Init
<1>2. QED
  BY <1>1, NextElects, PTL DEF Spec, Ballot!Spec

(* A result that has been announced counts all ballots of a poll that      *)
(* closed in time, and enough of them.                                     *)
Counted ==
  Announced("Published") \/ Announced("Invalidated") => now >= ClosesAt /\ outcome = Cardinality(cast) /\ outcome >= Threshold

LEMMA SameCardinality == Ballot!Cardinality(cast) = Cardinality(cast)
  BY DEF Ballot!Cardinality, Cardinality

LEMMA CountedStays == PublicationInv /\ PublicationInv' /\ Counted /\ [Next]_vars => Counted'
<1> SUFFICES ASSUME PublicationInv, PublicationInv', Counted, [Next]_vars PROVE Counted'
  OBVIOUS
<1>1. now \in Nat /\ now' \in Nat /\ ClosesAt \in Nat
  BY Types, Bounds DEF PublicationInv, TypeOK
<1>2. CASE UNCHANGED Ballot!vars
  BY <1>2 DEF Ballot!vars, Counted, Announced
<1>3. ASSUME NEW p \in Phases \ {"Published", "Invalidated"}, Ballot!Announce(p)
      PROVE  \A s \in {"Published", "Invalidated"} : Announced(s)' => Announced(s)
  <2> DEFINE E == [phase : Phases, ballots : SUBSET Ballots]
             a == [phase |-> p, ballots |-> cast]
  <2>1. history \in Seq(E) /\ history' = Append(history, a) /\ a \in E /\ a.phase \notin {"Published", "Invalidated"}
    BY <1>3 DEF PublicationInv, ElectionSound, Ballot!Announce
  <2> HIDE DEF E, a
  <2>2. \A i \in DOMAIN history' : (i \in DOMAIN history /\ history'[i] = history[i]) \/ history'[i] = a
    BY <2>1
  <2>3. QED
    BY <2>1, <2>2 DEF Announced
<1>4. CASE Ballot!Schedule \/ Ballot!Close \/ Ballot!Withdraw
  <2>1. UNCHANGED <<now, cast, outcome>> /\ \E p \in Phases \ {"Published", "Invalidated"} : Ballot!Announce(p)
    BY <1>4 DEF Ballot!Schedule, Ballot!Close, Ballot!Withdraw, Phases, Outcomes
  <2>2. QED
    BY <1>3, <2>1 DEF Counted
<1>5. CASE Ballot!Publish
  <2>1. /\ UNCHANGED <<now, cast>> /\ outcome' = Cardinality(cast) /\ Cardinality(cast) >= Threshold
        /\ phase = "Closed"
    BY <1>5, SameCardinality DEF Ballot!Publish
  <2>2. now >= ClosesAt
    BY <2>1 DEF PublicationInv, ElectionSound
  <2>3. QED
    BY <2>1, <2>2 DEF Counted
<1>6. ASSUME NEW b \in Ballots, Ballot!Cast(b) PROVE Counted'
  <2>1. phase' = "Open"
    BY <1>6 DEF Ballot!Cast
  <2>2. ~Announced("Published")' /\ ~Announced("Invalidated")'
    BY <2>1 DEF PublicationInv, ElectionSound, Announced
  <2>3. QED
    BY <2>2 DEF Counted
<1>7. CASE Ballot!Tick
  BY <1>1, <1>7 DEF Ballot!Tick, Counted, Announced
<1>8. CASE Ballot!Invalidate
  <2>1. Announced("Published") /\ UNCHANGED <<now, cast, outcome>>
    BY <1>8 DEF Ballot!Invalidate, PublicationInv, ElectionSound, Outcomes
  <2>2. QED
    BY <2>1 DEF Counted
<1>9. QED
  BY <1>2, <1>4, <1>5, <1>6, <1>7, <1>8, NextElects DEF Ballot!Next

(* No page shows a result, or withdraws one it has shown, before the poll  *)
(* could be closed, or of fewer ballots than the publication threshold.    *)
SmallResultsStaySecret ==
  doc.linked # 0 /\ doc.state \in {"Published", "Invalidated"} =>
    now >= ClosesAt /\ outcome = Cardinality(cast) /\ outcome >= Threshold

(* Whichever requests overlap, an announced result is one that the         *)
(* election was allowed to publish, with all its ballots.                  *)
THEOREM ResultsAreCounted == Spec => []SmallResultsStaySecret
<1>1. Init => Counted
  BY DEF Init, Ballot!Init, Counted, Announced
<1>2. PublicationInv /\ Counted => SmallResultsStaySecret
  BY DEF PublicationInv, SoundDoc, Outcomes, Counted, SmallResultsStaySecret
<1>3. QED
  BY <1>1, <1>2, CountedStays, Invariance, PTL DEF Spec
=============================================================================
