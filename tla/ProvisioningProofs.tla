------------------------- MODULE ProvisioningProofs -------------------------
(***************************************************************************)
(* The invariants of the identity service and of the ceremony, for every   *)
(* number of persons, pages, requests, tokens, polls and trustees and      *)
(* without a bound on what overlaps.                                       *)
(*                                                                         *)
(* Identity: sessions and completed attempts name each other (Sessions,    *)
(* Completed); a request knows an attempt that exists, and belongs to at   *)
(* most one page, which waits for it and for nothing else (Sound, Single). *)
(* Ceremony: what is registered before the approval is committed is        *)
(* registered under the ceremony on the disk, which stays there until then *)
(* (UnderCeremony); a step of the approval finds what the steps before it  *)
(* have left (Behind).                                                     *)
(***************************************************************************)
EXTENDS Provisioning, FiniteSetTheorems, TLAPS

AttemptType == [subject : Persons, provider : Providers, expires : Nat, token : Tokens \cup {Nil}]
SessionType == [person : Persons, attempt : Attempts, expires : Nat]
RequestType == [step : RequestSteps, page : Pages \cup {Nil}, attempt : Attempts \cup {Nil},
                token : Tokens \cup {Nil}, content : Polls \cup {Nil, "own", "other"}]
PageType == [step : {"form", "waiting"}, subject : Persons \cup {Nil}, attempt : Attempts \cup {Nil},
             tries : 0 .. MaxTries, terminal : BOOLEAN, token : Tokens \cup {Nil}]

IdentityType ==
  /\ now \in 0 .. Horizon
  /\ persons \in [Persons -> {Nil, "own", "other", "revoked"}]
  /\ attempts \in [Attempts -> {Nil} \cup AttemptType]
  /\ sessions \in [Tokens -> {Nil} \cup SessionType]
  /\ credentials \in [Polls -> {Nil} \cup SUBSET Persons]
  /\ providers \in [Providers -> {"up", "down", "conflicting"}]
  /\ req \in [Requests -> RequestType]
  /\ page \in [Pages -> PageType]

CeremonyType ==
  /\ input \in {Nil, Partial, Whole}
  /\ ceremony \in {Nil, Partial} \cup Setups
  /\ custody \in [Polls -> [Trustees -> {Nil, Partial, Whole}]]
  /\ elections \subseteq Polls /\ made \subseteq Polls
  /\ published \in Polls \cup {Nil}
  /\ approval \in [step : Steps, roster : SUBSET Persons, setup : Setups \cup {Nil}, left : SUBSET Trustees]

Finishing == {"finish", "asked", "attested", "minted", "signedIn"}

Sound(q) ==
  /\ q.step \in Finishing => q.attempt \in Attempts /\ attempts[q.attempt] # Nil
  /\ q.step = "attested" => q.content \in {"own", "other"}
  /\ q.step \in {"minted", "signedIn", "credential", "entitled"} => q.token \in Tokens /\ sessions[q.token] # Nil
  /\ q.step \in {"minted", "signedIn"} => sessions[q.token].attempt = q.attempt
  /\ q.page # Nil => page[q.page].step = "waiting" /\ (q.step \in Finishing => q.attempt = page[q.page].attempt)

SoundPage(p) ==
  /\ p.attempt # Nil => attempts[p.attempt] # Nil /\ attempts[p.attempt].subject = p.subject
  /\ p.token # Nil => sessions[p.token] # Nil /\ sessions[p.token].person = p.subject

Single == \A r, s \in Requests : req[r].page = req[s].page /\ req[r].page # Nil => r = s

Sessions ==
  \A t \in Tokens : sessions[t] # Nil =>
    LET a == attempts[sessions[t].attempt] IN a # Nil /\ a.token = t /\ a.subject = sessions[t].person

Completed ==
  \A a \in Attempts : attempts[a] # Nil /\ attempts[a].token # Nil =>
    sessions[attempts[a].token] # Nil /\ sessions[attempts[a].token].attempt = a

IdentityInv ==
  /\ IdentityType /\ Single /\ Sessions /\ Completed
  /\ \A r \in Requests : Sound(req[r])
  /\ \A c \in Pages : SoundPage(page[c])

Registered == elections \cup {k \in Polls : credentials[k] # Nil}

UnderCeremony ==
  /\ published = Nil => \A k \in Registered : ceremony \in Setups /\ k = ceremony.uuid
  /\ published # Nil => Registered \subseteq {published} /\ PublishedIsComplete

Kept(k, T) == \A t \in T : custody[k][t] = Whole

Behind ==
  LET setup == approval.setup IN
  /\ approval.step \in {"provision", "ceremony", "custody", "roster", "ballot", "commit"} => published = Nil
  /\ approval.step = "remove" => published # Nil
  /\ approval.step \in {"custody", "roster", "ballot", "commit"} => setup \in Setups /\ setup = ceremony
  /\ approval.step = "custody" => Kept(setup.uuid, Trustees \ approval.left)
  /\ approval.step \in {"roster", "ballot", "commit"} => Kept(setup.uuid, Trustees)
  /\ approval.step \in {"ballot", "commit"} => credentials[setup.uuid] # Nil
  /\ approval.step = "commit" => setup.uuid \in elections

CeremonyInv == CeremonyType /\ UnderCeremony /\ Behind

PInv == IdentityInv /\ CeremonyInv

-----------------------------------------------------------------------------
(***************************************************************************)
(* The identity service                                                    *)
(***************************************************************************)
LEMMA NilApart ==
  /\ Nil \notin Persons /\ Nil \notin Attempts /\ Nil \notin Tokens /\ Nil \notin Pages /\ Nil \notin Polls
  /\ Nil \notin AttemptType /\ Nil \notin SessionType
  /\ \A R \in SUBSET Persons : R # Nil
  BY IdentityAssumption DEF IdentityAssumption, AttemptType, SessionType

LEMMA Numbers ==
  AttemptLife \in Nat /\ SessionLife \in Nat /\ ClosesAt \in Nat /\ MaxTries \in Nat /\ Horizon \in Nat
  BY IdentityAssumption DEF IdentityAssumption

LEMMA FreeSound == Free \in RequestType /\ Free.page = Nil /\ Sound(Free)
  BY DEF Free, RequestType, RequestSteps, Sound, Finishing

LEMMA NewPageSound == NewPage \in PageType /\ SoundPage(NewPage) /\ NewPage.step = "form"
  BY Numbers DEF NewPage, PageType, SoundPage

LEMMA IdentityInit == Init => IdentityInv
<1> SUFFICES ASSUME Init PROVE IdentityInv
  OBVIOUS
<1>1. IdentityType
  BY FreeSound, NewPageSound, Numbers DEF Init, IdentityType
<1>2. Single
  BY FreeSound DEF Init, Single
<1>3. \A r \in Requests : Sound(req[r])
  BY FreeSound DEF Init
<1>4. \A c \in Pages : SoundPage(page[c])
  BY NewPageSound DEF Init
<1>5. Sessions /\ Completed
  BY DEF Init, Sessions, Completed
<1>6. QED
  BY <1>1, <1>2, <1>3, <1>4, <1>5 DEF IdentityInv

(* A request goes on, and touches nothing else.                            *)
LEMMA RequestKeeps ==
  ASSUME IdentityInv, UNCHANGED <<now, identity, providers, page>>,
         NEW r \in Requests, NEW q \in RequestType, Sound(q),
         q.page \in {req[r].page, Nil},
         req' = [req EXCEPT ![r] = q]
  PROVE  IdentityInv'
<1>1. req \in [Requests -> RequestType]
  BY DEF IdentityInv, IdentityType
<1>2. req' \in [Requests -> RequestType] /\ \A s \in Requests : req'[s] = IF s = r THEN q ELSE req[s]
  BY <1>1
<1>3. UNCHANGED <<now, persons, attempts, sessions, credentials, providers, page>>
  BY DEF identity
<1>4. IdentityType'
  BY <1>2, <1>3 DEF IdentityInv, IdentityType
<1>5. Single'
  BY <1>2 DEF IdentityInv, Single
<1>6. \A s \in Requests : Sound(req[s])'
  <2> SUFFICES ASSUME NEW s \in Requests PROVE Sound(req[s])'
    OBVIOUS
  <2>1. CASE s = r
    BY <1>2, <1>3, <2>1 DEF Sound
  <2>2. CASE s # r
    BY <1>2, <1>3, <2>2 DEF IdentityInv, Sound
  <2>3. QED
    BY <2>1, <2>2
<1>7. \A c \in Pages : SoundPage(page[c])'
  BY <1>3 DEF IdentityInv, SoundPage
<1>8. Sessions' /\ Completed'
  BY <1>3 DEF IdentityInv, Sessions, Completed
<1>9. QED
  BY <1>4, <1>5, <1>6, <1>7, <1>8 DEF IdentityInv

LEMMA TurnKeeps ==
  ASSUME IdentityInv, UNCHANGED <<now, identity, providers, page>>, NEW r \in Requests,
         NEW step \in RequestSteps, Sound([req[r] EXCEPT !.step = step]), Turn(r, step)
  PROVE  IdentityInv'
<1>1. req[r] \in RequestType /\ req \in [Requests -> RequestType]
  BY DEF IdentityInv, IdentityType
<1>2. [req[r] EXCEPT !.step = step] \in RequestType /\ [req[r] EXCEPT !.step = step].page = req[r].page
  BY <1>1 DEF RequestType
<1>3. req' = [req EXCEPT ![r] = [req[r] EXCEPT !.step = step]]
  BY <1>1 DEF Turn
<1>4. QED
  BY <1>2, <1>3, RequestKeeps

(* A step to which no demand is attached.                                  *)
LEMMA EndKeeps ==
  ASSUME IdentityInv, UNCHANGED <<now, identity, providers, page>>, NEW r \in Requests,
         NEW step \in {"rejected", "failed", "granted"}, Turn(r, step)
  PROVE  IdentityInv'
<1>1. req[r] \in RequestType /\ Sound(req[r])
  BY DEF IdentityInv, IdentityType
<1>2. Sound([req[r] EXCEPT !.step = step])
  BY <1>1 DEF Sound, Finishing, RequestType
<1>3. step \in RequestSteps
  BY DEF RequestSteps
<1>4. QED
  BY <1>2, <1>3, TurnKeeps

(* A page is loaded again, or gives up: the request it waits for is let go. *)
LEMMA OrphanKeeps ==
  ASSUME IdentityInv, UNCHANGED <<now, identity, providers>>, NEW c \in Pages,
         NEW p \in PageType, SoundPage(p),
         page' = [page EXCEPT ![c] = p], req' = Orphaned(c)
  PROVE  IdentityInv'
<1>1. req \in [Requests -> RequestType] /\ page \in [Pages -> PageType]
  BY DEF IdentityInv, IdentityType
<1>2. \A r \in Requests : req'[r] = IF req[r].page = c THEN [req[r] EXCEPT !.page = Nil] ELSE req[r]
  BY DEF Orphaned
<1>3. UNCHANGED <<now, persons, attempts, sessions, credentials, providers>>
  BY DEF identity
<1>4. \A r \in Requests : [req[r] EXCEPT !.page = Nil] \in RequestType
  BY <1>1 DEF RequestType
<1>5. req' \in [Requests -> RequestType] /\ page' \in [Pages -> PageType]
  BY <1>1, <1>4 DEF Orphaned
<1>6. IdentityType'
  BY <1>3, <1>5 DEF IdentityInv, IdentityType
<1>7. \A r \in Requests : req'[r].page \in {Nil, req[r].page}
  BY <1>1, <1>2 DEF RequestType
<1>8. Single'
  BY <1>7 DEF IdentityInv, Single
<1>9. \A r \in Requests : Sound(req[r])'
  <2> SUFFICES ASSUME NEW r \in Requests PROVE Sound(req[r])'
    OBVIOUS
  <2>1. Sound(req[r]) /\ req[r] \in RequestType
    BY <1>1 DEF IdentityInv
  <2>2. CASE req[r].page = c
    <3>1. /\ req'[r].page = Nil /\ req'[r].step = req[r].step /\ req'[r].attempt = req[r].attempt
          /\ req'[r].token = req[r].token /\ req'[r].content = req[r].content
      BY <1>2, <2>1, <2>2 DEF RequestType
    <3>2. QED
      BY <1>3, <2>1, <3>1 DEF Sound
  <2>3. CASE req[r].page # c
    <3>1. req'[r] = req[r] /\ (req[r].page # Nil => page'[req[r].page] = page[req[r].page])
      BY <1>1, <1>2, <2>1, <2>3 DEF RequestType
    <3>2. QED
      BY <1>3, <2>1, <3>1 DEF Sound
  <2>4. QED
    BY <2>2, <2>3
<1>10. \A d \in Pages : SoundPage(page[d])'
  <2> SUFFICES ASSUME NEW d \in Pages PROVE SoundPage(page[d])'
    OBVIOUS
  <2>1. page'[d] = IF d = c THEN p ELSE page[d]
    BY <1>1
  <2>2. QED
    BY <1>3, <2>1 DEF IdentityInv, SoundPage
<1>11. Sessions' /\ Completed'
  BY <1>3 DEF IdentityInv, Sessions, Completed
<1>12. QED
  BY <1>6, <1>8, <1>9, <1>10, <1>11 DEF IdentityInv

(* A page that is not waiting has no request.                              *)
LEMMA FormHasNone ==
  ASSUME IdentityInv, NEW c \in Pages, page[c].step = "form"
  PROVE  \A r \in Requests : req[r].page # c
<1> SUFFICES ASSUME NEW r \in Requests, req[r].page = c PROVE FALSE
  OBVIOUS
<1>1. Sound(req[r])
  BY DEF IdentityInv
<1>2. c # Nil
  BY NilApart
<1>3. QED
  BY <1>1, <1>2 DEF Sound

(* A page sends a request, and changes with it.                            *)
LEMMA SendKeeps ==
  ASSUME IdentityInv, UNCHANGED <<now, identity, providers>>, NEW c \in Pages, NEW r \in Requests,
         page[c].step = "form", NEW p \in PageType, NEW q \in RequestType,
         SoundPage(p), p.step = "waiting", q.page = c,
         q.step \in Finishing => q.attempt \in Attempts /\ attempts[q.attempt] # Nil /\ q.attempt = p.attempt,
         q.step \in {"finish", "credential"},
         q.step = "credential" => q.token \in Tokens /\ sessions[q.token] # Nil,
         page' = [page EXCEPT ![c] = p], req' = [req EXCEPT ![r] = q]
  PROVE  IdentityInv'
<1>1. req \in [Requests -> RequestType] /\ page \in [Pages -> PageType]
  BY DEF IdentityInv, IdentityType
<1>2. \A s \in Requests : req'[s] = IF s = r THEN q ELSE req[s]
  BY <1>1
<1>3. \A d \in Pages : page'[d] = IF d = c THEN p ELSE page[d]
  BY <1>1
<1>4. UNCHANGED <<now, persons, attempts, sessions, credentials, providers>>
  BY DEF identity
<1>5. IdentityType'
  <2>1. req' \in [Requests -> RequestType] /\ page' \in [Pages -> PageType]
    BY <1>1
  <2>2. QED
    BY <1>4, <2>1 DEF IdentityInv, IdentityType
<1>6. \A s \in Requests : req[s].page # c
  BY FormHasNone
<1>7. Single'
  BY <1>2, <1>6 DEF IdentityInv, Single
<1>8. \A s \in Requests : Sound(req[s])'
  <2> SUFFICES ASSUME NEW s \in Requests PROVE Sound(req[s])'
    OBVIOUS
  <2>1. CASE s = r
    <3>1. req'[s] = q /\ page'[c] = p
      BY <1>2, <1>3, <2>1
    <3>2. QED
      BY <1>4, <3>1 DEF Sound, Finishing
  <2>2. CASE s # r
    <3>1. req'[s] = req[s] /\ Sound(req[s]) /\ req[s] \in RequestType
      BY <1>1, <1>2, <2>2 DEF IdentityInv
    <3>2. req[s].page # Nil => page'[req[s].page] = page[req[s].page]
      BY <1>3, <1>6, <3>1 DEF RequestType
    <3>3. QED
      BY <1>4, <3>1, <3>2 DEF Sound
  <2>3. QED
    BY <2>1, <2>2
<1>9. \A d \in Pages : SoundPage(page[d])'
  BY <1>3, <1>4 DEF IdentityInv, SoundPage
<1>10. Sessions' /\ Completed'
  BY <1>4 DEF IdentityInv, Sessions, Completed
<1>11. QED
  BY <1>5, <1>7, <1>8, <1>9, <1>10 DEF IdentityInv

LEMMA RetryKeeps ==
  ASSUME IdentityInv, NEW c \in Pages, NEW r \in Requests, Retry(c, r)
  PROVE  IdentityInv'
<1> DEFINE q == [step |-> "finish", page |-> c, attempt |-> page[c].attempt, token |-> Nil, content |-> Nil]
           p == [page[c] EXCEPT !.step = "waiting", !.tries = page[c].tries + 1]
<1>1. page \in [Pages -> PageType] /\ page[c] \in PageType /\ SoundPage(page[c])
  BY DEF IdentityInv, IdentityType
<1>2. page[c].tries + 1 \in 0 .. MaxTries
  BY <1>1, Numbers DEF PageType, Retry, CanConfirm
<1>3. p \in PageType /\ p.step = "waiting" /\ p.attempt = page[c].attempt /\ p.subject = page[c].subject
        /\ p.token = page[c].token
  BY <1>1, <1>2 DEF PageType
<1>4. SoundPage(p)
  BY <1>1, <1>3 DEF SoundPage
<1>5. q \in RequestType
  BY <1>1 DEF RequestType, RequestSteps, PageType
<1>6. q.attempt \in Attempts /\ attempts[q.attempt] # Nil /\ q.attempt = p.attempt
  BY <1>1, <1>3 DEF Retry, SoundPage, PageType
<1>7. page' = [page EXCEPT ![c] = p] /\ req' = [req EXCEPT ![r] = q] /\ page[c].step = "form"
  BY <1>1 DEF Retry, Send, CanConfirm
<1>8. UNCHANGED <<now, identity, providers>>
  BY DEF Retry
<1> HIDE DEF p
<1>9. QED
  BY <1>3, <1>4, <1>5, <1>6, <1>7, <1>8, SendKeeps

LEMMA AskCredentialKeeps ==
  ASSUME IdentityInv, NEW c \in Pages, NEW r \in Requests, NEW k \in Polls, AskCredential(c, r, k)
  PROVE  IdentityInv'
<1> DEFINE q == [step |-> "credential", page |-> c, attempt |-> Nil, token |-> page[c].token, content |-> k]
           p == [page[c] EXCEPT !.step = "waiting"]
<1>1. page \in [Pages -> PageType] /\ page[c] \in PageType /\ SoundPage(page[c])
  BY DEF IdentityInv, IdentityType
<1>2. p \in PageType /\ p.step = "waiting" /\ p.attempt = page[c].attempt /\ p.subject = page[c].subject
        /\ p.token = page[c].token
  BY <1>1 DEF PageType
<1>3. SoundPage(p)
  BY <1>1, <1>2 DEF SoundPage
<1>4. q \in RequestType
  BY <1>1 DEF RequestType, RequestSteps, PageType
<1>5. q.token \in Tokens /\ sessions[q.token] # Nil
  BY <1>1 DEF AskCredential, SoundPage, PageType
<1>6. page' = [page EXCEPT ![c] = p] /\ req' = [req EXCEPT ![r] = q] /\ page[c].step = "form"
  BY <1>1 DEF AskCredential, Send
<1>7. UNCHANGED <<now, identity, providers>>
  BY DEF AskCredential
<1>8. q.step \notin Finishing
  BY DEF Finishing
<1> HIDE DEF p
<1>9. QED
  BY <1>2, <1>3, <1>4, <1>5, <1>6, <1>7, <1>8, SendKeeps

(* A page changes and a request is let go of.                              *)
LEMMA ReceiveKeeps ==
  ASSUME IdentityInv, NEW r \in Requests, Receive(r)
  PROVE  IdentityInv'
<1> DEFINE c == req[r].page
           token == IF req[r].step = "signedIn" THEN req[r].token ELSE page[c].token
           p == [page[c] EXCEPT !.step = "form", !.token = token,
                   !.terminal = page[c].token = Nil /\ req[r].step = "rejected"]
<1>1. req \in [Requests -> RequestType] /\ page \in [Pages -> PageType] /\ req[r] \in RequestType
        /\ Sound(req[r])
  BY DEF IdentityInv, IdentityType
<1>2. req' = [req EXCEPT ![r] = Free] /\ \A s \in Requests : req'[s] = IF s = r THEN Free ELSE req[s]
  BY <1>1 DEF Receive
<1>3. UNCHANGED <<now, persons, attempts, sessions, credentials, providers>>
  BY DEF Receive, identity
<1>4. c \in Pages \cup {Nil}
  BY <1>1 DEF RequestType
<1>5. Single' /\ req' \in [Requests -> RequestType]
  BY <1>1, <1>2, FreeSound DEF IdentityInv, Single
<1>6. CASE c = Nil
  <2>1. page' = page
    BY <1>6 DEF Receive
  <2>2. UNCHANGED <<now, identity, providers, page>>
    BY <1>3, <2>1 DEF identity
  <2>3. QED
    BY <1>2, <2>2, FreeSound, RequestKeeps
<1>7. CASE c # Nil
  <2>1. c \in Pages /\ page[c] \in PageType /\ SoundPage(page[c])
    BY <1>1, <1>4, <1>7 DEF IdentityInv
  <2>2. token \in Tokens \cup {Nil}
    BY <1>1, <2>1 DEF PageType, RequestType
  <2>3. p \in PageType
    BY <2>1, <2>2 DEF PageType
  <2>4. p.attempt = page[c].attempt /\ p.subject = page[c].subject /\ p.token = token
    BY <2>1 DEF PageType
  <2>5. page' = [page EXCEPT ![c] = p]
    BY <1>7, <2>1 DEF Receive
  <2>6. SoundPage(p)
    <3>1. CASE req[r].step = "signedIn"
      <4>1. /\ req[r].attempt \in Attempts /\ req[r].attempt = page[c].attempt /\ attempts[req[r].attempt] # Nil
            /\ req[r].token \in Tokens /\ sessions[req[r].token] # Nil
            /\ sessions[req[r].token].attempt = req[r].attempt
        BY <1>1, <1>7, <3>1 DEF Sound, Finishing
      <4>2. attempts[req[r].attempt].subject = page[c].subject
        BY <2>1, <4>1, NilApart DEF SoundPage
      <4>3. sessions[req[r].token].person = page[c].subject
        BY <4>1, <4>2 DEF IdentityInv, Sessions
      <4>4. token = req[r].token
        BY <3>1
      <4>5. QED
        BY <2>1, <2>4, <4>1, <4>3, <4>4 DEF SoundPage
    <3>2. CASE req[r].step # "signedIn"
      BY <2>1, <2>4, <3>2 DEF SoundPage
    <3>3. QED
      BY <3>1, <3>2
  <2> HIDE DEF p
  <2>7. \A d \in Pages : page'[d] = IF d = c THEN p ELSE page[d]
    BY <1>1, <2>5
  <2>8. page' \in [Pages -> PageType]
    BY <1>1, <2>3, <2>5
  <2>9. IdentityType'
    BY <1>3, <1>5, <2>8 DEF IdentityInv, IdentityType
  <2>10. \A d \in Pages : SoundPage(page[d])'
    BY <1>3, <2>6, <2>7 DEF IdentityInv, SoundPage
  <2>11. \A s \in Requests : Sound(req[s])'
    <3> SUFFICES ASSUME NEW s \in Requests PROVE Sound(req[s])'
      OBVIOUS
    <3>1. CASE s = r
      <4>1. req'[s] = Free
        BY <1>2, <3>1
      <4>2. QED
        BY <4>1 DEF Sound, Free, Finishing
    <3>2. CASE s # r
      <4>1. req'[s] = req[s] /\ Sound(req[s]) /\ req[s] \in RequestType
        BY <1>1, <1>2, <3>2 DEF IdentityInv
      <4>2. req[s].page # c
        BY <1>7, <3>2 DEF IdentityInv, Single
      <4>3. req[s].page # Nil => page'[req[s].page] = page[req[s].page]
        BY <2>7, <4>1, <4>2 DEF RequestType
      <4>4. QED
        BY <1>3, <4>1, <4>3 DEF Sound
    <3>3. QED
      BY <3>1, <3>2
  <2>12. Sessions' /\ Completed'
    BY <1>3 DEF IdentityInv, Sessions, Completed
  <2>13. QED
    BY <1>5, <2>9, <2>10, <2>11, <2>12 DEF IdentityInv
<1>8. QED
  BY <1>6, <1>7

LEMMA PageKeeps ==
  ASSUME IdentityInv, NEW c \in Pages,
         GiveUp(c) \/ Reload(c) \/ \E p \in Persons : Choose(c, p)
  PROVE  IdentityInv'
<1>1. req \in [Requests -> RequestType] /\ page \in [Pages -> PageType] /\ page[c] \in PageType
        /\ SoundPage(page[c])
  BY DEF IdentityInv, IdentityType
<1>2. CASE GiveUp(c)
  <2> DEFINE p == [page[c] EXCEPT !.step = "form"]
  <2>1. p \in PageType /\ p.attempt = page[c].attempt /\ p.subject = page[c].subject /\ p.token = page[c].token
    BY <1>1 DEF PageType
  <2>2. SoundPage(p)
    BY <1>1, <2>1 DEF SoundPage
  <2>3. page' = [page EXCEPT ![c] = p] /\ req' = Orphaned(c) /\ UNCHANGED <<now, identity, providers>>
    BY <1>1, <1>2 DEF GiveUp
  <2> HIDE DEF p
  <2>4. QED
    BY <2>1, <2>2, <2>3, OrphanKeeps
<1>3. CASE Reload(c)
  <2>1. page' = [page EXCEPT ![c] = NewPage] /\ req' = Orphaned(c) /\ UNCHANGED <<now, identity, providers>>
    BY <1>3 DEF Reload
  <2>2. QED
    BY <2>1, NewPageSound, OrphanKeeps
<1>4. ASSUME NEW x \in Persons, Choose(c, x) PROVE IdentityInv'
  <2> DEFINE p == [NewPage EXCEPT !.subject = x]
  <2>1. p \in PageType /\ p.attempt = NewPage.attempt /\ p.token = NewPage.token
    BY NewPageSound DEF PageType
  <2>2. SoundPage(p)
    BY <2>1 DEF SoundPage, NewPage
  <2>3. page[c].step = "form" /\ page' = [page EXCEPT ![c] = p] /\ req' = req
          /\ UNCHANGED <<now, identity, providers>>
    BY <1>4 DEF Choose
  <2>4. \A r \in Requests : req[r].page # c
    BY <2>3, FormHasNone
  <2>5. req = Orphaned(c)
    BY <1>1, <2>4 DEF Orphaned
  <2> HIDE DEF p
  <2>6. QED
    BY <2>1, <2>2, <2>3, <2>5, OrphanKeeps
<1>5. QED
  BY <1>2, <1>3, <1>4

(* An attempt is new: what is known of the others stays true.              *)
LEMMA StartKeeps ==
  ASSUME IdentityInv, NEW c \in Pages, NEW r \in Requests, NEW v \in Providers, Start(c, r, v)
  PROVE  IdentityInv'
<1>1. PICK a \in Attempts :
        /\ attempts[a] = Nil
        /\ attempts' = [attempts EXCEPT ![a] =
             [subject |-> page[c].subject, provider |-> v, expires |-> now + AttemptLife, token |-> Nil]]
        /\ \/ /\ Send(c, r, "finish", a, Nil, Nil)
              /\ page' = [page EXCEPT ![c] = [@ EXCEPT !.step = "waiting", !.attempt = a, !.tries = page[c].tries + 1]]
           \/ /\ page' = [page EXCEPT ![c].tries = @ + 1]
              /\ UNCHANGED req
  BY DEF Start
<1> DEFINE new == [subject |-> page[c].subject, provider |-> v, expires |-> now + AttemptLife, token |-> Nil]
<1>2. req \in [Requests -> RequestType] /\ page \in [Pages -> PageType] /\ page[c] \in PageType
        /\ SoundPage(page[c]) /\ now \in Nat /\ attempts \in [Attempts -> {Nil} \cup AttemptType]
  BY Numbers DEF IdentityInv, IdentityType
<1>3. page[c].step = "form" /\ page[c].attempt = Nil /\ page[c].subject \in Persons /\ page[c].tries < MaxTries
  BY <1>2 DEF Start, CanConfirm, PageType
<1>4. UNCHANGED <<now, persons, sessions, credentials, providers>>
  BY DEF Start
<1>5. new \in AttemptType /\ new # Nil /\ new.subject = page[c].subject /\ new.token = Nil
  <2>1. now + AttemptLife \in Nat
    BY <1>2, Numbers
  <2>2. new \in AttemptType
    BY <1>3, <2>1 DEF AttemptType
  <2>3. QED
    BY <2>2, NilApart
<1> HIDE DEF new
<1>6. attempts' = [attempts EXCEPT ![a] = new]
  BY <1>1 DEF new
<1>7. attempts' \in [Attempts -> {Nil} \cup AttemptType]
        /\ \A b \in Attempts : attempts'[b] = IF b = a THEN new ELSE attempts[b]
  BY <1>2, <1>5, <1>6
<1>8. \A b \in Attempts : attempts[b] # Nil => attempts'[b] = attempts[b]
  BY <1>1, <1>7
<1>9. page[c].tries + 1 \in 0 .. MaxTries
  BY <1>2, <1>3, Numbers DEF PageType
<1>10. \A s \in Requests : req[s].page # c
  BY <1>3, FormHasNone
<1>11. Sessions'
  BY <1>4, <1>8, NilApart DEF IdentityInv, IdentityType, SessionType, Sessions
<1>12. Completed'
  BY <1>4, <1>5, <1>7 DEF IdentityInv, Completed
<1>14. CASE Send(c, r, "finish", a, Nil, Nil)
  <2> DEFINE p == [page[c] EXCEPT !.step = "waiting", !.attempt = a, !.tries = page[c].tries + 1]
             q == [step |-> "finish", page |-> c, attempt |-> a, token |-> Nil, content |-> Nil]
  <2>1. req' = [req EXCEPT ![r] = q] /\ req[r] = Free
    BY <1>14 DEF Send
  <2>2. page' = [page EXCEPT ![c] = p]
    <3>1. UNCHANGED req => FALSE
      <4>1. q # Free
        BY DEF Free
      <4>2. QED
        BY <1>2, <2>1, <4>1
    <3>2. QED
      BY <1>1, <3>1
  <2>3. p \in PageType /\ p.step = "waiting" /\ p.attempt = a /\ p.token = page[c].token
          /\ p.subject = page[c].subject
    BY <1>2, <1>9 DEF PageType
  <2>4. q \in RequestType
    BY DEF RequestType, RequestSteps
  <2> HIDE DEF p
  <2>5. req' \in [Requests -> RequestType] /\ \A s \in Requests : req'[s] = IF s = r THEN q ELSE req[s]
    BY <1>2, <2>1, <2>4
  <2>6. page' \in [Pages -> PageType] /\ \A d \in Pages : page'[d] = IF d = c THEN p ELSE page[d]
    BY <1>2, <2>2, <2>3
  <2>7. IdentityType'
    BY <1>4, <1>7, <2>5, <2>6 DEF IdentityInv, IdentityType
  <2>8. Single'
    BY <1>10, <2>5 DEF IdentityInv, Single
  <2>10. \A d \in Pages : SoundPage(page[d])'
    <3> SUFFICES ASSUME NEW d \in Pages PROVE SoundPage(page[d])'
      OBVIOUS
    <3>1. page[d] \in PageType /\ SoundPage(page[d])
      BY <1>2 DEF IdentityInv
    <3>2. CASE d = c
      <4>1. page'[d] = p
        BY <2>6, <3>2
      <4>2. QED
        BY <1>2, <1>4, <1>5, <1>7, <2>3, <4>1 DEF SoundPage
    <3>3. CASE d # c
      <4>1. page'[d] = page[d] /\ page[d].attempt \in Attempts \cup {Nil}
        BY <2>6, <3>1, <3>3 DEF PageType
      <4>2. QED
        BY <1>4, <1>8, <3>1, <4>1 DEF SoundPage
    <3>4. QED
      BY <3>2, <3>3
  <2>11. \A s \in Requests : Sound(req[s])'
    <3> SUFFICES ASSUME NEW s \in Requests PROVE Sound(req[s])'
      OBVIOUS
    <3>1. CASE s = r
      <4>1. req'[s] = q /\ page'[c] = p /\ attempts'[a] # Nil
        BY <1>5, <1>7, <2>5, <2>6, <3>1
      <4>2. QED
        BY <2>3, <4>1 DEF Sound
    <3>2. CASE s # r
      <4>1. req'[s] = req[s] /\ Sound(req[s]) /\ req[s] \in RequestType
        BY <1>2, <2>5, <3>2 DEF IdentityInv
      <4>2. req[s].page # Nil => page'[req[s].page] = page[req[s].page]
        BY <1>10, <2>6, <4>1 DEF RequestType
      <4>3. QED
        BY <1>4, <1>8, <4>1, <4>2 DEF Sound
    <3>3. QED
      BY <3>1, <3>2
  <2>12. QED
    BY <1>11, <1>12, <2>7, <2>8, <2>10, <2>11 DEF IdentityInv
<1>15. CASE page' = [page EXCEPT ![c].tries = @ + 1] /\ UNCHANGED req
  <2> DEFINE p == [page[c] EXCEPT !.tries = page[c].tries + 1]
  <2>1. page' = [page EXCEPT ![c] = p]
    BY <1>2, <1>15
  <2>2. p \in PageType /\ p.step = page[c].step /\ p.attempt = page[c].attempt /\ p.token = page[c].token
          /\ p.subject = page[c].subject
    BY <1>2, <1>9 DEF PageType
  <2> HIDE DEF p
  <2>3. page' \in [Pages -> PageType] /\ \A d \in Pages : page'[d] = IF d = c THEN p ELSE page[d]
    BY <1>2, <2>1, <2>2
  <2>4. IdentityType'
    BY <1>4, <1>7, <1>15, <2>3 DEF IdentityInv, IdentityType
  <2>5. Single'
    BY <1>15 DEF IdentityInv, Single
  <2>6. \A d \in Pages : SoundPage(page[d])'
    <3> SUFFICES ASSUME NEW d \in Pages PROVE SoundPage(page[d])'
      OBVIOUS
    <3>1. page[d] \in PageType /\ SoundPage(page[d])
      BY <1>2 DEF IdentityInv
    <3>2. page'[d].attempt = page[d].attempt /\ page'[d].subject = page[d].subject
            /\ page'[d].token = page[d].token
      BY <2>2, <2>3
    <3>3. page[d].attempt \in Attempts \cup {Nil}
      BY <3>1 DEF PageType
    <3>4. QED
      BY <1>4, <1>8, <3>1, <3>2, <3>3 DEF SoundPage
  <2>7. \A s \in Requests : Sound(req[s])'
    <3> SUFFICES ASSUME NEW s \in Requests PROVE Sound(req[s])'
      OBVIOUS
    <3>1. req'[s] = req[s] /\ Sound(req[s]) /\ req[s] \in RequestType
      BY <1>2, <1>15 DEF IdentityInv
    <3>2. req[s].page # Nil => page'[req[s].page] = page[req[s].page]
      BY <1>10, <2>3, <3>1 DEF RequestType
    <3>3. QED
      BY <1>4, <1>8, <3>1, <3>2 DEF Sound
  <2>8. QED
    BY <1>11, <1>12, <2>4, <2>5, <2>6, <2>7 DEF IdentityInv
<1>16. QED
  BY <1>1, <1>14, <1>15

(* The session of a completed attempt is the attempt's own.                *)
LEMMA AnswerKeeps ==
  ASSUME IdentityInv, NEW r \in Requests, Replay(r) \/ FinishAgain(r)
  PROVE  IdentityInv'
<1> DEFINE a == req[r].attempt
           q == [req[r] EXCEPT !.step = "minted", !.token = attempts[a].token]
<1>1. req \in [Requests -> RequestType] /\ req[r] \in RequestType /\ Sound(req[r])
        /\ attempts \in [Attempts -> {Nil} \cup AttemptType]
  BY DEF IdentityInv, IdentityType
<1>2. req[r].step \in {"finish", "attested"} /\ attempts[a].token # Nil
        /\ req' = [req EXCEPT ![r] = q] /\ UNCHANGED <<now, identity, providers, page>>
  BY <1>1 DEF Replay, FinishAgain
<1>3. a \in Attempts /\ attempts[a] \in AttemptType
  BY <1>1, <1>2 DEF Sound, Finishing
<1>4. attempts[a].token \in Tokens /\ sessions[attempts[a].token] # Nil
        /\ sessions[attempts[a].token].attempt = a
  BY <1>2, <1>3, NilApart DEF AttemptType, IdentityInv, Completed
<1>5. q \in RequestType /\ q.step = "minted" /\ q.token = attempts[a].token /\ q.attempt = a /\ q.page = req[r].page
  BY <1>1, <1>4 DEF RequestType, RequestSteps
<1>6. req[r].step \in Finishing /\ "minted" \in Finishing
  BY <1>2 DEF Finishing
<1> HIDE DEF q
<1>7. Sound(q)
  BY <1>1, <1>3, <1>4, <1>5, <1>6, NilApart DEF Sound
<1>8. QED
  BY <1>2, <1>5, <1>7, RequestKeeps

LEMMA AskProviderKeeps ==
  ASSUME IdentityInv, NEW r \in Requests, AskProvider(r)
  PROVE  IdentityInv'
<1> DEFINE step == IF providers[attempts[req[r].attempt].provider] = "down" THEN "failed" ELSE "asked"
<1>1. req[r] \in RequestType /\ Sound(req[r])
  BY DEF IdentityInv, IdentityType
<1>2. req[r].step = "finish" /\ Turn(r, step) /\ UNCHANGED <<now, identity, providers, page>>
  BY DEF AskProvider
<1>3. step \in {"failed", "asked"}
  OBVIOUS
<1> HIDE DEF step
<1>4. Sound([req[r] EXCEPT !.step = step])
  BY <1>1, <1>2, <1>3 DEF Sound, Finishing, RequestType
<1>5. step \in RequestSteps
  BY <1>3 DEF RequestSteps
<1>6. QED
  BY <1>2, <1>4, <1>5, TurnKeeps

LEMMA AttestKeeps ==
  ASSUME IdentityInv, NEW r \in Requests, Attest(r)
  PROVE  IdentityInv'
<1> DEFINE content == IF providers[attempts[req[r].attempt].provider] = "conflicting" THEN "other" ELSE "own"
           q == [req[r] EXCEPT !.step = "attested", !.content = content]
<1>1. req \in [Requests -> RequestType] /\ req[r] \in RequestType /\ Sound(req[r])
  BY DEF IdentityInv, IdentityType
<1>2. req[r].step = "asked" /\ req' = [req EXCEPT ![r] = q] /\ UNCHANGED <<now, identity, providers, page>>
  BY <1>1 DEF Attest
<1>3. content \in {"own", "other"}
  OBVIOUS
<1> HIDE DEF content
<1>4. q \in RequestType /\ q.step = "attested" /\ q.content = content /\ q.attempt = req[r].attempt
        /\ q.page = req[r].page
  BY <1>1, <1>3 DEF RequestType, RequestSteps
<1> HIDE DEF q
<1>5. Sound(q)
  BY <1>1, <1>2, <1>3, <1>4 DEF Sound, Finishing
<1>6. QED
  BY <1>2, <1>4, <1>5, RequestKeeps

LEMMA RefuseKeeps ==
  ASSUME IdentityInv, NEW r \in Requests, Expired(r) \/ Fail(r) \/ Grant(r)
  PROVE  IdentityInv'
<1>1. CASE Expired(r) \/ Fail(r)
  <2>1. PICK step \in {"rejected", "failed"} : Turn(r, step) /\ UNCHANGED <<now, identity, providers, page>>
    BY <1>1 DEF Expired, Fail
  <2>2. QED
    BY <2>1, EndKeeps
<1>2. CASE Grant(r)
  <2>1. PICK step \in {"granted", "rejected"} : Turn(r, step) /\ UNCHANGED <<now, identity, providers, page>>
    BY <1>2 DEF Grant
  <2>2. QED
    BY <2>1, EndKeeps
<1>3. QED
  BY <1>1, <1>2

LEMMA SignInKeeps ==
  ASSUME IdentityInv, NEW r \in Requests, SignIn(r) \/ CheckSession(r)
  PROVE  IdentityInv'
<1>1. req[r] \in RequestType /\ Sound(req[r])
  BY DEF IdentityInv, IdentityType
<1>2. CASE SignIn(r)
  <2>1. PICK step \in {"signedIn", "rejected"} :
          req[r].step = "minted" /\ Turn(r, step) /\ UNCHANGED <<now, identity, providers, page>>
    BY <1>2 DEF SignIn
  <2>2. Sound([req[r] EXCEPT !.step = step])
    BY <1>1, <2>1 DEF Sound, Finishing, RequestType
  <2>3. step \in RequestSteps
    BY DEF RequestSteps
  <2>4. QED
    BY <2>1, <2>2, <2>3, TurnKeeps
<1>3. CASE CheckSession(r)
  <2>1. PICK step \in {"entitled", "rejected"} :
          req[r].step = "credential" /\ Turn(r, step) /\ UNCHANGED <<now, identity, providers, page>>
    BY <1>3 DEF CheckSession
  <2>2. Sound([req[r] EXCEPT !.step = step])
    BY <1>1, <2>1 DEF Sound, Finishing, RequestType
  <2>3. step \in RequestSteps
    BY DEF RequestSteps
  <2>4. QED
    BY <2>1, <2>2, <2>3, TurnKeeps
<1>4. QED
  BY <1>2, <1>3

(* A session is made, and the attempt completed, in one transaction.       *)
LEMMA MintKeeps ==
  ASSUME IdentityInv, NEW r \in Requests, Mint(r)
  PROVE  IdentityInv'
<1> DEFINE a == req[r].attempt
           x == attempts[a].subject
<1>1. req \in [Requests -> RequestType] /\ req[r] \in RequestType /\ Sound(req[r])
        /\ attempts \in [Attempts -> {Nil} \cup AttemptType] /\ sessions \in [Tokens -> {Nil} \cup SessionType]
        /\ persons \in [Persons -> {Nil, "own", "other", "revoked"}] /\ now \in Nat
  BY Numbers DEF IdentityInv, IdentityType
<1>2. req[r].step = "attested" /\ a \in Attempts /\ attempts[a] # Nil /\ attempts[a] \in AttemptType
        /\ attempts[a].token = Nil /\ x \in Persons /\ req[r].content \in {"own", "other"}
  BY <1>1 DEF Mint, Sound, Finishing, AttemptType
<1>3. PICK t \in Tokens :
        /\ sessions[t] = Nil
        /\ sessions' = [sessions EXCEPT ![t] = [person |-> x, attempt |-> a, expires |-> now + SessionLife]]
        /\ attempts' = [attempts EXCEPT ![a].token = t]
        /\ req' = [req EXCEPT ![r].step = "minted", ![r].token = t]
  BY DEF Mint
<1> DEFINE q == [req[r] EXCEPT !.step = "minted", !.token = t]
           done == [attempts[a] EXCEPT !.token = t]
           s == [person |-> x, attempt |-> a, expires |-> now + SessionLife]
<1>4. UNCHANGED <<now, credentials, providers, page>> /\ persons' = [persons EXCEPT ![x] = req[r].content]
  BY DEF Mint
<1>5. s \in SessionType /\ s.person = x /\ s.attempt = a
  <2>1. now + SessionLife \in Nat
    BY <1>1, Numbers
  <2>2. QED
    BY <1>2, <2>1 DEF SessionType
<1>6. done \in AttemptType /\ done.token = t /\ done.subject = x
  BY <1>2 DEF AttemptType
<1>7. q \in RequestType /\ q.step = "minted" /\ q.token = t /\ q.attempt = a /\ q.page = req[r].page
  BY <1>1 DEF RequestType, RequestSteps
<1>8. req' = [req EXCEPT ![r] = q] /\ attempts' = [attempts EXCEPT ![a] = done] /\ sessions' = [sessions EXCEPT ![t] = s]
  BY <1>1, <1>2, <1>3
<1> HIDE DEF q, done, s
<1>9. req' \in [Requests -> RequestType] /\ \A u \in Requests : req'[u] = IF u = r THEN q ELSE req[u]
  BY <1>1, <1>7, <1>8
<1>10. attempts' \in [Attempts -> {Nil} \cup AttemptType]
         /\ \A b \in Attempts : attempts'[b] = IF b = a THEN done ELSE attempts[b]
  BY <1>1, <1>6, <1>8
<1>11. sessions' \in [Tokens -> {Nil} \cup SessionType]
         /\ \A u \in Tokens : sessions'[u] = IF u = t THEN s ELSE sessions[u]
  BY <1>1, <1>5, <1>8
<1>12. done # Nil /\ s # Nil /\ t # Nil
  BY <1>5, <1>6, NilApart
<1>13. IdentityType'
  <2>1. persons' \in [Persons -> {Nil, "own", "other", "revoked"}]
    BY <1>1, <1>2, <1>4
  <2>2. QED
    BY <1>4, <1>9, <1>10, <1>11, <2>1 DEF IdentityInv, IdentityType
<1>14. Single'
  BY <1>7, <1>9 DEF IdentityInv, Single
<1>15. Sessions'
  <2> SUFFICES ASSUME NEW u \in Tokens, sessions'[u] # Nil
               PROVE  LET b == attempts'[sessions'[u].attempt]
                      IN  b # Nil /\ b.token = u /\ b.subject = sessions'[u].person
    BY DEF Sessions
  <2>1. CASE u = t
    BY <1>2, <1>5, <1>6, <1>10, <1>11, <1>12, <2>1
  <2>2. CASE u # t
    <3>1. sessions'[u] = sessions[u] /\ sessions[u] \in SessionType
      BY <1>1, <1>11, <2>2
    <3>2. LET b == attempts[sessions[u].attempt] IN b # Nil /\ b.token = u /\ b.subject = sessions[u].person
      BY <3>1 DEF IdentityInv, Sessions
    <3>3. sessions[u].attempt \in Attempts /\ sessions[u].attempt # a
      BY <1>2, <3>1, <3>2, NilApart DEF SessionType
    <3>4. QED
      BY <1>10, <3>1, <3>2, <3>3
  <2>3. QED
    BY <2>1, <2>2
<1>16. Completed'
  <2> SUFFICES ASSUME NEW b \in Attempts, attempts'[b] # Nil, attempts'[b].token # Nil
               PROVE  sessions'[attempts'[b].token] # Nil /\ sessions'[attempts'[b].token].attempt = b
    BY DEF Completed
  <2>1. CASE b = a
    BY <1>5, <1>6, <1>10, <1>11, <1>12, <2>1
  <2>2. CASE b # a
    <3>1. attempts'[b] = attempts[b] /\ attempts[b] \in AttemptType
      BY <1>1, <1>10, <2>2
    <3>2. attempts[b].token \in Tokens /\ sessions[attempts[b].token] # Nil
            /\ sessions[attempts[b].token].attempt = b
      BY <3>1 DEF IdentityInv, Completed, AttemptType
    <3>3. QED
      BY <1>3, <1>11, <3>1, <3>2
  <2>3. QED
    BY <2>1, <2>2
<1>17. \A u \in Requests : Sound(req[u])'
  <2> SUFFICES ASSUME NEW u \in Requests PROVE Sound(req[u])'
    OBVIOUS
  <2>1. CASE u = r
    <3>1. req'[u] = q /\ attempts'[a] # Nil /\ sessions'[t] = s
      BY <1>2, <1>9, <1>10, <1>11, <1>12, <2>1
    <3>2. req[r].page # Nil => page'[req[r].page].step = "waiting" /\ page'[req[r].page].attempt = a
      BY <1>1, <1>2, <1>4 DEF Sound, Finishing
    <3>3. QED
      BY <1>2, <1>5, <1>7, <1>12, <3>1, <3>2 DEF Sound
  <2>2. CASE u # r
    <3>1. req'[u] = req[u] /\ Sound(req[u])
      BY <1>9, <2>2 DEF IdentityInv
    <3>2. \A b \in Attempts : attempts[b] # Nil => attempts'[b] # Nil
      BY <1>10, <1>12
    <3>3. \A v \in Tokens : sessions[v] # Nil => sessions'[v] = sessions[v]
      BY <1>3, <1>11
    <3>4. QED
      BY <1>4, <3>1, <3>2, <3>3 DEF Sound
  <2>3. QED
    BY <2>1, <2>2
<1>18. \A d \in Pages : SoundPage(page[d])'
  <2> SUFFICES ASSUME NEW d \in Pages PROVE SoundPage(page[d])'
    OBVIOUS
  <2>1. page'[d] = page[d] /\ SoundPage(page[d])
    BY <1>4 DEF IdentityInv
  <2>2. page[d].attempt \in Attempts \cup {Nil} /\ page[d].token \in Tokens \cup {Nil}
    BY DEF IdentityInv, IdentityType, PageType
  <2>3. page[d].attempt # Nil => attempts'[page[d].attempt] # Nil
                                   /\ attempts'[page[d].attempt].subject = attempts[page[d].attempt].subject
    BY <1>6, <1>10, <1>12, <2>1, <2>2 DEF SoundPage
  <2>4. page[d].token # Nil => sessions'[page[d].token] = sessions[page[d].token]
    BY <1>3, <1>11, <2>1, <2>2 DEF SoundPage
  <2>5. QED
    BY <2>1, <2>3, <2>4 DEF SoundPage
<1>19. QED
  BY <1>13, <1>14, <1>15, <1>16, <1>17, <1>18 DEF IdentityInv

LEMMA ConflictKeeps ==
  ASSUME IdentityInv, NEW r \in Requests, Conflict(r)
  PROVE  IdentityInv'
<1> DEFINE q == [req[r] EXCEPT !.step = "rejected"]
<1>1. req \in [Requests -> RequestType] /\ req[r] \in RequestType /\ Sound(req[r])
        /\ persons \in [Persons -> {Nil, "own", "other", "revoked"}]
  BY DEF IdentityInv, IdentityType
<1>2. req' = [req EXCEPT ![r] = q] /\ UNCHANGED <<now, attempts, sessions, credentials, providers, page>>
  BY <1>1 DEF Conflict, Turn
<1>3. persons' \in [Persons -> {Nil, "own", "other", "revoked"}]
  BY <1>1 DEF Conflict
<1>4. q \in RequestType /\ q.step = "rejected" /\ q.page = req[r].page
  BY <1>1 DEF RequestType, RequestSteps
<1>5. Sound(q)
  BY <1>1, <1>4 DEF Conflict, Sound, Finishing
<1> HIDE DEF q
<1>6. req' \in [Requests -> RequestType] /\ \A u \in Requests : req'[u] = IF u = r THEN q ELSE req[u]
  BY <1>1, <1>2, <1>4
<1>7. IdentityType'
  BY <1>2, <1>3, <1>6 DEF IdentityInv, IdentityType
<1>8. Single'
  BY <1>4, <1>6 DEF IdentityInv, Single
<1>9. \A u \in Requests : Sound(req[u])'
  <2> SUFFICES ASSUME NEW u \in Requests PROVE Sound(req[u])'
    OBVIOUS
  <2>1. req'[u] \in {q, req[u]} /\ Sound(req'[u])
    BY <1>5, <1>6 DEF IdentityInv
  <2>2. QED
    BY <1>2, <2>1 DEF Sound
<1>10. \A d \in Pages : SoundPage(page[d])'
  BY <1>2 DEF IdentityInv, SoundPage
<1>11. Sessions' /\ Completed'
  BY <1>2 DEF IdentityInv, Sessions, Completed
<1>12. QED
  BY <1>7, <1>8, <1>9, <1>10, <1>11 DEF IdentityInv

LEMMA SignOutKeeps ==
  ASSUME IdentityInv, NEW c \in Pages, SignOut(c)
  PROVE  IdentityInv'
<1> DEFINE t == page[c].token
           s == [sessions[t] EXCEPT !.expires = 0]
<1>1. page \in [Pages -> PageType] /\ page[c] \in PageType /\ SoundPage(page[c]) /\ req \in [Requests -> RequestType]
        /\ sessions \in [Tokens -> {Nil} \cup SessionType]
  BY DEF IdentityInv, IdentityType
<1>2. t \in Tokens /\ sessions[t] # Nil /\ sessions[t] \in SessionType /\ page[c].step = "form"
  BY <1>1 DEF SignOut, SoundPage, PageType
<1>3. s \in SessionType /\ s.person = sessions[t].person /\ s.attempt = sessions[t].attempt
  BY <1>2 DEF SessionType
<1>4. sessions' = [sessions EXCEPT ![t] = s] /\ page' = [page EXCEPT ![c] = NewPage]
  BY <1>1, <1>2 DEF SignOut
<1>5. UNCHANGED <<now, persons, attempts, credentials, providers, req>>
  BY DEF SignOut
<1> HIDE DEF s
<1>6. sessions' \in [Tokens -> {Nil} \cup SessionType]
        /\ \A u \in Tokens : sessions'[u] = IF u = t THEN s ELSE sessions[u]
  BY <1>1, <1>3, <1>4
<1>7. page' \in [Pages -> PageType] /\ \A d \in Pages : page'[d] = IF d = c THEN NewPage ELSE page[d]
  BY <1>1, <1>4, NewPageSound
<1>8. IdentityType'
  BY <1>5, <1>6, <1>7 DEF IdentityInv, IdentityType
<1>9. \A u \in Tokens : sessions[u] # Nil =>
         sessions'[u] # Nil /\ sessions'[u].person = sessions[u].person /\ sessions'[u].attempt = sessions[u].attempt
  BY <1>3, <1>6, NilApart
<1>10. \A u \in Tokens : sessions'[u] # Nil => sessions[u] # Nil
  BY <1>2, <1>6
<1>11. Single'
  BY <1>5 DEF IdentityInv, Single
<1>12. Sessions'
  BY <1>5, <1>9, <1>10 DEF IdentityInv, Sessions
<1>13. Completed'
  <2>1. \A b \in Attempts : attempts[b] # Nil /\ attempts[b].token # Nil => attempts[b].token \in Tokens
    BY DEF IdentityInv, IdentityType, AttemptType
  <2>2. QED
    BY <1>5, <1>9, <2>1 DEF IdentityInv, Completed
<1>14. \A u \in Requests : Sound(req[u])'
  <2> SUFFICES ASSUME NEW u \in Requests PROVE Sound(req[u])'
    OBVIOUS
  <2>1. req'[u] = req[u] /\ Sound(req[u]) /\ req[u] \in RequestType
    BY <1>1, <1>5 DEF IdentityInv
  <2>2. req[u].page # c
    BY <1>2, FormHasNone
  <2>3. req[u].page # Nil => page'[req[u].page] = page[req[u].page]
    BY <1>7, <2>1, <2>2 DEF RequestType
  <2>4. QED
    BY <1>5, <1>9, <2>1, <2>3 DEF Sound
<1>15. \A d \in Pages : SoundPage(page[d])'
  <2> SUFFICES ASSUME NEW d \in Pages PROVE SoundPage(page[d])'
    OBVIOUS
  <2>1. CASE d = c
    <3>1. page'[d] = NewPage
      BY <1>7, <2>1
    <3>2. QED
      BY <3>1 DEF SoundPage, NewPage
  <2>2. CASE d # c
    <3>1. page'[d] = page[d] /\ SoundPage(page[d]) /\ page[d] \in PageType
      BY <1>1, <1>7, <2>2 DEF IdentityInv
    <3>2. page[d].token \in Tokens \cup {Nil}
      BY <3>1 DEF PageType
    <3>3. QED
      BY <1>5, <1>9, <3>1, <3>2 DEF SoundPage
  <2>3. QED
    BY <2>1, <2>2
<1>16. QED
  BY <1>8, <1>11, <1>12, <1>13, <1>14, <1>15 DEF IdentityInv

(* What the demands on requests and pages do not mention may change.       *)
LEMMA OtherwiseKept ==
  ASSUME IdentityInv, UNCHANGED <<attempts, sessions, req, page>>,
         now' \in 0 .. Horizon, persons' \in [Persons -> {Nil, "own", "other", "revoked"}],
         credentials' \in [Polls -> {Nil} \cup SUBSET Persons],
         providers' \in [Providers -> {"up", "down", "conflicting"}]
  PROVE  IdentityInv'
<1>1. IdentityType'
  BY DEF IdentityInv, IdentityType
<1>2. Single' /\ Sessions' /\ Completed'
  BY DEF IdentityInv, Single, Sessions, Completed
<1>3. (\A r \in Requests : Sound(req[r])')
  BY DEF IdentityInv, Sound
<1>4. \A c \in Pages : SoundPage(page[c])'
  BY DEF IdentityInv, SoundPage
<1>5. QED
  BY <1>1, <1>2, <1>3, <1>4 DEF IdentityInv

LEMMA NextKeeps == IdentityInv /\ Next => IdentityInv'
<1> SUFFICES ASSUME IdentityInv, Next PROVE IdentityInv'
  OBVIOUS
<1>1. ASSUME NEW r \in Requests,
             Replay(r) \/ AskProvider(r) \/ Attest(r) \/ Expired(r) \/ FinishAgain(r)
               \/ Mint(r) \/ Conflict(r) \/ SignIn(r) \/ Fail(r) \/ CheckSession(r) \/ Grant(r) \/ Receive(r)
      PROVE  IdentityInv'
  BY <1>1, AnswerKeeps, AskProviderKeeps, AttestKeeps, RefuseKeeps, MintKeeps, ConflictKeeps, SignInKeeps,
     ReceiveKeeps
<1>2. ASSUME NEW r \in Requests, NEW c \in Pages,
             Retry(c, r) \/ (\E k \in Polls : AskCredential(c, r, k)) \/ (\E v \in Providers : Start(c, r, v))
      PROVE  IdentityInv'
  BY <1>2, RetryKeeps, AskCredentialKeeps, StartKeeps
<1>3. ASSUME NEW c \in Pages, GiveUp(c) \/ Reload(c) \/ SignOut(c) \/ \E p \in Persons : Choose(c, p)
      PROVE  IdentityInv'
  BY <1>3, PageKeeps, SignOutKeeps
<1>4. ASSUME NEW v \in Providers, Control(v) PROVE IdentityInv'
  BY <1>4, OtherwiseKept DEF Control, identity, IdentityInv, IdentityType
<1>5. CASE Tick
  <2>1. now' \in 0 .. Horizon
    BY <1>5, Numbers DEF Tick, IdentityInv, IdentityType
  <2>2. QED
    BY <1>5, <2>1, OtherwiseKept DEF Tick, identity, IdentityInv, IdentityType
<1>6. QED
  BY <1>1, <1>2, <1>3, <1>4, <1>5 DEF Next

(* Nothing of the identity service registers anything.                     *)
LEMMA NextRegistersNothing == Next => UNCHANGED credentials
<1> SUFFICES ASSUME Next PROVE UNCHANGED credentials
  OBVIOUS
<1>1. ASSUME NEW r \in Requests,
             Replay(r) \/ AskProvider(r) \/ Attest(r) \/ Expired(r) \/ FinishAgain(r)
               \/ Mint(r) \/ Conflict(r) \/ SignIn(r) \/ Fail(r) \/ CheckSession(r) \/ Grant(r) \/ Receive(r)
      PROVE  UNCHANGED credentials
  BY <1>1 DEF Replay, AskProvider, Attest, Expired, FinishAgain, Mint, Conflict, SignIn, Fail, CheckSession,
              Grant, Receive, identity
<1>2. ASSUME NEW r \in Requests, NEW c \in Pages,
             Retry(c, r) \/ (\E k \in Polls : AskCredential(c, r, k)) \/ (\E v \in Providers : Start(c, r, v))
      PROVE  UNCHANGED credentials
  BY <1>2 DEF Retry, AskCredential, Start, identity
<1>3. ASSUME NEW c \in Pages, GiveUp(c) \/ Reload(c) \/ SignOut(c) \/ \E p \in Persons : Choose(c, p)
      PROVE  UNCHANGED credentials
  BY <1>3 DEF GiveUp, Reload, SignOut, Choose, identity
<1>4. (\E v \in Providers : Control(v)) \/ Tick => UNCHANGED credentials
  BY DEF Control, Tick, identity
<1>5. QED
  BY <1>1, <1>2, <1>3, <1>4 DEF Next

-----------------------------------------------------------------------------
(***************************************************************************)
(* The ceremony                                                            *)
(***************************************************************************)
ApprovalType == [step : Steps, roster : SUBSET Persons, setup : Setups \cup {Nil}, left : SUBSET Trustees]

LEMMA FilesApart == Nil \notin Setups /\ Partial \notin Setups /\ Whole # Partial /\ Whole # Nil /\ Partial # Nil
  BY ProvisioningAssumption DEF ProvisioningAssumption, Setups

LEMMA NoApprovalType == NoApproval \in ApprovalType /\ NoApproval.step = "none"
  BY DEF NoApproval, ApprovalType, Steps

LEMMA CeremonyInit == PInit => CeremonyInv
<1> SUFFICES ASSUME PInit PROVE CeremonyInv
  OBVIOUS
<1>1. CeremonyType
  BY NoApprovalType DEF PInit, CeremonyType, ApprovalType
<1>2. credentials = [k \in Polls |-> Nil] /\ elections = {} /\ published = Nil
  BY DEF PInit, Init
<1>3. UnderCeremony
  BY <1>2 DEF UnderCeremony, Registered
<1>4. Behind
  BY NoApprovalType DEF PInit, Behind
<1>5. QED
  BY <1>1, <1>3, <1>4 DEF CeremonyInv

(* The approval goes on; what is registered and kept stays as it is.       *)
LEMMA GoesOn ==
  ASSUME CeremonyInv, UNCHANGED <<credentials, custody, elections, published, made>>,
         approval' \in ApprovalType, input' \in {Nil, Partial, Whole},
         ceremony' \in {Nil, Partial} \cup Setups,
         published = Nil => ceremony' = ceremony \/ Registered = {}, Behind'
  PROVE  CeremonyInv'
<1>1. CeremonyType'
  BY DEF CeremonyInv, CeremonyType, ApprovalType
<1>2. Registered' = Registered
  BY DEF Registered
<1>3. PublishedIsComplete' <=> PublishedIsComplete
  BY DEF PublishedIsComplete
<1>4. UnderCeremony'
  BY <1>2, <1>3 DEF CeremonyInv, UnderCeremony
<1>5. QED
  BY <1>1, <1>4 DEF CeremonyInv

LEMMA TypedApproval ==
  ASSUME CeremonyInv, NEW step \in Steps, Goto(step)
  PROVE  /\ approval' \in ApprovalType /\ approval'.step = step /\ approval'.setup = approval.setup
         /\ approval'.left = approval.left
  BY DEF CeremonyInv, CeremonyType, ApprovalType, Goto

LEMMA ApproveKeeps ==
  ASSUME CeremonyInv, Approve \/ WriteInput \/ ApproveAgain \/ RosterRegistered
  PROVE  CeremonyInv'
<1>1. UNCHANGED <<credentials, custody, elections, published, made, ceremony>>
  BY DEF Approve, WriteInput, ApproveAgain, RosterRegistered, vars, identity, files, places
<1>2. CASE Approve
  <2>1. approval' \in ApprovalType /\ approval'.step = "provision"
    BY <1>2 DEF Approve, NoApproval, ApprovalType, Steps
  <2>2. Behind'
    BY <1>1, <1>2, <2>1 DEF Approve, Behind
  <2>3. input' = input
    BY <1>2 DEF Approve, files
  <2>4. QED
    BY <1>1, <2>1, <2>2, <2>3, GoesOn DEF CeremonyInv, CeremonyType
<1>3. CASE WriteInput
  <2>1. Goto("ceremony") /\ At("provision") /\ input' \in {Nil, Partial, Whole} /\ "ceremony" \in Steps
    BY <1>3 DEF WriteInput, WriteOnce, Written, CeremonyInv, CeremonyType, Steps
  <2>2. approval' \in ApprovalType /\ approval'.step = "ceremony"
    BY <2>1, TypedApproval
  <2>3. Behind'
    BY <1>1, <2>1, <2>2 DEF At, CeremonyInv, Behind
  <2>4. QED
    BY <1>1, <2>1, <2>2, <2>3, GoesOn DEF CeremonyInv, CeremonyType
<1>4. CASE ApproveAgain
  <2>1. Goto("remove") /\ published # Nil /\ input' = input /\ "remove" \in Steps
    BY <1>4 DEF ApproveAgain, files, Steps
  <2>2. approval' \in ApprovalType /\ approval'.step = "remove"
    BY <2>1, TypedApproval
  <2>3. Behind'
    BY <1>1, <2>1, <2>2 DEF Behind
  <2>4. QED
    BY <1>1, <2>1, <2>2, <2>3, GoesOn DEF CeremonyInv, CeremonyType
<1>5. CASE RosterRegistered
  <2>1. Goto("ballot") /\ At("roster") /\ input' = input /\ "ballot" \in Steps
          /\ credentials[approval.setup.uuid] # Nil
    BY <1>5 DEF RosterRegistered, files, Steps
  <2>2. approval' \in ApprovalType /\ approval'.step = "ballot" /\ approval'.setup = approval.setup
    BY <2>1, TypedApproval
  <2>3. Behind'
    BY <1>1, <2>1, <2>2 DEF At, CeremonyInv, Behind, Kept
  <2>4. QED
    BY <1>1, <2>1, <2>2, <2>3, GoesOn DEF CeremonyInv, CeremonyType
<1>6. QED
  BY <1>2, <1>3, <1>4, <1>5

(* A ceremony is made only when there is none, and then nothing has been   *)
(* registered: it is kept until the approval is committed.                 *)
LEMMA CeremonyKeeps ==
  ASSUME CeremonyInv, Reuse \/ Create
  PROVE  CeremonyInv'
<1> DEFINE setup == ceremony'
<1>1. At("ceremony") /\ published = Nil /\ HandOut(setup)
        /\ UNCHANGED <<credentials, custody, elections, published, input>>
  BY DEF Reuse, Create, vars, identity, files, places, At, CeremonyInv, Behind
<1>2. setup \in Setups
  <2>1. CASE Reuse
    BY <2>1 DEF Reuse, files, CeremonyInv, CeremonyType
  <2>2. CASE Create
    <3>1. approval.roster \in SUBSET Persons
      BY DEF CeremonyInv, CeremonyType
    <3>2. QED
      BY <2>2, <3>1 DEF Create, Setups
  <2>3. QED
    BY <2>1, <2>2
<1>3. approval' \in ApprovalType /\ approval'.step = "custody" /\ approval'.setup = setup /\ approval'.left = Trustees
  BY <1>1, <1>2 DEF HandOut, ApprovalType, Steps, CeremonyInv, CeremonyType
<1>4. Behind'
  BY <1>1, <1>2, <1>3 DEF Behind, Kept
<1>5. made' \subseteq Polls
  BY DEF Reuse, Create, places, CeremonyInv, CeremonyType
<1>6. CeremonyType'
  BY <1>1, <1>2, <1>3, <1>5 DEF CeremonyInv, CeremonyType, ApprovalType
<1>7. ceremony' = ceremony \/ Registered = {}
  BY FilesApart DEF Reuse, Create, files, CeremonyInv, UnderCeremony, At, Behind
<1>8. Registered' = Registered
  BY <1>1 DEF Registered
<1>9. UnderCeremony'
  BY <1>1, <1>7, <1>8 DEF CeremonyInv, UnderCeremony
<1>10. QED
  BY <1>4, <1>6, <1>9 DEF CeremonyInv

(* Nobody is told of a key that is not whole on the trustee's disk.        *)
LEMMA HandOverKeeps ==
  ASSUME CeremonyInv, NEW t \in Trustees, HandOver(t)
  PROVE  CeremonyInv'
<1> DEFINE k == approval.setup.uuid
<1>1. At("custody") /\ published = Nil /\ approval.setup \in Setups /\ approval.setup = ceremony
        /\ Kept(k, Trustees \ approval.left) /\ t \in approval.left
  BY DEF HandOver, At, CeremonyInv, Behind
<1>2. UNCHANGED <<credentials, elections, published, made, input, ceremony>>
  BY DEF HandOver, vars, identity, places
<1>3. k \in Polls
  BY <1>1 DEF Setups
<1>4. custody' = [custody EXCEPT ![k][t] = Whole]
  BY FilesApart DEF HandOver, WriteOnce, Written
<1>5. custody' \in [Polls -> [Trustees -> {Nil, Partial, Whole}]]
  BY <1>3, <1>4 DEF CeremonyInv, CeremonyType
<1>6. \A u \in Trustees : custody'[k][u] = IF u = t THEN Whole ELSE custody[k][u]
  BY <1>3, <1>4 DEF CeremonyInv, CeremonyType
<1>7. approval' = [approval EXCEPT !.left = approval.left \ {t},
                                   !.step = IF approval.left = {t} THEN "roster" ELSE approval.step]
  BY DEF HandOver
<1>8. approval \in ApprovalType /\ approval.step = "custody"
  BY <1>1 DEF CeremonyInv, CeremonyType, ApprovalType, At
<1>9. approval' \in ApprovalType /\ approval'.setup = approval.setup /\ approval'.left = approval.left \ {t}
        /\ approval'.step = IF approval.left = {t} THEN "roster" ELSE "custody"
  BY <1>7, <1>8 DEF ApprovalType, Steps
<1>10. \A u \in Trustees \ (approval.left \ {t}) : custody'[k][u] = Whole
  BY <1>1, <1>6 DEF Kept
<1>11. Behind'
  BY <1>1, <1>2, <1>9, <1>10 DEF Behind, Kept
<1>12. CeremonyType'
  BY <1>2, <1>5, <1>9 DEF CeremonyInv, CeremonyType, ApprovalType
<1>13. UnderCeremony'
  BY <1>1, <1>2 DEF CeremonyInv, UnderCeremony, Registered
<1>14. QED
  BY <1>11, <1>12, <1>13 DEF CeremonyInv

(* The roster and the election are registered under the ceremony's own     *)
(* identifier, which no retry replaces.                                    *)
LEMMA RegisterKeeps ==
  ASSUME IdentityInv, CeremonyInv, RegisterRoster \/ RegisterBallot
  PROVE  IdentityInv' /\ CeremonyInv'
<1> DEFINE k == approval.setup.uuid
<1>1. published = Nil /\ approval.setup \in Setups /\ approval.setup = ceremony /\ Kept(k, Trustees)
  BY DEF RegisterRoster, RegisterBallot, At, CeremonyInv, Behind
<1>2. k \in Polls /\ approval.setup.roster \in SUBSET Persons
  BY <1>1 DEF Setups
<1>3. UNCHANGED <<custody, published, made, input, ceremony>>
  BY DEF RegisterRoster, RegisterBallot, files, places
<1>4. CASE RegisterRoster
  <2>1. credentials' = [credentials EXCEPT ![k] = approval.setup.roster] /\ elections' = elections
          /\ Goto("ballot") /\ "ballot" \in Steps
    BY <1>4 DEF RegisterRoster, places, Steps
  <2>2. credentials \in [Polls -> {Nil} \cup SUBSET Persons]
    BY DEF IdentityInv, IdentityType
  <2>3. credentials' \in [Polls -> {Nil} \cup SUBSET Persons] /\ credentials'[k] # Nil
          /\ \A j \in Polls : j # k => credentials'[j] = credentials[j]
    BY <1>2, <2>1, <2>2, NilApart
  <2>4. persons' \in [Persons -> {Nil, "own", "other", "revoked"}]
    BY <1>4 DEF RegisterRoster, IdentityInv, IdentityType
  <2>5. IdentityInv'
    <3>1. UNCHANGED <<now, attempts, sessions, providers, req, page>>
      BY <1>4 DEF RegisterRoster
    <3>2. QED
      BY <2>3, <2>4, <3>1, OtherwiseKept DEF IdentityInv, IdentityType
  <2>6. approval' \in ApprovalType /\ approval'.step = "ballot" /\ approval'.setup = approval.setup
    BY <2>1, TypedApproval
  <2>7. Behind'
    BY <1>1, <1>3, <2>3, <2>6 DEF Behind, Kept
  <2>8. CeremonyType'
    BY <1>3, <2>1, <2>6 DEF CeremonyInv, CeremonyType, ApprovalType
  <2>9. UnderCeremony'
    BY <1>1, <1>3, <2>1, <2>3 DEF CeremonyInv, UnderCeremony, Registered
  <2>10. QED
    BY <2>5, <2>7, <2>8, <2>9 DEF CeremonyInv
<1>5. CASE RegisterBallot
  <2>1. elections' = elections \cup {k} /\ At("ballot") /\ Goto("commit") /\ UNCHANGED vars /\ "commit" \in Steps
    BY <1>5 DEF RegisterBallot, Steps
  <2>2. UNCHANGED <<now, persons, attempts, sessions, credentials, providers, req, page>>
    BY <2>1 DEF vars, identity
  <2>3. IdentityInv'
    BY <2>2, OtherwiseKept DEF IdentityInv, IdentityType
  <2>4. approval' \in ApprovalType /\ approval'.step = "commit" /\ approval'.setup = approval.setup
    BY <2>1, TypedApproval
  <2>5. Behind'
    BY <1>1, <1>3, <2>1, <2>2, <2>4 DEF CeremonyInv, Behind, Kept, At
  <2>6. CeremonyType'
    BY <1>2, <1>3, <2>1, <2>4 DEF CeremonyInv, CeremonyType, ApprovalType
  <2>7. UnderCeremony'
    BY <1>1, <1>3, <2>1, <2>2 DEF CeremonyInv, UnderCeremony, Registered
  <2>8. QED
    BY <2>3, <2>5, <2>6, <2>7 DEF CeremonyInv
<1>6. QED
  BY <1>4, <1>5

LEMMA PublishKeeps ==
  ASSUME CeremonyInv, Publish
  PROVE  CeremonyInv'
<1> DEFINE k == approval.setup.uuid
<1>1. published = Nil /\ approval.setup \in Setups /\ approval.setup = ceremony /\ Kept(k, Trustees)
        /\ credentials[k] # Nil /\ k \in elections
  BY DEF Publish, At, CeremonyInv, Behind
<1>2. k \in Polls /\ k # Nil
  BY <1>1, NilApart DEF Setups
<1>3. UNCHANGED <<credentials, custody, elections, made, input, ceremony>> /\ published' = k
        /\ Goto("remove") /\ "remove" \in Steps
  BY DEF Publish, vars, identity, files, Steps
<1>4. approval' \in ApprovalType /\ approval'.step = "remove"
  BY <1>3, TypedApproval
<1>5. Registered \subseteq {k}
  BY <1>1 DEF CeremonyInv, UnderCeremony
<1>6. elections = {k}
  BY <1>1, <1>5 DEF Registered
<1>7. PublishedIsComplete'
  BY <1>1, <1>3, <1>6 DEF PublishedIsComplete, Kept
<1>8. Registered' = Registered
  BY <1>3 DEF Registered
<1>9. UnderCeremony'
  BY <1>2, <1>3, <1>5, <1>7, <1>8 DEF UnderCeremony
<1>10. Behind'
  BY <1>2, <1>3, <1>4 DEF Behind
<1>11. CeremonyType'
  BY <1>2, <1>3, <1>4 DEF CeremonyInv, CeremonyType, ApprovalType
<1>12. QED
  BY <1>9, <1>10, <1>11 DEF CeremonyInv

LEMMA RemoveFilesKeeps ==
  ASSUME CeremonyInv, RemoveFiles
  PROVE  CeremonyInv'
<1>1. UNCHANGED <<credentials, custody, elections, published, made>> /\ published # Nil /\ input' = Nil
        /\ ceremony' = Nil /\ approval' = NoApproval
  BY DEF RemoveFiles, vars, identity, places, At, CeremonyInv, Behind
<1>2. Behind'
  BY <1>1, NoApprovalType DEF Behind
<1>3. QED
  BY <1>1, <1>2, NoApprovalType, GoesOn

(* A half written file is left only where there was none.                  *)
LEMMA AbandonKeeps ==
  ASSUME CeremonyInv, Abandon
  PROVE  CeremonyInv'
<1>1. UNCHANGED <<credentials, elections, published, made>> /\ approval' = NoApproval
        /\ input' \in {input, Partial} /\ ceremony' \in {ceremony, Partial}
        /\ (ceremony # Nil => ceremony' = ceremony)
  BY DEF Abandon, vars, identity, places
<1>2. Behind'
  BY <1>1, NoApprovalType DEF Behind
<1>3. custody' \in [Polls -> [Trustees -> {Nil, Partial, Whole}]]
        /\ (published # Nil => custody' = custody)
  <2>1. CASE UNCHANGED custody
    BY <2>1 DEF CeremonyInv, CeremonyType
  <2>2. ASSUME At("custody"), NEW t \in approval.left,
               custody' = [custody EXCEPT ![approval.setup.uuid][t] = Partial]
        PROVE  custody' \in [Polls -> [Trustees -> {Nil, Partial, Whole}]] /\ published = Nil
    <3>1. approval.setup.uuid \in Polls /\ published = Nil /\ t \in Trustees
      BY <2>2 DEF CeremonyInv, CeremonyType, Behind, At, Setups
    <3>2. QED
      BY <2>2, <3>1 DEF CeremonyInv, CeremonyType
  <2>3. QED
    BY <2>1, <2>2 DEF Abandon
<1>4. CeremonyType'
  BY <1>1, <1>3, NoApprovalType DEF CeremonyInv, CeremonyType, ApprovalType
<1>5. Registered' = Registered
  BY <1>1 DEF Registered
<1>6. UnderCeremony'
  <2>1. CASE published = Nil
    BY <1>1, <1>5, <2>1, FilesApart DEF CeremonyInv, UnderCeremony
  <2>2. CASE published # Nil
    BY <1>1, <1>3, <1>5, <2>2 DEF CeremonyInv, UnderCeremony, PublishedIsComplete
  <2>3. QED
    BY <2>1, <2>2
<1>7. QED
  BY <1>2, <1>4, <1>6 DEF CeremonyInv

-----------------------------------------------------------------------------
LEMMA StepKeeps == PInv /\ [PNext]_pvars => PInv'
<1> SUFFICES ASSUME PInv, [PNext]_pvars PROVE PInv'
  OBVIOUS
<1>1. IdentityInv /\ CeremonyInv
  BY DEF PInv
<1>2. ASSUME UNCHANGED vars PROVE IdentityInv'
  <2>1. UNCHANGED <<now, persons, attempts, sessions, credentials, providers, req, page>>
    BY <1>2 DEF vars, identity
  <2>2. QED
    BY <1>1, <2>1, OtherwiseKept DEF IdentityInv, IdentityType
<1>3. ASSUME UNCHANGED <<credentials, files, places, approval>> PROVE CeremonyInv'
  <2>1. UNCHANGED <<credentials, input, ceremony, custody, elections, published, made, approval>>
    BY <1>3 DEF files, places
  <2>2. Behind'
    BY <1>1, <2>1 DEF CeremonyInv, Behind, Kept
  <2>3. QED
    BY <1>1, <2>1, <2>2, GoesOn DEF CeremonyInv, CeremonyType, ApprovalType
<1>4. CASE Next /\ UNCHANGED <<files, places, approval>>
  BY <1>1, <1>3, <1>4, NextKeeps, NextRegistersNothing DEF PInv
<1>5. CASE Approve \/ WriteInput \/ ApproveAgain \/ RosterRegistered
  <2>1. UNCHANGED vars
    BY <1>5 DEF Approve, WriteInput, ApproveAgain, RosterRegistered
  <2>2. QED
    BY <1>1, <1>2, <1>5, <2>1, ApproveKeeps DEF PInv
<1>6. CASE Reuse \/ Create
  <2>1. UNCHANGED vars
    BY <1>6 DEF Reuse, Create
  <2>2. QED
    BY <1>1, <1>2, <1>6, <2>1, CeremonyKeeps DEF PInv
<1>7. ASSUME NEW t \in Trustees, HandOver(t) PROVE PInv'
  <2>1. UNCHANGED vars
    BY <1>7 DEF HandOver
  <2>2. QED
    BY <1>1, <1>2, <1>7, <2>1, HandOverKeeps DEF PInv
<1>8. CASE RegisterRoster \/ RegisterBallot
  BY <1>1, <1>8, RegisterKeeps DEF PInv
<1>9. CASE Publish \/ RemoveFiles \/ Abandon
  <2>1. UNCHANGED vars
    BY <1>9 DEF Publish, RemoveFiles, Abandon
  <2>2. QED
    BY <1>1, <1>2, <1>9, <2>1, PublishKeeps, RemoveFilesKeeps, AbandonKeeps DEF PInv
<1>10. CASE UNCHANGED pvars
  BY <1>1, <1>2, <1>3, <1>10 DEF pvars, vars, identity, PInv
<1>11. QED
  BY <1>4, <1>5, <1>6, <1>7, <1>8, <1>9, <1>10 DEF PNext

LEMMA Invariance == Spec => []PInv
<1>1. PInit => PInv
  BY IdentityInit, CeremonyInit DEF PInit, PInv
<1>2. QED
  BY <1>1, StepKeeps, PTL DEF Spec

(* Every row of the identity service, every page, request, file and step   *)
(* of an approval is one the code knows (identity.ts, Identity.tsx,        *)
(* provisioning.ts, management.ts).                                        *)
THEOREM ProvisioningTypeCorrect == Spec => []TypeOK
<1>1. PInv => TypeOK
  BY DEF PInv, IdentityInv, IdentityType, CeremonyInv, CeremonyType, TypeOK, AttemptType, SessionType, RequestType,
         PageType
<1>2. QED
  BY <1>1, Invariance, PTL

(* An attempt opens one session, however many requests of /v1/auth/finish  *)
(* finish it at the same time.                                             *)
THEOREM AttemptOpensOneSession == Spec => []OneSessionPerAttempt
<1>1. PInv => OneSessionPerAttempt
  BY DEF PInv, IdentityInv, Sessions, OneSessionPerAttempt
<1>2. QED
  BY <1>1, Invariance, PTL

(* The session a page holds is that of the person chosen on it: an answer  *)
(* to a request the page gave up, or made for somebody else, is never      *)
(* taken for its own.                                                      *)
THEOREM PageSignedInAsChosen == Spec => []SignedInAsChosen
<1>1. PInv => SignedInAsChosen
  BY DEF PInv, IdentityInv, SoundPage, SignedInAsChosen
<1>2. QED
  BY <1>1, Invariance, PTL

(* The steps of an approval that failed and was tried again, any number of *)
(* times, have registered one roster and one election.                     *)
THEOREM ApprovalMakesOneElection == Spec => []OneElection
<1>1. PInv => OneElection
  <2> SUFFICES ASSUME PInv PROVE OneElection
    OBVIOUS
  <2>1. \E x : Registered \subseteq {x}
    BY DEF PInv, CeremonyInv, UnderCeremony
  <2>2. PICK x : Registered \subseteq {x}
    BY <2>1
  <2>3. IsFiniteSet({x}) /\ Cardinality({x}) = 1
    BY FS_Singleton
  <2>4. IsFiniteSet(Registered) /\ Cardinality(Registered) <= 1
    BY <2>2, <2>3, FS_Subset
  <2>5. QED
    BY <2>4 DEF OneElection, Registered
<1>2. QED
  BY <1>1, Invariance, PTL

(* What is committed is complete: the election, its roster and every       *)
(* trustee's key were there before.                                        *)
THEOREM CommittedApprovalIsComplete == Spec => []PublishedIsComplete
<1>1. PInv => PublishedIsComplete
  BY DEF PInv, CeremonyInv, UnderCeremony, PublishedIsComplete
<1>2. QED
  BY <1>1, Invariance, PTL
=============================================================================
