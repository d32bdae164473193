------------------------------ MODULE Identity ------------------------------
(***************************************************************************)
(* The identity service (apps/api/src/identity.ts), the two synthetic      *)
(* providers it asks (provider.ts, identity-provider.ts) and the pages     *)
(* that sign in (apps/web/src/Identity.tsx) and fetch the right to vote.   *)
(*                                                                         *)
(* An attempt belongs to the page that started it.  A request the page     *)
(* gave up goes on in the service, so one attempt may be finished twice at *)
(* the same time.  /v1/auth/finish reads the attempt, waits for the        *)
(* provider outside any transaction, and then decides in a transaction     *)
(* that holds the lock of the person and the row of the attempt.           *)
(***************************************************************************)
EXTENDS Naturals, FiniteSets

CONSTANTS
  Persons, Providers, Pages,
  Requests,               \* bound: requests in progress at any time
  Attempts, Tokens, Polls, Nil,  \* random identifiers, each given once
  AttemptLife, SessionLife, ClosesAt,  \* in ticks of the clock
  MaxTries,               \* three in Identity.tsx
  Horizon                 \* bound: the clock stops here

ASSUME IdentityAssumption ==
  /\ {AttemptLife, SessionLife, ClosesAt, MaxTries, Horizon} \subseteq Nat
  /\ Nil \notin Persons \cup Attempts \cup Tokens \cup Pages \cup Polls
  /\ Nil \notin [subject : Persons, provider : Providers, expires : Nat, token : Tokens \cup {Nil}]
  /\ Nil \notin [person : Persons, attempt : Attempts, expires : Nat]
  /\ \A R \in SUBSET Persons : R # Nil

VARIABLES
  now,
  persons,      \* attributes of a known person, "revoked" after a conflict
  attempts,     \* the attempts table; the token of a completed attempt
  sessions,     \* the sessions table
  credentials,  \* the persons each poll has credentials for, Nil before its roster
  providers,    \* what each provider does: "up", "down" or "conflicting"
  req,          \* the requests in progress
  page          \* the pages

identity == <<persons, attempts, sessions, credentials>>
vars == <<now, identity, providers, req, page>>

(* An expired attempt is never read again, deleted or not; a session that  *)
(* is signed out is one that has expired.                                  *)
Alive(a) == attempts[a] # Nil /\ now < attempts[a].expires

Valid(t) == sessions[t] # Nil /\ now < sessions[t].expires /\ persons[sessions[t].person] # "revoked"

Free == [step |-> "free", page |-> Nil, attempt |-> Nil, token |-> Nil, content |-> Nil]

NewPage == [step |-> "form", subject |-> Nil, attempt |-> Nil, tries |-> 0, terminal |-> FALSE, token |-> Nil]

Init ==
  /\ now = 0
  /\ persons = [p \in Persons |-> Nil]
  /\ attempts = [a \in Attempts |-> Nil]
  /\ sessions = [t \in Tokens |-> Nil]
  /\ credentials = [k \in Polls |-> Nil]
  /\ providers = [v \in Providers |-> "up"]
  /\ req = [r \in Requests |-> Free]
  /\ page = [c \in Pages |-> NewPage]

Turn(r, step) == req' = [req EXCEPT ![r].step = step]

Send(c, r, step, a, t, content) ==
  /\ req[r] = Free
  /\ req' = [req EXCEPT ![r] = [step |-> step, page |-> c, attempt |-> a, token |-> t, content |-> content]]

Orphaned(c) == [r \in Requests |-> IF req[r].page = c THEN [req[r] EXCEPT !.page = Nil] ELSE req[r]]

----------------------------------------------------------------------------
(* Identity.tsx                                                            *)

(* Mutant: the tries are not limited. *)
CanAlwaysConfirm(c) ==
  page[c].step = "form" /\ page[c].token = Nil /\ ~page[c].terminal

CanConfirm(c) ==
  page[c].step = "form" /\ page[c].token = Nil /\ page[c].tries < MaxTries /\ ~page[c].terminal

(* confirm() without an attempt: POST /v1/auth/start, whose reply may be   *)
(* lost, and POST /v1/auth/finish.                                         *)
Start(c, r, v) ==
  /\ CanConfirm(c) /\ page[c].attempt = Nil /\ page[c].subject # Nil
  /\ \E a \in Attempts :
       /\ attempts[a] = Nil
       /\ attempts' = [attempts EXCEPT ![a] =
            [subject |-> page[c].subject, provider |-> v, expires |-> now + AttemptLife, token |-> Nil]]
       /\ \/ /\ Send(c, r, "finish", a, Nil, Nil)
             /\ page' = [page EXCEPT ![c] = [@ EXCEPT !.step = "waiting", !.attempt = a, !.tries = page[c].tries + 1]]
          \/ /\ page' = [page EXCEPT ![c].tries = @ + 1]
             /\ UNCHANGED req
  /\ UNCHANGED <<now, persons, sessions, credentials, providers>>

(* confirm() again: the same attempt is finished once more.                *)
Retry(c, r) ==
  /\ CanConfirm(c) /\ page[c].attempt # Nil
  /\ Send(c, r, "finish", page[c].attempt, Nil, Nil)
  /\ page' = [page EXCEPT ![c] = [@ EXCEPT !.step = "waiting", !.tries = page[c].tries + 1]]
  /\ UNCHANGED <<now, identity, providers>>

(* Mutant: choosing another person keeps the attempt. *)
ChooseKeeps(c, p) ==
  /\ page[c].step = "form" /\ page[c].token = Nil
  /\ page' = [page EXCEPT ![c] = [@ EXCEPT !.subject = p, !.tries = 0, !.terminal = FALSE]]
  /\ UNCHANGED <<now, identity, providers, req>>

(* Choosing a person, or a provider, calls restart().                      *)
Choose(c, p) ==
  /\ page[c].step = "form" /\ page[c].token = Nil
  /\ page' = [page EXCEPT ![c] = [NewPage EXCEPT !.subject = p]]
  /\ UNCHANGED <<now, identity, providers, req>>

(* A page that is loaded again, or whose session has come to its end, has  *)
(* forgotten everything.  Its request goes on.                             *)
Reload(c) ==
  /\ page[c] # NewPage
  /\ page' = [page EXCEPT ![c] = NewPage]
  /\ req' = Orphaned(c)
  /\ UNCHANGED <<now, identity, providers>>

(* The time limit of api.ts: the request goes on without the page.         *)
GiveUp(c) ==
  /\ page[c].step = "waiting"
  /\ page' = [page EXCEPT ![c].step = "form"]
  /\ req' = Orphaned(c)
  /\ UNCHANGED <<now, identity, providers>>

Receive(r) ==
  LET c == req[r].page IN
  /\ req[r].step \in {"signedIn", "granted", "rejected", "failed"}
  /\ req' = [req EXCEPT ![r] = Free]
  /\ page' = IF c = Nil THEN page
             ELSE [page EXCEPT ![c] = [@ EXCEPT !.step = "form",
                     !.token = IF req[r].step = "signedIn" THEN req[r].token ELSE page[c].token,
                     !.terminal = page[c].token = Nil /\ req[r].step = "rejected"]]
  /\ UNCHANGED <<now, identity, providers>>

----------------------------------------------------------------------------
(* POST /v1/auth/finish                                                    *)

(* A completed attempt is answered with its own session.                   *)
Replay(r) ==
  LET a == req[r].attempt IN
  /\ req[r].step = "finish" /\ Alive(a) /\ attempts[a].token # Nil
  /\ req' = [req EXCEPT ![r].step = "minted", ![r].token = attempts[a].token]
  /\ UNCHANGED <<now, identity, providers, page>>

(* POST /attest: refused at once when the provider is down; its answer, up *)
(* to three seconds later, is what it does then.                           *)
AskProvider(r) ==
  LET a == req[r].attempt IN
  /\ req[r].step = "finish" /\ Alive(a) /\ attempts[a].token = Nil
  /\ Turn(r, IF providers[attempts[a].provider] = "down" THEN "failed" ELSE "asked")
  /\ UNCHANGED <<now, identity, providers, page>>

Attest(r) ==
  /\ req[r].step = "asked"
  /\ req' = [req EXCEPT ![r].step = "attested",
       ![r].content = IF providers[attempts[req[r].attempt].provider] = "conflicting" THEN "other" ELSE "own"]
  /\ UNCHANGED <<now, identity, providers, page>>

(* IDENTITY_RETURN_EXPIRED, before the provider is asked or after.         *)
Expired(r) ==
  /\ req[r].step \in {"finish", "attested"} /\ ~Alive(req[r].attempt)
  /\ Turn(r, "rejected")
  /\ UNCHANGED <<now, identity, providers, page>>

(* The transaction found the attempt completed by another request.         *)
FinishAgain(r) ==
  LET a == req[r].attempt IN
  /\ req[r].step = "attested" /\ Alive(a) /\ attempts[a].token # Nil
  /\ req' = [req EXCEPT ![r].step = "minted", ![r].token = attempts[a].token]
  /\ UNCHANGED <<now, identity, providers, page>>

(* Mutant: the attempt is not read again under its lock. *)
MintUnchecked(r) ==
  LET a == req[r].attempt
      p == attempts[a].subject
  IN
  /\ req[r].step = "attested" /\ Alive(a)
  /\ persons[p] \in {Nil, req[r].content}
  /\ persons' = [persons EXCEPT ![p] = req[r].content]
  /\ \E t \in Tokens :
       /\ sessions[t] = Nil
       /\ sessions' = [sessions EXCEPT ![t] = [person |-> p, attempt |-> a, expires |-> now + SessionLife]]
       /\ attempts' = [attempts EXCEPT ![a].token = t]
       /\ req' = [req EXCEPT ![r].step = "minted", ![r].token = t]
  /\ UNCHANGED <<now, credentials, providers, page>>

(* A known person's attributes must be the ones attested.                  *)
Mint(r) ==
  LET a == req[r].attempt
      p == attempts[a].subject
  IN
  /\ req[r].step = "attested" /\ Alive(a) /\ attempts[a].token = Nil
  /\ persons[p] \in {Nil, req[r].content}
  /\ persons' = [persons EXCEPT ![p] = req[r].content]
  /\ \E t \in Tokens :
       /\ sessions[t] = Nil
       /\ sessions' = [sessions EXCEPT ![t] = [person |-> p, attempt |-> a, expires |-> now + SessionLife]]
       /\ attempts' = [attempts EXCEPT ![a].token = t]
       /\ req' = [req EXCEPT ![r].step = "minted", ![r].token = t]
  /\ UNCHANGED <<now, credentials, providers, page>>

(* PROVIDER_ATTRIBUTES_CONFLICT: the person is out, with every session.    *)
Conflict(r) ==
  LET a == req[r].attempt
      p == attempts[a].subject
  IN
  /\ req[r].step = "attested" /\ Alive(a) /\ attempts[a].token = Nil
  /\ persons[p] \notin {Nil, req[r].content}
  /\ persons' = [persons EXCEPT ![p] = "revoked"]
  /\ Turn(r, "rejected")
  /\ UNCHANGED <<now, attempts, sessions, credentials, providers, page>>

(* The session is read back before it is handed out.                       *)
SignIn(r) ==
  /\ req[r].step = "minted"
  /\ Turn(r, IF Valid(req[r].token) THEN "signedIn" ELSE "rejected")
  /\ UNCHANGED <<now, identity, providers, page>>

(* The database or the connection fails; a transaction leaves no trace.    *)
Fail(r) ==
  /\ req[r].step \in {"finish", "asked", "attested", "minted", "credential", "entitled"}
  /\ Turn(r, "failed")
  /\ UNCHANGED <<now, identity, providers, page>>

----------------------------------------------------------------------------
(* DELETE /v1/session.  The page forgets its token with the answer.        *)
SignOut(c) ==
  /\ page[c].step = "form" /\ page[c].token # Nil /\ Valid(page[c].token)
  /\ sessions' = [sessions EXCEPT ![page[c].token].expires = 0]
  /\ page' = [page EXCEPT ![c] = NewPage]
  /\ UNCHANGED <<now, persons, attempts, credentials, providers, req>>

(* POST /v1/credentials/:pollId: the session, then the credential.         *)
AskCredential(c, r, k) ==
  /\ page[c].step = "form" /\ page[c].token # Nil
  /\ Send(c, r, "credential", Nil, page[c].token, k)
  /\ page' = [page EXCEPT ![c].step = "waiting"]
  /\ UNCHANGED <<now, identity, providers>>

CheckSession(r) ==
  /\ req[r].step = "credential"
  /\ Turn(r, IF Valid(req[r].token) THEN "entitled" ELSE "rejected")
  /\ UNCHANGED <<now, identity, providers, page>>

Grant(r) ==
  LET roster == credentials[req[r].content]
      entitled == roster # Nil /\ sessions[req[r].token].person \in roster
  IN
  /\ req[r].step = "entitled"
  /\ Turn(r, IF entitled /\ now < ClosesAt THEN "granted" ELSE "rejected")
  /\ UNCHANGED <<now, identity, providers, page>>

(* POST /control of a provider.                                            *)
Control(v) ==
  /\ \E s \in {"up", "down", "conflicting"} : s # providers[v] /\ providers' = [providers EXCEPT ![v] = s]
  /\ UNCHANGED <<now, identity, req, page>>

Tick ==
  /\ now < Horizon
  /\ now' = now + 1
  /\ UNCHANGED <<identity, providers, req, page>>

Next ==
  \/ \E r \in Requests :
       \/ Replay(r) \/ AskProvider(r) \/ Attest(r) \/ Expired(r) \/ FinishAgain(r)
       \/ Mint(r) \/ Conflict(r) \/ SignIn(r) \/ Fail(r) \/ CheckSession(r) \/ Grant(r) \/ Receive(r)
       \/ \E c \in Pages :
            \/ Retry(c, r)
            \/ \E k \in Polls : AskCredential(c, r, k)
            \/ \E v \in Providers : Start(c, r, v)
  \/ \E c \in Pages : GiveUp(c) \/ Reload(c) \/ SignOut(c) \/ \E p \in Persons : Choose(c, p)
  \/ \E v \in Providers : Control(v)
  \/ Tick
----------------------------------------------------------------------------
(* An attempt opens one session, however many requests finish it, in       *)
(* whatever order, and whatever replies are lost.                          *)
OneSessionPerAttempt ==
  \A s, t \in Tokens :
    sessions[s] # Nil /\ sessions[t] # Nil /\ sessions[s].attempt = sessions[t].attempt => s = t

(* A page is signed in as the person chosen on it, whatever was chosen     *)
(* before and whatever answers arrive late.                                *)
SignedInAsChosen ==
  \A c \in Pages : page[c].token # Nil => sessions[page[c].token].person = page[c].subject
=============================================================================
