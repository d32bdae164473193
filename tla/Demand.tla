------------------------------- MODULE Demand -------------------------------
(***************************************************************************)
(* The demand landing: apps/api/src/demand.ts with its table, and the page *)
(* that calls it (apps/web/src/DemandApp.tsx, demand-api.ts), open in some *)
(* tabs of some browsers.  A credential is the cookie a browser is given   *)
(* by the first GET it sends without one; the server stores nothing until  *)
(* an answer is recorded under it.                                         *)
(*                                                                         *)
(* A request outlives the tab that gave it up (a time limit, a reload): it *)
(* is then nobody's, and its effect on the table is the same.  The POST is *)
(* a transaction whose INSERT holds the key of the credential until it     *)
(* commits; the counts it answers with are read in between.                *)
(***************************************************************************)
EXTENDS Naturals, Sequences, FiniteSets

CONSTANTS
  Browsers, Tabs, BrowserOf,  \* open pages, and the browser each is open in
  Requests,                   \* bound: requests in progress at any time
  Credentials, Answers, Nil,
  PerCredential, CredentialWindow,  \* demandChatLimits, in ticks of the clock
  Global, GlobalWindow, Concurrent,
  Horizon                     \* bound: the clock stops here

ASSUME DemandAssumption ==
  /\ IsFiniteSet(Credentials)
  /\ BrowserOf \in [Tabs -> Browsers]
  /\ Nil \notin Credentials \cup Answers \cup Tabs \cup {"final"}
  /\ {PerCredential, CredentialWindow, Global, GlobalWindow, Concurrent, Horizon} \subseteq Nat

VARIABLES
  now,
  responses,  \* demand_responses: credential -> final answer
  issued,     \* the credentials a GET has put in a cookie
  jar,        \* the cookie of each browser
  tab,        \* what each page shows
  req,        \* the requests in progress
  asked,      \* chatRequests: credential -> times
  askedAll,   \* globalChatRequests
  active,     \* activeChatRequests
  granted     \* history: the questions this process has passed on

chat == <<asked, askedAll, active, granted>>
vars == <<now, responses, issued, jar, tab, req, chat>>

Count(rows) == [a \in Answers |-> Cardinality({c \in Credentials : rows[c] = a})]

Free == [step |-> "free", tab |-> Nil, cred |-> Nil, answer |-> Nil, results |-> Count([c \in Credentials |-> Nil])]

(* choice is the answer selected and confirmed, thanks the recorded one.   *)
Blank == [step |-> "blank", choice |-> Nil, thanks |-> Nil, told |-> Nil, results |-> Free.results]

Init ==
  /\ now = 0
  /\ responses = [c \in Credentials |-> Nil]
  /\ issued = {}
  /\ jar = [b \in Browsers |-> Nil]
  /\ tab = [t \in Tabs |-> Blank]
  /\ req = [q \in Requests |-> Free]
  /\ asked = [c \in Credentials |-> <<>>]
  /\ askedAll = <<>> /\ active = 0 /\ granted = <<>>

Send(q, t, step, answer) ==
  /\ req[q] = Free
  /\ req' = [req EXCEPT ![q] = [Free EXCEPT !.step = step, !.tab = t, !.cred = jar[BrowserOf[t]], !.answer = answer]]

Turn(q, step) == req' = [req EXCEPT ![q].step = step]

----------------------------------------------------------------------------
(* GET /api/v1/demand-poll                                                 *)

Load(t, q) ==
  /\ tab[t] = Blank
  /\ Send(q, t, "get", Nil)
  /\ tab' = [tab EXCEPT ![t].step = "loading"]
  /\ UNCHANGED <<now, responses, issued, jar, chat>>

(* The reply to a request without a cookie sets one.                       *)
ServeLoad(q) ==
  /\ req[q].step = "get"
  /\ \E c \in IF req[q].cred = Nil THEN Credentials \ issued ELSE {req[q].cred} :
       /\ issued' = issued \cup {c}
       /\ req' = [req EXCEPT ![q] = [step |-> IF @.cred = Nil THEN "cookie" ELSE "poll", tab |-> @.tab,
                                     cred |-> c, answer |-> responses[c], results |-> Count(responses)]]
  /\ UNCHANGED <<now, responses, jar, tab, chat>>

ReceiveLoad(q) ==
  LET t == req[q].tab IN
  /\ req[q].step \in {"poll", "cookie"} /\ t # Nil
  /\ jar' = IF req[q].step = "cookie" THEN [jar EXCEPT ![BrowserOf[t]] = req[q].cred] ELSE jar
  /\ tab' = [tab EXCEPT ![t] = [Blank EXCEPT !.step = "shown", !.thanks = req[q].answer, !.results = req[q].results]]
  /\ req' = [req EXCEPT ![q] = Free]
  /\ UNCHANGED <<now, responses, issued, chat>>

----------------------------------------------------------------------------
(* POST /api/v1/demand-poll                                                *)

(* The form is there until an answer is recorded.  Selecting another       *)
(* answer asks for the confirmation again.                                 *)
Choose(t, a) ==
  /\ tab[t].step = "shown" /\ tab[t].thanks = Nil
  /\ tab' = [tab EXCEPT ![t].choice = a]
  /\ UNCHANGED <<now, responses, issued, jar, req, chat>>

Submit(t, q) ==
  /\ tab[t].step = "shown" /\ tab[t].thanks = Nil /\ tab[t].choice # Nil
  /\ Send(q, t, "post", tab[t].choice)
  /\ tab' = [tab EXCEPT ![t].step = "sending", ![t].told = Nil]
  /\ UNCHANGED <<now, responses, issued, jar, chat>>

(* Mutant: the conflicting answer replaces the first. *)
InsertOrUpdate(q) ==
  /\ req[q].step = "post" /\ req[q].cred # Nil
  /\ \A p \in Requests : req[p].step = "inserted" => req[p].cred # req[q].cred
  /\ req' = [req EXCEPT ![q].step = "inserted", ![q].results = Count([responses EXCEPT ![req[q].cred] = req[q].answer])]
  /\ UNCHANGED <<now, responses, issued, jar, tab, chat>>

(* The INSERT waits for another one of the same credential to end.         *)
Insert(q) ==
  /\ req[q].step = "post" /\ req[q].cred # Nil
  /\ \A p \in Requests : req[p].step = "inserted" => req[p].cred # req[q].cred
  /\ responses[req[q].cred] = Nil
  /\ req' = [req EXCEPT ![q].step = "inserted", ![q].results = Count([responses EXCEPT ![req[q].cred] = req[q].answer])]
  /\ UNCHANGED <<now, responses, issued, jar, tab, chat>>

(* Mutant: the receipt does not wait for the COMMIT, which may fail. *)
CommitUnawaited(q) ==
  /\ req[q].step = "inserted"
  /\ responses' \in {responses, [responses EXCEPT ![req[q].cred] = req[q].answer]}
  /\ Turn(q, "receipt")
  /\ UNCHANGED <<now, issued, jar, tab, chat>>

Commit(q) ==
  /\ req[q].step = "inserted"
  /\ responses' = [responses EXCEPT ![req[q].cred] = req[q].answer]
  /\ Turn(q, "receipt")
  /\ UNCHANGED <<now, issued, jar, tab, chat>>

(* Mutant: any earlier answer is taken for the same one. *)
ConfirmAny(q) ==
  /\ req[q].step = "post" /\ req[q].cred # Nil
  /\ responses[req[q].cred] # Nil
  /\ req' = [req EXCEPT ![q].step = "receipt", ![q].results = Count(responses)]
  /\ UNCHANGED <<now, responses, issued, jar, tab, chat>>

(* The credential has answered already: the same answer is confirmed.      *)
Confirm(q) ==
  /\ req[q].step = "post" /\ req[q].cred # Nil
  /\ responses[req[q].cred] = req[q].answer
  /\ req' = [req EXCEPT ![q].step = "receipt", ![q].results = Count(responses)]
  /\ UNCHANGED <<now, responses, issued, jar, tab, chat>>

(* FINAL_RESPONSE_ALREADY_RECORDED                                         *)
Refuse(q) ==
  /\ req[q].step = "post" /\ req[q].cred # Nil
  /\ responses[req[q].cred] \notin {Nil, req[q].answer}
  /\ Turn(q, "final")
  /\ UNCHANGED <<now, responses, issued, jar, tab, chat>>

(* Any other failure of one request, DEMAND_CREDENTIAL_REQUIRED included:  *)
(* its transaction is rolled back.                                         *)
Fail(q) ==
  /\ req[q].step \in {"get", "post", "inserted"}
  /\ Turn(q, "failed")
  /\ UNCHANGED <<now, responses, issued, jar, tab, chat>>

ReceiveReceipt(q) ==
  /\ req[q].step = "receipt" /\ req[q].tab # Nil
  /\ tab' = [tab EXCEPT ![req[q].tab] = [Blank EXCEPT !.step = "shown", !.thanks = req[q].answer, !.results = req[q].results]]
  /\ req' = [req EXCEPT ![q] = Free]
  /\ UNCHANGED <<now, responses, issued, jar, chat>>

(* After an error the choice stays and may be sent again, or changed.      *)
ReceiveError(q) ==
  LET t == req[q].tab IN
  /\ req[q].step \in {"final", "failed"} /\ t # Nil
  /\ tab' = [tab EXCEPT ![t] = IF @.step = "sending" THEN [@ EXCEPT !.step = "shown", !.told = req[q].step] ELSE Blank]
  /\ req' = [req EXCEPT ![q] = Free]
  /\ UNCHANGED <<now, responses, issued, jar, chat>>

----------------------------------------------------------------------------
(* The browser                                                             *)

Orphaned(t) == [q \in Requests |-> IF req[q].tab = t THEN [req[q] EXCEPT !.tab = Nil] ELSE req[q]]

(* AbortSignal.timeout, or the connection breaks.                          *)
GiveUp(t) ==
  /\ tab[t].step = "sending"
  /\ tab' = [tab EXCEPT ![t].step = "shown", ![t].told = "failed"]
  /\ req' = Orphaned(t)
  /\ UNCHANGED <<now, responses, issued, jar, chat>>

Reload(t) ==
  /\ tab[t] # Blank
  /\ tab' = [tab EXCEPT ![t] = Blank]
  /\ req' = Orphaned(t)
  /\ UNCHANGED <<now, responses, issued, jar, chat>>

(* The visitor clears the site's data, with the tabs still open.           *)
ClearCookie(b) ==
  /\ jar[b] # Nil
  /\ jar' = [jar EXCEPT ![b] = Nil]
  /\ UNCHANGED <<now, responses, issued, tab, req, chat>>

Discard(q) ==
  /\ req[q].step \in {"poll", "cookie", "receipt", "final", "failed"} /\ req[q].tab = Nil
  /\ req' = [req EXCEPT ![q] = Free]
  /\ UNCHANGED <<now, responses, issued, jar, tab, chat>>

----------------------------------------------------------------------------
(* POST /api/v1/demand-chat.  The handler does not yield between pruning   *)
(* the lists and taking a place.                                           *)

(* Mutant: a question is forgotten one tick early. *)
RecentForgets(times, window) ==
  LET kept[i \in 0 .. Len(times)] ==
        IF i = 0 THEN <<>>
        ELSE IF now - times[i] + 1 < window THEN Append(kept[i - 1], times[i])
        ELSE kept[i - 1]
  IN kept[Len(times)]

(* The times less than a window ago, in their order.                       *)
Recent(times, window) ==
  LET kept[i \in 0 .. Len(times)] ==
        IF i = 0 THEN <<>>
        ELSE IF now - times[i] < window THEN Append(kept[i - 1], times[i])
        ELSE kept[i - 1]
  IN kept[Len(times)]

Prune == [c \in Credentials |-> Recent(asked[c], CredentialWindow)]

Ask(q, b) ==
  LET c == jar[b]
      mine == Recent(asked[c], CredentialWindow)
      all == Recent(askedAll, GlobalWindow)
  IN
  /\ req[q] = Free /\ c # Nil
  /\ Len(mine) < PerCredential /\ Len(all) < Global /\ active < Concurrent
  /\ asked' = [Prune EXCEPT ![c] = Append(mine, now)]
  /\ askedAll' = Append(all, now)
  /\ active' = active + 1
  /\ granted' = Append(granted, [at |-> now, cred |-> c])
  /\ req' = [req EXCEPT ![q] = [Free EXCEPT !.step = "asking", !.cred = c]]
  /\ UNCHANGED <<now, responses, issued, jar, tab>>

(* Mutant: a refused question gives back the place it never took. *)
AskRefusedReleases(b) ==
  /\ jar[b] # Nil
  /\ Len(Prune[jar[b]]) >= PerCredential \/ Len(Recent(askedAll, GlobalWindow)) >= Global \/ active >= Concurrent
  /\ asked' = Prune /\ askedAll' = Recent(askedAll, GlobalWindow)
  /\ active' = active - 1
  /\ UNCHANGED <<now, responses, issued, jar, tab, req, granted>>

(* AI_RATE_LIMITED, AI_BUSY: the lists are pruned all the same.            *)
AskRefused(b) ==
  LET c == jar[b]
      all == Recent(askedAll, GlobalWindow)
  IN
  /\ c # Nil
  /\ Len(Prune[c]) >= PerCredential \/ Len(all) >= Global \/ active >= Concurrent
  /\ asked' = Prune /\ askedAll' = all
  /\ UNCHANGED <<now, responses, issued, jar, tab, req, active, granted>>

(* The provider answers, fails or exceeds its 20 seconds.                  *)
Answered(q) ==
  /\ req[q].step = "asking"
  /\ active' = active - 1
  /\ req' = [req EXCEPT ![q] = Free]
  /\ UNCHANGED <<now, responses, issued, jar, tab, asked, askedAll, granted>>

----------------------------------------------------------------------------
(* The service is restarted: what it kept in memory is gone.               *)
Restart ==
  /\ req' = [q \in Requests |->
       IF req[q].step \in {"get", "post", "inserted"} THEN [req[q] EXCEPT !.step = "failed"]
       ELSE IF req[q].step = "asking" THEN Free ELSE req[q]]
  /\ asked' = [c \in Credentials |-> <<>>]
  /\ askedAll' = <<>> /\ active' = 0 /\ granted' = <<>>
  /\ UNCHANGED <<now, responses, issued, jar, tab>>

Tick ==
  /\ now < Horizon
  /\ now' = now + 1
  /\ UNCHANGED <<responses, issued, jar, tab, req, chat>>

Next ==
  \/ \E q \in Requests :
       \/ ServeLoad(q) \/ ReceiveLoad(q)
       \/ Insert(q) \/ Commit(q) \/ Confirm(q) \/ Refuse(q) \/ Fail(q)
       \/ ReceiveReceipt(q) \/ ReceiveError(q) \/ Discard(q) \/ Answered(q)
       \/ \E t \in Tabs : Load(t, q) \/ Submit(t, q)
       \/ \E b \in Browsers : Ask(q, b)
  \/ \E t \in Tabs : GiveUp(t) \/ Reload(t) \/ \E a \in Answers : Choose(t, a)
  \/ \E b \in Browsers : ClearCookie(b) \/ AskRefused(b)
  \/ Restart
  \/ Tick

Spec == Init /\ [][Next]_vars
----------------------------------------------------------------------------
Replies == {"poll", "cookie", "receipt", "final", "failed"}
Results == [Answers -> 0 .. Cardinality(Credentials)]

(* Types, with the bound on the questions the provider works on at once.   *)
TypeOK ==
  /\ now \in 0 .. Horizon
  /\ responses \in [Credentials -> Answers \cup {Nil}]
  /\ issued \subseteq Credentials
  /\ jar \in [Browsers -> issued \cup {Nil}]
  /\ tab \in [Tabs -> [step : {"blank", "loading", "shown", "sending"}, choice : Answers \cup {Nil},
                       thanks : Answers \cup {Nil}, told : {Nil, "final", "failed"}, results : Results]]
  /\ req \in [Requests -> [step : {"free", "get", "post", "inserted", "asking"} \cup Replies, tab : Tabs \cup {Nil},
                           cred : issued \cup {Nil}, answer : Answers \cup {Nil}, results : Results]]
  /\ asked \in [Credentials -> Seq(0 .. Horizon)]
  /\ askedAll \in Seq(0 .. Horizon)
  /\ granted \in Seq([at : 0 .. Horizon, cred : issued])
  /\ active \in 0 .. Concurrent

(* A recorded answer is final: no later request, of the same cookie or of  *)
(* another, in whatever order they commit, changes or removes it.          *)
FinalResponse ==
  [][\A c \in Credentials : responses[c] # Nil => responses'[c] = responses[c]]_vars

(* What a page says of the answer is so, although replies are lost, late   *)
(* and repeated: it thanks for an answer that is recorded, and says that   *)
(* an earlier one was accepted when one was.  (That an answer was not sent *)
(* it says without knowing.)                                               *)
MessagesTrue ==
  \A t \in Tabs :
    /\ tab[t].thanks # Nil => \E c \in issued : responses[c] = tab[t].thanks
    /\ tab[t].told = "final" => \E c \in issued : responses[c] # Nil

(* The counts a page shows are of recorded answers only, and count the one *)
(* it thanks for, although they were read before that one was committed.   *)
ShownResultsReal ==
  \A t \in Tabs :
    /\ \A a \in Answers : tab[t].results[a] <= Count(responses)[a]
    /\ tab[t].thanks # Nil => tab[t].results[tab[t].thanks] > 0

(* In every window of time the process has passed on at most so many       *)
(* questions, of one credential and of all; a place is held by each        *)
(* question the provider works on and by nothing else.                     *)
ChatLimited ==
  /\ active = Cardinality({q \in Requests : req[q].step = "asking"})
  /\ \A end \in 0 .. now :
       LET Within(window) == {i \in DOMAIN granted : granted[i].at <= end /\ end < granted[i].at + window} IN
       /\ Cardinality(Within(GlobalWindow)) <= Global
       /\ \A c \in Credentials : Cardinality({i \in Within(CredentialWindow) : granted[i].cred = c}) <= PerCredential
=============================================================================
