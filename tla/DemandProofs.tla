---------------------------- MODULE DemandProofs ----------------------------
(***************************************************************************)
(* Theorems of the demand poll, for every number of browsers, tabs,        *)
(* requests, credentials and answers.  They rest on PollInv: what each     *)
(* request in progress carries, and what each page shows, was read from    *)
(* rows that are still there, or that its own transaction is about to      *)
(* commit under a key nobody else holds.  Those of the chat rest on        *)
(* ChatInv: the pruned lists of times count what the process has passed    *)
(* on, for every window that is not yet over.                              *)
(***************************************************************************)
EXTENDS Demand, FiniteSetTheorems, SequenceTheorems, SequenceLemmas, TLAPS

TabRecords == [step : {"blank", "loading", "shown", "sending"}, choice : Answers \cup {Nil},
               thanks : Answers \cup {Nil}, told : {Nil, "final", "failed"}, results : Results]

RequestRecords(known) ==
  [step : {"free", "get", "post", "inserted", "asking"} \cup Replies, tab : Tabs \cup {Nil},
   cred : known \cup {Nil}, answer : Answers \cup {Nil}, results : Results]

AtMost(results, rows) == \A a \in Answers : results[a] <= Count(rows)[a]

(* A request answers with what is recorded, or inserted by itself.         *)
RequestSound(r, rows) ==
  /\ r.step = "post" => r.answer # Nil
  /\ r.step = "inserted" =>
       /\ r.cred # Nil /\ r.answer # Nil /\ rows[r.cred] = Nil
       /\ AtMost(r.results, [rows EXCEPT ![r.cred] = r.answer])
       /\ r.results[r.answer] > 0
  /\ r.step = "receipt" => r.answer # Nil
  /\ r.step \in {"poll", "cookie", "receipt"} =>
       /\ AtMost(r.results, rows)
       /\ r.answer # Nil => /\ r.cred # Nil
                            /\ rows[r.cred] = r.answer
                            /\ r.results[r.answer] > 0
  /\ r.step = "final" => r.cred # Nil /\ rows[r.cred] # Nil

TabSound(x, rows, known) ==
  /\ x.thanks # Nil => \E c \in known : rows[c] = x.thanks
  /\ x.told = "final" => \E c \in known : rows[c] # Nil
  /\ AtMost(x.results, rows)
  /\ x.thanks # Nil => x.results[x.thanks] > 0

TablesSound ==
  /\ responses \in [Credentials -> Answers \cup {Nil}]
  /\ issued \subseteq Credentials
  /\ jar \in [Browsers -> issued \cup {Nil}]

RequestsSound ==
  /\ req \in [Requests -> RequestRecords(issued)]
  /\ \A q \in Requests : RequestSound(req[q], responses)
  /\ \A p, q \in Requests :
       req[p].step = "inserted" /\ req[q].step = "inserted" /\ req[p].cred = req[q].cred => p = q

TabsSound ==
  /\ tab \in [Tabs -> TabRecords]
  /\ \A t \in Tabs : TabSound(tab[t], responses, issued)

PollInv == TablesSound /\ RequestsSound /\ TabsSound

----------------------------------------------------------------------------
(* Counts are counts.                                                      *)
LEMMA CountIsResult ==
  ASSUME NEW rows
  PROVE  /\ Count(rows) \in Results
         /\ \A a \in Answers : Count(rows)[a] \in Nat
<1>1. ASSUME NEW a \in Answers
      PROVE  Cardinality({c \in Credentials : rows[c] = a}) \in 0 .. Cardinality(Credentials)
  <2> DEFINE S == {c \in Credentials : rows[c] = a}
  <2>1. /\ IsFiniteSet(S) /\ Cardinality(S) <= Cardinality(Credentials)
    BY DemandAssumption, FS_Subset
  <2>2. Cardinality(S) \in Nat /\ Cardinality(Credentials) \in Nat
    BY <2>1, DemandAssumption, FS_CardinalityType
  <2>3. QED
    BY <2>1, <2>2
<1>2. QED
  BY <1>1 DEF Count, Results

(* Rows that are only added to are counted as often or more often.         *)
LEMMA CountGrows ==
  ASSUME NEW rows, NEW more,
         \A c \in Credentials : rows[c] # Nil => more[c] = rows[c],
         NEW a \in Answers
  PROVE  Count(rows)[a] <= Count(more)[a]
<1> DEFINE S == {c \in Credentials : rows[c] = a}
           T == {c \in Credentials : more[c] = a}
<1>1. S \subseteq T
  BY DemandAssumption
<1>2. IsFiniteSet(T)
  BY DemandAssumption, FS_Subset
<1>3. Cardinality(S) <= Cardinality(T)
  BY <1>1, <1>2, FS_Subset
<1>4. QED
  BY <1>3 DEF Count

(* A row is counted.                                                       *)
LEMMA CountHas ==
  ASSUME NEW rows, NEW c \in Credentials, rows[c] \in Answers
  PROVE  Count(rows)[rows[c]] > 0
<1> DEFINE S == {d \in Credentials : rows[d] = rows[c]}
<1>1. IsFiniteSet(S) /\ c \in S
  BY DemandAssumption, FS_Subset
<1>2. Cardinality(S) \in Nat /\ Cardinality(S) # 0
  BY <1>1, FS_CardinalityType, FS_EmptySet
<1>3. QED
  BY <1>2 DEF Count

LEMMA AtMostItself == ASSUME NEW rows PROVE AtMost(Count(rows), rows)
BY CountIsResult DEF AtMost, Results

LEMMA AtMostGrows ==
  ASSUME NEW results \in Results, NEW rows, NEW more, AtMost(results, rows),
         \A c \in Credentials : rows[c] # Nil => more[c] = rows[c]
  PROVE  AtMost(results, more)
<1> SUFFICES ASSUME NEW a \in Answers PROVE results[a] <= Count(more)[a]
  BY DEF AtMost
<1>1. results[a] <= Count(rows)[a] /\ Count(rows)[a] <= Count(more)[a]
  BY CountGrows DEF AtMost
<1>2. Count(rows)[a] \in Nat /\ Count(more)[a] \in Nat
  BY CountIsResult
<1>3. results[a] \in 0 .. Cardinality(Credentials) /\ Cardinality(Credentials) \in Nat
  BY DemandAssumption, FS_CardinalityType DEF Results
<1>4. QED
  BY <1>1, <1>2, <1>3

(* A blank page shows no answer at all.                                    *)
LEMMA BlankSound ==
  /\ Blank \in TabRecords
  /\ \A rows, known : TabSound(Blank, rows, known)
  /\ \A known : Free \in RequestRecords(known)
  /\ \A rows : RequestSound(Free, rows)
  /\ Free.results = Blank.results /\ Blank.results \in Results
  /\ \A rows : AtMost(Blank.results, rows)
<1> DEFINE none == [c \in Credentials |-> Nil]
           zero == Count(none)
<1>1. zero \in Results
  BY CountIsResult
<1>2. ASSUME NEW rows PROVE AtMost(zero, rows)
  <2>1. AtMost(zero, none)
    BY AtMostItself
  <2>2. \A c \in Credentials : none[c] # Nil => rows[c] = none[c]
    OBVIOUS
  <2>3. QED
    BY <1>1, <2>1, <2>2, AtMostGrows
<1>3. Free.results = zero /\ Blank.results = zero
  BY DEF Free, Blank
<1>4. \A rows : AtMost(Blank.results, rows)
  BY <1>2, <1>3
<1> HIDE DEF zero
<1>5. Blank = [step |-> "blank", choice |-> Nil, thanks |-> Nil, told |-> Nil, results |-> zero]
  BY <1>3 DEF Blank
<1>6. Free = [step |-> "free", tab |-> Nil, cred |-> Nil, answer |-> Nil, results |-> zero]
  BY <1>3 DEF Free
<1>7. Blank \in TabRecords /\ \A known : Free \in RequestRecords(known)
  BY <1>1, <1>5, <1>6 DEF TabRecords, RequestRecords
<1>8. \A rows, known : TabSound(Blank, rows, known)
  <2>1. Blank.thanks = Nil /\ Blank.told = Nil /\ Nil # "final"
    BY <1>5, DemandAssumption
  <2>2. QED
    BY <1>4, <2>1 DEF TabSound
<1>9. \A rows : RequestSound(Free, rows)
  BY <1>6 DEF RequestSound
<1>10. QED
  BY <1>1, <1>3, <1>4, <1>7, <1>8, <1>9

----------------------------------------------------------------------------
(* What the rows gain, the other requests and the pages survive.           *)
LEMMA RequestSoundGrows ==
  ASSUME NEW known, NEW r \in RequestRecords(known), known \subseteq Credentials,
         NEW rows, NEW more, RequestSound(r, rows),
         rows \in [Credentials -> Answers \cup {Nil}], more \in [Credentials -> Answers \cup {Nil}],
         \A c \in Credentials : rows[c] # Nil => more[c] = rows[c],
         r.step = "inserted" => more[r.cred] = Nil
  PROVE  RequestSound(r, more)
<1>1. r.results \in Results /\ (r.cred # Nil => r.cred \in Credentials)
  BY DEF RequestRecords
<1>2. AtMost(r.results, rows) => AtMost(r.results, more)
  BY <1>1, AtMostGrows
<1>3. ASSUME r.step = "inserted" PROVE AtMost(r.results, [more EXCEPT ![r.cred] = r.answer])
  <2> DEFINE old == [rows EXCEPT ![r.cred] = r.answer]
             new == [more EXCEPT ![r.cred] = r.answer]
  <2>1. AtMost(r.results, old) /\ r.cred \in Credentials
    BY <1>1, <1>3 DEF RequestSound
  <2>2. \A c \in Credentials : old[c] # Nil => new[c] = old[c]
    BY <2>1
  <2> HIDE DEF old, new
  <2>3. AtMost(r.results, new)
    BY <1>1, <2>1, <2>2, AtMostGrows
  <2>4. QED
    BY <2>3 DEF new
<1>4. QED
  BY <1>1, <1>2, <1>3, DemandAssumption DEF RequestSound

LEMMA TabSoundGrows ==
  ASSUME NEW x \in TabRecords, NEW rows, NEW more, NEW known, NEW knownMore,
         TabSound(x, rows, known), known \subseteq knownMore, knownMore \subseteq Credentials,
         \A c \in Credentials : rows[c] # Nil => more[c] = rows[c]
  PROVE  TabSound(x, more, knownMore)
<1>1. AtMost(x.results, more)
  BY AtMostGrows DEF TabSound, TabRecords
<1>2. QED
  BY <1>1 DEF TabSound

(* One request turns, the rows stay.                                       *)
LEMMA RequestTurns ==
  ASSUME PollInv, NEW q \in Requests, NEW x, x \in RequestRecords(issued'),
         req' = [req EXCEPT ![q] = x], RequestSound(x, responses),
         x.step = "inserted" =>
           \A p \in Requests : p # q /\ req[p].step = "inserted" => req[p].cred # x.cred,
         UNCHANGED responses, issued \subseteq issued'
  PROVE  RequestsSound'
<1>1. \A r \in RequestRecords(issued) : r \in RequestRecords(issued')
  BY DEF RequestRecords
<1>2. \A p \in Requests : req'[p] = IF p = q THEN x ELSE req[p]
  BY DEF PollInv, RequestsSound
<1>3. req' \in [Requests -> RequestRecords(issued')]
  BY <1>1 DEF PollInv, RequestsSound
<1>4. \A p \in Requests : RequestSound(req'[p], responses')
  BY <1>2 DEF PollInv, RequestsSound
<1>5. \A o, p \in Requests :
        req'[o].step = "inserted" /\ req'[p].step = "inserted" /\ req'[o].cred = req'[p].cred => o = p
  BY <1>2 DEF PollInv, RequestsSound
<1>6. QED
  BY <1>3, <1>4, <1>5 DEF RequestsSound

(* One page turns, the rows stay.                                          *)
LEMMA TabTurns ==
  ASSUME PollInv, NEW t \in Tabs, NEW x \in TabRecords,
         tab' = [tab EXCEPT ![t] = x], TabSound(x, responses, issued),
         UNCHANGED responses, issued \subseteq issued', issued' \subseteq Credentials
  PROVE  TabsSound'
<1>1. \A u \in Tabs : tab'[u] = IF u = t THEN x ELSE tab[u]
  BY DEF PollInv, TabsSound
<1>2. \A u \in Tabs : tab'[u] \in TabRecords /\ TabSound(tab'[u], responses, issued)
  BY <1>1 DEF PollInv, TabsSound
<1>3. \A u \in Tabs : TabSound(tab'[u], responses', issued')
  BY <1>2, TabSoundGrows
<1>4. tab' \in [Tabs -> TabRecords]
  BY DEF PollInv, TabsSound
<1>5. QED
  BY <1>3, <1>4 DEF TabsSound

LEMMA TabsStay ==
  ASSUME PollInv, UNCHANGED <<tab, responses>>, issued \subseteq issued', issued' \subseteq Credentials
  PROVE  TabsSound'
<1>1. \A u \in Tabs : TabSound(tab[u], responses, issued')
  BY TabSoundGrows DEF PollInv, TabsSound
<1>2. QED
  BY <1>1 DEF PollInv, TabsSound

(* A request that nobody waits for any more is as sound as it was.         *)
LEMMA OrphansSound ==
  ASSUME PollInv, NEW t, req' = Orphaned(t), UNCHANGED <<responses, issued>>
  PROVE  RequestsSound'
<1>1. ASSUME NEW q \in Requests
      PROVE  /\ req'[q] \in RequestRecords(issued) /\ RequestSound(req'[q], responses)
             /\ req'[q].step = req[q].step /\ req'[q].cred = req[q].cred
  <2>1. PICK r \in RequestRecords(issued) : r = req[q]
    BY DEF PollInv, RequestsSound
  <2>2. RequestSound(r, responses)
    BY <2>1 DEF PollInv, RequestsSound
  <2> DEFINE o == [r EXCEPT !.tab = Nil]
  <2>3. /\ o \in RequestRecords(issued)
        /\ o.step = r.step /\ o.cred = r.cred /\ o.answer = r.answer /\ o.results = r.results
    BY DEF RequestRecords
  <2> HIDE DEF o
  <2>4. RequestSound(o, responses)
    BY <2>2, <2>3 DEF RequestSound
  <2>5. req'[q] = r \/ req'[q] = o
    BY <2>1 DEF Orphaned, o
  <2>6. QED
    BY <2>1, <2>2, <2>3, <2>4, <2>5
<1>2. req' \in [Requests -> RequestRecords(issued')]
  <2>1. req' = [q \in Requests |-> req'[q]]
    BY DEF Orphaned
  <2>2. QED
    BY <1>1, <2>1
<1>3. QED
  BY <1>1, <1>2 DEF PollInv, RequestsSound

----------------------------------------------------------------------------
(* The steps of GET.                                                       *)
LEMMA SendStep ==
  ASSUME PollInv, NEW q \in Requests, NEW t \in Tabs, NEW step \in {"get", "post"},
         NEW answer \in Answers \cup {Nil}, step = "post" => answer # Nil,
         Send(q, t, step, answer), UNCHANGED <<responses, issued, jar>>
  PROVE  TablesSound' /\ RequestsSound'
<1> DEFINE x == [Free EXCEPT !.step = step, !.tab = t, !.cred = jar[BrowserOf[t]], !.answer = answer]
<1>1. jar[BrowserOf[t]] \in issued \cup {Nil}
  BY DemandAssumption DEF PollInv, TablesSound
<1>2. PICK f \in RequestRecords(issued) : f = Free
  BY BlankSound
<1>3. x = [f EXCEPT !.step = step, !.tab = t, !.cred = jar[BrowserOf[t]], !.answer = answer]
  BY <1>2
<1>4. x \in RequestRecords(issued) /\ x.step = step /\ x.answer = answer
  BY <1>1, <1>3 DEF RequestRecords
<1>5. req' = [req EXCEPT ![q] = x]
  BY DEF Send
<1> HIDE DEF x
<1>6. RequestSound(x, responses)
  BY <1>4 DEF RequestSound
<1>7. RequestsSound'
  BY <1>4, <1>5, <1>6, RequestTurns
<1>8. QED
  BY <1>7 DEF PollInv, TablesSound

LEMMA LoadStep ==
  ASSUME PollInv, NEW t \in Tabs, NEW q \in Requests, Load(t, q)
  PROVE  PollInv'
<1>1. TablesSound' /\ RequestsSound'
  BY SendStep DEF Load
<1>2. PICK y \in TabRecords : y = tab[t] /\ TabSound(y, responses, issued)
  BY DEF PollInv, TabsSound
<1> DEFINE x == [y EXCEPT !.step = "loading"]
<1>3. x \in TabRecords /\ x.thanks = y.thanks /\ x.told = y.told /\ x.results = y.results
  BY DEF TabRecords
<1>4. tab' = [tab EXCEPT ![t] = x]
  BY <1>2 DEF Load, PollInv, TabsSound
<1> HIDE DEF x
<1>5. TabSound(x, responses, issued)
  BY <1>2, <1>3 DEF TabSound
<1>6. TabsSound'
  BY <1>3, <1>4, <1>5, TabTurns DEF Load, PollInv, TablesSound
<1>7. QED
  BY <1>1, <1>6 DEF PollInv

LEMMA ServeLoadStep ==
  ASSUME PollInv, NEW q \in Requests, ServeLoad(q)
  PROVE  PollInv'
<1>1. PICK r \in RequestRecords(issued) : r = req[q]
  BY DEF PollInv, RequestsSound
<1> DEFINE x(c) == [step |-> IF r.cred = Nil THEN "cookie" ELSE "poll", tab |-> r.tab,
                    cred |-> c, answer |-> responses[c], results |-> Count(responses)]
<1>2. PICK c \in IF r.cred = Nil THEN Credentials \ issued ELSE {r.cred} :
        /\ issued' = issued \cup {c}
        /\ req' = [req EXCEPT ![q] = x(c)]
        /\ UNCHANGED <<responses, jar, tab>>
  BY <1>1 DEF ServeLoad
<1>3. c \in Credentials /\ responses[c] \in Answers \cup {Nil}
  BY <1>1 DEF RequestRecords, PollInv, TablesSound
<1>4. Count(responses) \in Results
  BY CountIsResult
<1>5. /\ x(c) \in RequestRecords(issued')
      /\ x(c).step \in {"cookie", "poll"} /\ x(c).cred = c /\ x(c).answer = responses[c]
      /\ x(c).results = Count(responses)
  BY <1>1, <1>2, <1>3, <1>4 DEF RequestRecords, Replies
<1> HIDE DEF x
<1>6. responses[c] # Nil => Count(responses)[responses[c]] > 0
  BY <1>3, CountHas
<1>7. RequestSound(x(c), responses)
  BY <1>3, <1>5, <1>6, AtMostItself, DemandAssumption DEF RequestSound
<1>8. issued \subseteq issued' /\ issued' \subseteq Credentials
  BY <1>2, <1>3 DEF PollInv, TablesSound
<1>9. RequestsSound'
  BY <1>2, <1>5, <1>7, <1>8, RequestTurns
<1>10. TabsSound'
  BY <1>2, <1>8, TabsStay
<1>11. TablesSound'
  BY <1>2, <1>8 DEF PollInv, TablesSound
<1>12. QED
  BY <1>9, <1>10, <1>11 DEF PollInv

(* A request whose place is given back.                                    *)
LEMMA FreeStep ==
  ASSUME PollInv, NEW q \in Requests, req' = [req EXCEPT ![q] = Free], UNCHANGED <<responses, issued>>
  PROVE  RequestsSound'
<1>1. PICK f \in RequestRecords(issued) : f = Free
  BY BlankSound
<1>2. f.step = "free" /\ RequestSound(f, responses)
  BY <1>1, BlankSound DEF Free
<1>3. f \in RequestRecords(issued')
  BY <1>1
<1>4. QED
  BY <1>1, <1>2, <1>3, RequestTurns

(* A page shows what a reply tells it.                                     *)
LEMMA ShowStep ==
  ASSUME PollInv, NEW t \in Tabs, NEW r \in RequestRecords(issued), RequestSound(r, responses),
         r.step \in {"poll", "cookie", "receipt"},
         tab' = [tab EXCEPT ![t] = [Blank EXCEPT !.step = "shown", !.thanks = r.answer, !.results = r.results]],
         UNCHANGED <<responses, issued>>
  PROVE  TabsSound'
<1> DEFINE x == [Blank EXCEPT !.step = "shown", !.thanks = r.answer, !.results = r.results]
<1>1. PICK y \in TabRecords : y = Blank
  BY BlankSound
<1>2. y.told = Nil
  BY <1>1 DEF Blank
<1>3. /\ x \in TabRecords /\ x.thanks = r.answer /\ x.told = Nil /\ x.results = r.results
  BY <1>1, <1>2 DEF TabRecords, RequestRecords
<1> HIDE DEF x
<1>4. r.cred # Nil => r.cred \in issued
  BY DEF RequestRecords
<1>5. TabSound(x, responses, issued)
  BY <1>3, <1>4, DemandAssumption DEF TabSound, RequestSound
<1>6. QED
  BY <1>3, <1>5, TabTurns DEF x, PollInv, TablesSound

LEMMA ReceiveStep ==
  ASSUME PollInv, NEW q \in Requests, ReceiveLoad(q) \/ ReceiveReceipt(q)
  PROVE  PollInv'
<1>1. PICK r \in RequestRecords(issued) : r = req[q] /\ RequestSound(r, responses)
  BY DEF PollInv, RequestsSound
<1>2. r.step \in {"poll", "cookie", "receipt"} /\ r.tab \in Tabs
  BY <1>1 DEF ReceiveLoad, ReceiveReceipt, RequestRecords
<1>3. RequestsSound'
  BY FreeStep DEF ReceiveLoad, ReceiveReceipt
<1>4. TabsSound'
  <2>1. /\ tab' = [tab EXCEPT ![r.tab] = [Blank EXCEPT !.step = "shown", !.thanks = r.answer, !.results = r.results]]
        /\ UNCHANGED <<responses, issued>>
    BY <1>1 DEF ReceiveLoad, ReceiveReceipt
  <2>2. QED
    BY <1>1, <1>2, <2>1, ShowStep
<1>5. TablesSound'
  <2>1. r.cred \in issued \cup {Nil}
    BY DEF RequestRecords
  <2>2. jar' = jar \/ \E b : jar' = [jar EXCEPT ![b] = r.cred]
    BY <1>1 DEF ReceiveLoad, ReceiveReceipt
  <2>3. QED
    BY <2>1, <2>2 DEF ReceiveLoad, ReceiveReceipt, PollInv, TablesSound
<1>6. QED
  BY <1>3, <1>4, <1>5 DEF PollInv

----------------------------------------------------------------------------
(* The steps of POST.                                                      *)

(* A page whose thanks, message or results do not say more.                *)
LEMMA SilentStep ==
  ASSUME PollInv, NEW t \in Tabs, NEW x \in TabRecords, tab' = [tab EXCEPT ![t] = x],
         x.thanks = tab[t].thanks, x.results = tab[t].results,
         x.told = "final" => tab[t].told = "final" \/ (\E c \in issued : responses[c] # Nil),
         UNCHANGED <<responses, issued>>
  PROVE  TabsSound'
<1>1. TabSound(tab[t], responses, issued) /\ issued \subseteq Credentials
  BY DEF PollInv, TabsSound, TablesSound
<1>2. TabSound(x, responses, issued)
  BY <1>1 DEF TabSound, AtMost
<1>3. QED
  BY <1>1, <1>2, TabTurns

LEMMA ChooseStep ==
  ASSUME PollInv, NEW t \in Tabs, NEW a \in Answers, Choose(t, a)
  PROVE  PollInv'
<1>1. PICK y \in TabRecords : y = tab[t]
  BY DEF PollInv, TabsSound
<1> DEFINE x == [y EXCEPT !.choice = a]
<1>2. x \in TabRecords /\ x.thanks = y.thanks /\ x.told = y.told /\ x.results = y.results
  BY DEF TabRecords
<1>3. tab' = [tab EXCEPT ![t] = x]
  BY <1>1 DEF Choose, PollInv, TabsSound
<1> HIDE DEF x
<1>4. TabsSound'
  BY <1>1, <1>2, <1>3, SilentStep DEF Choose
<1>5. QED
  BY <1>4 DEF Choose, PollInv, TablesSound, RequestsSound

LEMMA SubmitStep ==
  ASSUME PollInv, NEW t \in Tabs, NEW q \in Requests, Submit(t, q)
  PROVE  PollInv'
<1>1. PICK y \in TabRecords : y = tab[t]
  BY DEF PollInv, TabsSound
<1>2. y.choice \in Answers \cup {Nil} /\ y.choice # Nil
  BY <1>1 DEF Submit, TabRecords
<1>3. TablesSound' /\ RequestsSound'
  BY <1>1, <1>2, SendStep DEF Submit
<1> DEFINE x == [y EXCEPT !.step = "sending", !.told = Nil]
<1>4. x \in TabRecords /\ x.thanks = y.thanks /\ x.told = Nil /\ x.results = y.results
  BY DEF TabRecords
<1>5. tab' = [tab EXCEPT ![t] = x]
  BY <1>1 DEF Submit, PollInv, TabsSound
<1> HIDE DEF x
<1>6. TabsSound'
  BY <1>1, <1>4, <1>5, SilentStep, DemandAssumption DEF Submit
<1>7. QED
  BY <1>3, <1>6 DEF PollInv

LEMMA InsertStep ==
  ASSUME PollInv, NEW q \in Requests, Insert(q)
  PROVE  PollInv'
<1>1. PICK r \in RequestRecords(issued) : r = req[q] /\ RequestSound(r, responses)
  BY DEF PollInv, RequestsSound
<1>2. /\ r.step = "post" /\ r.cred # Nil /\ responses[r.cred] = Nil
      /\ r.cred \in Credentials /\ r.answer \in Answers
      /\ responses \in [Credentials -> Answers \cup {Nil}]
  BY <1>1 DEF Insert, RequestSound, RequestRecords, PollInv, TablesSound
<1> DEFINE rows == [responses EXCEPT ![r.cred] = r.answer]
           x == [r EXCEPT !.step = "inserted", !.results = Count(rows)]
<1>3. rows[r.cred] = r.answer
  BY <1>2
<1> HIDE DEF rows
<1>4. Count(rows) \in Results /\ AtMost(Count(rows), rows) /\ Count(rows)[r.answer] > 0
  BY <1>2, <1>3, CountIsResult, CountHas, AtMostItself
<1>5. /\ x \in RequestRecords(issued) /\ x.step = "inserted" /\ x.cred = r.cred
      /\ x.answer = r.answer /\ x.results = Count(rows)
  BY <1>4 DEF RequestRecords
<1>6. req' = [req EXCEPT ![q] = x]
  BY <1>1 DEF Insert, rows, PollInv, RequestsSound
<1> HIDE DEF x
<1>7. RequestSound(x, responses)
  BY <1>2, <1>4, <1>5, DemandAssumption DEF RequestSound, rows
<1>8. \A p \in Requests : p # q /\ req[p].step = "inserted" => req[p].cred # x.cred
  BY <1>1, <1>5 DEF Insert
<1>9. RequestsSound'
  BY <1>5, <1>6, <1>7, <1>8, RequestTurns DEF Insert
<1>10. QED
  BY <1>9 DEF Insert, PollInv, TablesSound, TabsSound

LEMMA CommitStep ==
  ASSUME PollInv, NEW q \in Requests, Commit(q)
  PROVE  PollInv' /\ \A c \in Credentials : responses[c] # Nil => responses'[c] = responses[c]
<1>1. PICK r \in RequestRecords(issued) : r = req[q] /\ RequestSound(r, responses)
  BY DEF PollInv, RequestsSound
<1>2. /\ r.step = "inserted" /\ r.cred \in issued /\ responses[r.cred] = Nil
      /\ r.cred \in Credentials /\ r.answer \in Answers /\ r.answer # Nil
      /\ responses \in [Credentials -> Answers \cup {Nil}] /\ issued \subseteq Credentials
  BY <1>1 DEF Commit, RequestSound, RequestRecords, PollInv, TablesSound
<1>3. /\ responses' = [responses EXCEPT ![r.cred] = r.answer]
      /\ UNCHANGED <<issued, jar, tab>>
  BY <1>1 DEF Commit
<1>4. /\ responses' \in [Credentials -> Answers \cup {Nil}]
      /\ \A c \in Credentials : responses[c] # Nil => responses'[c] = responses[c]
      /\ responses'[r.cred] = r.answer
      /\ \A c \in Credentials : c # r.cred => responses'[c] = responses[c]
  BY <1>2, <1>3
<1> DEFINE x == [r EXCEPT !.step = "receipt"]
<1>5. /\ x \in RequestRecords(issued) /\ x.step = "receipt" /\ x.cred = r.cred
      /\ x.answer = r.answer /\ x.results = r.results
  BY DEF RequestRecords, Replies
<1>6. req' = [req EXCEPT ![q] = x]
  BY <1>1 DEF Commit, Turn, PollInv, RequestsSound
<1> HIDE DEF x
<1>7. RequestSound(x, responses')
  BY <1>1, <1>2, <1>3, <1>4, <1>5, DemandAssumption DEF RequestSound
<1>8. \A p \in Requests : req'[p] = IF p = q THEN x ELSE req[p]
  BY <1>6 DEF PollInv, RequestsSound
<1>9. ASSUME NEW p \in Requests, p # q PROVE RequestSound(req[p], responses')
  <2>1. PICK o \in RequestRecords(issued) : o = req[p] /\ RequestSound(o, responses)
    BY DEF PollInv, RequestsSound
  <2>2. o.step = "inserted" => o.cred # r.cred /\ o.cred \in Credentials /\ responses[o.cred] = Nil
    BY <1>1, <1>2, <1>9, <2>1 DEF PollInv, RequestsSound, RequestSound, RequestRecords
  <2>3. o.step = "inserted" => responses'[o.cred] = Nil
    BY <1>4, <2>2
  <2>4. PICK rows \in [Credentials -> Answers \cup {Nil}] : rows = responses'
    BY <1>4
  <2>5. RequestSound(o, rows)
    BY <1>2, <1>4, <2>1, <2>3, <2>4, RequestSoundGrows
  <2>6. QED
    BY <2>1, <2>4, <2>5
<1>10. RequestsSound'
  <2>1. req' \in [Requests -> RequestRecords(issued')]
    BY <1>3, <1>5, <1>6 DEF PollInv, RequestsSound
  <2>2. \A p \in Requests : RequestSound(req'[p], responses')
    BY <1>7, <1>8, <1>9
  <2>3. \A o, p \in Requests :
          req'[o].step = "inserted" /\ req'[p].step = "inserted" /\ req'[o].cred = req'[p].cred => o = p
    BY <1>5, <1>8 DEF PollInv, RequestsSound
  <2>4. QED
    BY <2>1, <2>2, <2>3 DEF RequestsSound
<1>11. TabsSound'
  <2>1. PICK rows : rows = responses'
    OBVIOUS
  <2>2. \A t \in Tabs : TabSound(tab[t], rows, issued)
    BY <1>2, <1>4, <2>1, TabSoundGrows DEF PollInv, TabsSound
  <2>3. QED
    BY <1>3, <2>1, <2>2 DEF PollInv, TabsSound
<1>12. TablesSound'
  BY <1>3, <1>4 DEF PollInv, TablesSound
<1>13. QED
  BY <1>4, <1>10, <1>11, <1>12 DEF PollInv

LEMMA ConfirmStep ==
  ASSUME PollInv, NEW q \in Requests, Confirm(q)
  PROVE  PollInv'
<1>1. PICK r \in RequestRecords(issued) : r = req[q] /\ RequestSound(r, responses)
  BY DEF PollInv, RequestsSound
<1>2. /\ r.step = "post" /\ r.cred # Nil /\ responses[r.cred] = r.answer
      /\ r.cred \in Credentials /\ r.answer \in Answers /\ r.answer # Nil
  BY <1>1 DEF Confirm, RequestSound, RequestRecords, PollInv, TablesSound
<1>3. Count(responses) \in Results /\ AtMost(Count(responses), responses) /\ Count(responses)[r.answer] > 0
  BY <1>2, CountIsResult, CountHas, AtMostItself
<1> DEFINE x == [r EXCEPT !.step = "receipt", !.results = Count(responses)]
<1>4. /\ x \in RequestRecords(issued) /\ x.step = "receipt" /\ x.cred = r.cred
      /\ x.answer = r.answer /\ x.results = Count(responses)
  BY <1>3 DEF RequestRecords, Replies
<1>5. req' = [req EXCEPT ![q] = x]
  BY <1>1 DEF Confirm, PollInv, RequestsSound
<1> HIDE DEF x
<1>6. RequestSound(x, responses)
  BY <1>2, <1>3, <1>4 DEF RequestSound
<1>7. RequestsSound'
  BY <1>4, <1>5, <1>6, RequestTurns DEF Confirm
<1>8. QED
  BY <1>7 DEF Confirm, PollInv, TablesSound, TabsSound

LEMMA RefuseStep ==
  ASSUME PollInv, NEW q \in Requests, Refuse(q) \/ Fail(q)
  PROVE  PollInv'
<1>1. PICK r \in RequestRecords(issued) : r = req[q] /\ RequestSound(r, responses)
  BY DEF PollInv, RequestsSound
<1>2. PICK s \in {"final", "failed"} :
        /\ Turn(q, s)
        /\ s = "final" => r.cred # Nil /\ responses[r.cred] # Nil
  BY <1>1 DEF Refuse, Fail
<1> DEFINE x == [r EXCEPT !.step = s]
<1>3. x \in RequestRecords(issued) /\ x.step = s /\ x.cred = r.cred
  BY DEF RequestRecords, Replies
<1>4. req' = [req EXCEPT ![q] = x]
  BY <1>1, <1>2 DEF Turn, PollInv, RequestsSound
<1> HIDE DEF x
<1>5. RequestSound(x, responses)
  BY <1>2, <1>3 DEF RequestSound
<1>6. RequestsSound'
  BY <1>3, <1>4, <1>5, RequestTurns DEF Refuse, Fail
<1>7. QED
  BY <1>6 DEF Refuse, Fail, PollInv, TablesSound, TabsSound

LEMMA ReceiveErrorStep ==
  ASSUME PollInv, NEW q \in Requests, ReceiveError(q)
  PROVE  PollInv'
<1>1. PICK r \in RequestRecords(issued) : r = req[q] /\ RequestSound(r, responses)
  BY DEF PollInv, RequestsSound
<1>2. r.step \in {"final", "failed"} /\ r.tab \in Tabs
  BY <1>1 DEF ReceiveError, RequestRecords
<1>3. r.step = "final" => r.cred \in issued /\ responses[r.cred] # Nil
  BY <1>1 DEF RequestSound, RequestRecords
<1>4. RequestsSound'
  BY FreeStep DEF ReceiveError
<1>5. PICK y \in TabRecords : y = tab[r.tab]
  BY <1>2 DEF PollInv, TabsSound
<1> DEFINE x == [y EXCEPT !.step = "shown", !.told = r.step]
<1>6. x \in TabRecords /\ x.thanks = y.thanks /\ x.told = r.step /\ x.results = y.results
  BY <1>2 DEF TabRecords
<1>7. tab' = [tab EXCEPT ![r.tab] = IF y.step = "sending" THEN x ELSE Blank]
  BY <1>1, <1>2, <1>5 DEF ReceiveError, PollInv, TabsSound
<1> HIDE DEF x
<1>8. TabsSound'
  <2> UNCHANGED <<responses, issued>>
    BY DEF ReceiveError
  <2>1. CASE y.step = "sending"
    <3>1. tab' = [tab EXCEPT ![r.tab] = x]
      BY <1>7, <2>1
    <3>2. x.told = "final" => \E c \in issued : responses[c] # Nil
      BY <1>3, <1>6
    <3>3. PICK t \in Tabs : t = r.tab
      BY <1>2
    <3>4. QED
      BY <1>5, <1>6, <3>1, <3>2, <3>3, SilentStep
  <2>2. CASE y.step # "sending"
    <3>1. PICK b \in TabRecords : b = Blank /\ TabSound(b, responses, issued)
      BY BlankSound
    <3>2. QED
      BY <1>2, <1>7, <2>2, <3>1, TabTurns DEF ReceiveError, PollInv, TablesSound
  <2>3. QED
    BY <2>1, <2>2
<1>9. QED
  BY <1>4, <1>8 DEF ReceiveError, PollInv, TablesSound

----------------------------------------------------------------------------
(* The browser, the chat and the restarts.                                 *)

LEMMA LeaveStep ==
  ASSUME PollInv, NEW t \in Tabs, GiveUp(t) \/ Reload(t)
  PROVE  PollInv'
<1>1. RequestsSound'
  BY OrphansSound DEF GiveUp, Reload
<1>2. PICK y \in TabRecords : y = tab[t]
  BY DEF PollInv, TabsSound
<1>3. CASE GiveUp(t)
  <2> DEFINE x == [y EXCEPT !.step = "shown", !.told = "failed"]
  <2>1. x \in TabRecords /\ x.thanks = y.thanks /\ x.told = "failed" /\ x.results = y.results
    BY DEF TabRecords
  <2>2. tab' = [tab EXCEPT ![t] = x] /\ UNCHANGED <<responses, issued, jar>>
    BY <1>2, <1>3 DEF GiveUp, PollInv, TabsSound
  <2> HIDE DEF x
  <2>3. TabsSound'
    BY <1>2, <2>1, <2>2, SilentStep
  <2>4. QED
    BY <1>1, <2>2, <2>3 DEF PollInv, TablesSound
<1>4. CASE Reload(t)
  <2>1. PICK b \in TabRecords : b = Blank /\ TabSound(b, responses, issued)
    BY BlankSound
  <2>2. tab' = [tab EXCEPT ![t] = b] /\ UNCHANGED <<responses, issued, jar>>
    BY <1>4, <2>1 DEF Reload
  <2>3. TabsSound'
    BY <2>1, <2>2, TabTurns DEF PollInv, TablesSound
  <2>4. QED
    BY <1>1, <2>2, <2>3 DEF PollInv, TablesSound
<1>5. QED
  BY <1>3, <1>4

LEMMA AskStep ==
  ASSUME PollInv, NEW q \in Requests, NEW b \in Browsers, Ask(q, b)
  PROVE  PollInv'
<1>1. PICK f \in RequestRecords(issued) : f = Free
  BY BlankSound
<1> DEFINE x == [f EXCEPT !.step = "asking", !.cred = jar[b]]
<1>2. x \in RequestRecords(issued) /\ x.step = "asking"
  BY DEF RequestRecords, PollInv, TablesSound
<1>3. req' = [req EXCEPT ![q] = x] /\ UNCHANGED <<responses, issued, jar, tab>>
  BY <1>1 DEF Ask
<1> HIDE DEF x
<1>4. RequestSound(x, responses)
  BY <1>2 DEF RequestSound
<1>5. RequestsSound'
  BY <1>2, <1>3, <1>4, RequestTurns
<1>6. QED
  BY <1>3, <1>5 DEF PollInv, TablesSound, TabsSound

LEMMA RestartStep ==
  ASSUME PollInv, Restart
  PROVE  PollInv'
<1>1. ASSUME NEW q \in Requests
      PROVE  /\ req'[q] \in RequestRecords(issued) /\ RequestSound(req'[q], responses)
             /\ req'[q].step # "inserted"
  <2>1. PICK r \in RequestRecords(issued) : r = req[q] /\ RequestSound(r, responses)
    BY DEF PollInv, RequestsSound
  <2>2. PICK f \in RequestRecords(issued) : f = Free /\ RequestSound(f, responses) /\ f.step = "free"
    BY BlankSound DEF Free
  <2> DEFINE x == [r EXCEPT !.step = "failed"]
  <2>3. x \in RequestRecords(issued) /\ x.step = "failed"
    BY DEF RequestRecords, Replies
  <2>4. /\ r.step \in {"get", "post", "inserted"} => req'[q] = x
        /\ r.step = "asking" => req'[q] = f
        /\ r.step \notin {"get", "post", "inserted", "asking"} => req'[q] = r
    BY <2>1, <2>2 DEF Restart
  <2> HIDE DEF x
  <2>5. RequestSound(x, responses)
    BY <2>3 DEF RequestSound
  <2>6. QED
    BY <2>1, <2>2, <2>3, <2>4, <2>5
<1>2. req' \in [Requests -> RequestRecords(issued')]
  <2>1. req' = [q \in Requests |-> req'[q]] /\ issued' = issued
    BY DEF Restart
  <2>2. QED
    BY <1>1, <2>1
<1>3. RequestsSound'
  BY <1>1, <1>2 DEF Restart, RequestsSound
<1>4. QED
  BY <1>3 DEF Restart, PollInv, TablesSound, TabsSound

LEMMA OtherStep ==
  ASSUME PollInv,
         \/ \E q \in Requests : Discard(q) \/ Answered(q)
         \/ \E b \in Browsers : ClearCookie(b) \/ AskRefused(b)
         \/ Tick
         \/ UNCHANGED vars
  PROVE  PollInv'
<1>1. ASSUME NEW q \in Requests, Discard(q) \/ Answered(q) PROVE PollInv'
  BY <1>1, FreeStep DEF Discard, Answered, PollInv, TablesSound, TabsSound
<1>2. ASSUME NEW b \in Browsers, ClearCookie(b) PROVE PollInv'
  BY <1>2 DEF ClearCookie, PollInv, TablesSound, RequestsSound, TabsSound
<1>3. ASSUME UNCHANGED <<responses, issued, jar, tab, req>> PROVE PollInv'
  BY <1>3 DEF PollInv, TablesSound, RequestsSound, TabsSound
<1>4. QED
  BY <1>1, <1>2, <1>3 DEF AskRefused, Tick, vars

LEMMA InitPoll == Init => PollInv
<1> SUFFICES ASSUME Init PROVE PollInv
  OBVIOUS
<1>1. TablesSound
  BY DEF Init, TablesSound
<1>2. PICK f \in RequestRecords(issued) : f = Free /\ f.step = "free" /\ RequestSound(f, responses)
  BY BlankSound DEF Free
<1>3. RequestsSound
  BY <1>2 DEF Init, RequestsSound
<1>4. PICK b \in TabRecords : b = Blank /\ TabSound(b, responses, issued)
  BY BlankSound
<1>5. TabsSound
  BY <1>4 DEF Init, TabsSound
<1>6. QED
  BY <1>1, <1>3, <1>5 DEF PollInv

LEMMA NextPoll == PollInv /\ [Next]_vars => PollInv'
<1> SUFFICES ASSUME PollInv, [Next]_vars PROVE PollInv'
  OBVIOUS
<1>1. QED
  BY LoadStep, ServeLoadStep, ReceiveStep, ChooseStep, SubmitStep, InsertStep, CommitStep, ConfirmStep,
     RefuseStep, ReceiveErrorStep, LeaveStep, AskStep, RestartStep, OtherStep DEF Next

(* What a request carries and a page shows, a receipt, a refusal or the    *)
(* counts, always stays backed by rows that are recorded.                  *)
THEOREM PollInvariance == Spec => []PollInv
<1>1. QED
  BY InitPoll, NextPoll, PTL DEF Spec

----------------------------------------------------------------------------
(* A recorded answer is never changed or removed, whatever requests of     *)
(* whatever cookies commit in whatever order.                              *)
THEOREM ResponsesAreFinal == Spec => FinalResponse
<1>1. ASSUME PollInv, [Next]_vars
      PROVE  \A c \in Credentials : responses[c] # Nil => responses'[c] = responses[c]
  <2>1. ASSUME NEW q \in Requests, Commit(q)
        PROVE  \A c \in Credentials : responses[c] # Nil => responses'[c] = responses[c]
    BY <1>1, <2>1, CommitStep
  <2>2. UNCHANGED responses \/ \E q \in Requests : Commit(q)
    BY <1>1 DEF Next, vars, ServeLoad, ReceiveLoad, Insert, Confirm, Refuse, Fail, ReceiveReceipt, ReceiveError,
       Discard, Answered, Load, Submit, Ask, GiveUp, Reload, Choose, ClearCookie, AskRefused, Restart, Tick
  <2>3. QED
    BY <2>1, <2>2
<1>2. QED
  BY <1>1, PollInvariance, PTL DEF Spec, FinalResponse

(* What a page says of an answer is so.                                    *)
THEOREM PagesTellTheTruth == Spec => []MessagesTrue
<1>1. PollInv => MessagesTrue
  BY DEF PollInv, TabsSound, TabSound, MessagesTrue
<1>2. QED
  BY <1>1, PollInvariance, PTL

(* The counts a page shows are of recorded answers only, and count its own.*)
THEOREM PagesShowRealResults == Spec => []ShownResultsReal
<1>1. PollInv => ShownResultsReal
  BY DEF PollInv, TabsSound, TabSound, AtMost, ShownResultsReal
<1>2. QED
  BY <1>1, PollInvariance, PTL

----------------------------------------------------------------------------
(* The chat.                                                               *)

Ticks == 0 .. Horizon
Grants == [at : Ticks, cred : Credentials]

(* What is less than a window old at a time: times, and questions, of all  *)
(* or of one credential.                                                   *)
Lasting(e, w) == {a \in Ticks : e < a + w}
GrantsLasting(e, w) == {g \in Grants : e < g.at + w}
GrantsOf(c, e, w) == {g \in Grants : g.cred = c /\ e < g.at + w}

Asking == {q \in Requests : req[q].step = "asking"}

PlacesHeld == IsFiniteSet(Asking) /\ active = Cardinality(Asking) /\ active <= Concurrent

ListsSound ==
  /\ now \in Ticks
  /\ asked \in [Credentials -> Seq(Ticks)]
  /\ askedAll \in Seq(Ticks)
  /\ granted \in Seq([at : Ticks, cred : issued])
  /\ \A i \in DOMAIN granted : granted[i].at <= now

AllCount ==
  \A e \in Nat : e >= now =>
    Cardinality(Hits(askedAll, Lasting(e, GlobalWindow))) = Cardinality(Hits(granted, GrantsLasting(e, GlobalWindow)))

EachCounts ==
  \A c \in Credentials : \A e \in Nat : e >= now =>
    Cardinality(Hits(asked[c], Lasting(e, CredentialWindow))) =
      Cardinality(Hits(granted, GrantsOf(c, e, CredentialWindow)))

Within(end, window) == {i \in DOMAIN granted : granted[i].at <= end /\ end < granted[i].at + window}

WindowsLimited ==
  \A end \in 0 .. now :
    /\ Cardinality(Within(end, GlobalWindow)) <= Global
    /\ \A c \in Credentials :
         Cardinality({i \in Within(end, CredentialWindow) : granted[i].cred = c}) <= PerCredential

ChatInv == PlacesHeld /\ ListsSound /\ AllCount /\ EachCounts /\ WindowsLimited

LEMMA Numbers ==
  {PerCredential, CredentialWindow, Global, GlobalWindow, Concurrent, Horizon} \subseteq Nat
BY DemandAssumption DEF DemandAssumption

(* Recent is what its recursion says.                                      *)
Kept(times, window, kept, n) ==
  kept = [i \in 0 .. n |->
            IF i = 0 THEN <<>>
            ELSE IF now - times[i] < window THEN Append(kept[i - 1], times[i])
            ELSE kept[i - 1]]

LEMMA KeptExists ==
  ASSUME NEW times, NEW window, Len(times) \in Nat
  PROVE  \E kept : Kept(times, window, kept, Len(times))
<1> DEFINE T == {n \in 0 .. Len(times) : \E kept : Kept(times, window, kept, n)}
<1>1. 0 \in T
  <2> DEFINE g == [i \in 0 .. 0 |-> <<>>]
  <2>1. Kept(times, window, g, 0)
    BY DEF Kept
  <2>2. QED
    BY <2>1
<1>2. ASSUME NEW n \in 0 .. Len(times), n \in T, n < Len(times)
      PROVE  n + 1 \in T
  <2>1. PICK g : Kept(times, window, g, n)
    BY <1>2
  <2> DEFINE last == IF now - times[n + 1] < window THEN Append(g[n], times[n + 1]) ELSE g[n]
             h == [i \in 0 .. n + 1 |-> IF i = n + 1 THEN last ELSE g[i]]
  <2>2. g = [i \in 0 .. n |->
               IF i = 0 THEN <<>>
               ELSE IF now - times[i] < window THEN Append(g[i - 1], times[i])
               ELSE g[i - 1]]
    BY <2>1 DEF Kept
  <2> HIDE DEF last
  <2>3. ASSUME NEW i \in 0 .. n + 1
        PROVE  h[i] = IF i = 0 THEN <<>>
                      ELSE IF now - times[i] < window THEN Append(h[i - 1], times[i])
                      ELSE h[i - 1]
    <3>1. CASE i = n + 1
      <4>1. h[i] = last /\ h[i - 1] = g[n] /\ i # 0
        BY <3>1
      <4>2. QED
        BY <3>1, <4>1 DEF last
    <3>2. CASE i # n + 1
      <4>1. i \in 0 .. n /\ h[i] = g[i]
        BY <3>2
      <4>2. i # 0 => h[i - 1] = g[i - 1]
        BY <3>2
      <4>3. g[i] = IF i = 0 THEN <<>>
                   ELSE IF now - times[i] < window THEN Append(g[i - 1], times[i])
                   ELSE g[i - 1]
        BY <2>2, <4>1
      <4>4. QED
        BY <4>1, <4>2, <4>3
    <3>3. QED
      BY <3>1, <3>2
  <2>4. Kept(times, window, h, n + 1)
    BY <2>3 DEF Kept
  <2>5. QED
    BY <2>4
<1> HIDE DEF T
<1>3. \A n \in 0 .. Len(times) : n \in T
  BY <1>1, <1>2, Climb
<1>4. QED
  BY <1>3 DEF T

LEMMA RecentUnfolds ==
  ASSUME NEW times, NEW window, Len(times) \in Nat
  PROVE  \E kept : Kept(times, window, kept, Len(times)) /\ Recent(times, window) = kept[Len(times)]
<1> DEFINE f == CHOOSE kept : Kept(times, window, kept, Len(times))
<1>1. Kept(times, window, f, Len(times))
  BY KeptExists
<1>2. Recent(times, window) = f[Len(times)]
  BY DEF Recent, Kept
<1>3. QED
  BY <1>1, <1>2

(* Pruning a list leaves what is recent, and forgets nothing that counts   *)
(* now or later.                                                           *)
LEMMA RecentCounts ==
  ASSUME NEW times \in Seq(Ticks), NEW w \in Nat, now \in Nat
  PROVE  /\ Recent(times, w) \in Seq(Ticks)
         /\ Len(Recent(times, w)) = Cardinality(Hits(times, Lasting(now, w)))
         /\ \A e \in Nat : e >= now =>
              Cardinality(Hits(Recent(times, w), Lasting(e, w))) = Cardinality(Hits(times, Lasting(e, w)))
<1>1. Len(times) \in Nat /\ Horizon \in Nat
  BY Numbers
<1>2. PICK kept : Kept(times, w, kept, Len(times)) /\ Recent(times, w) = kept[Len(times)]
  BY <1>1, RecentUnfolds
<1>3. /\ kept[0] = <<>>
      /\ \A i \in 1 .. Len(times) :
           kept[i] = IF now - times[i] < w THEN Append(kept[i - 1], times[i]) ELSE kept[i - 1]
  <2>1. kept = [i \in 0 .. Len(times) |->
                  IF i = 0 THEN <<>>
                  ELSE IF now - times[i] < w THEN Append(kept[i - 1], times[i])
                  ELSE kept[i - 1]]
    BY <1>2 DEF Kept
  <2>2. ASSUME NEW i \in 0 .. Len(times)
        PROVE  kept[i] = IF i = 0 THEN <<>>
                         ELSE IF now - times[i] < w THEN Append(kept[i - 1], times[i])
                         ELSE kept[i - 1]
    BY <2>1
  <2>3. QED
    BY <1>1, <2>2
<1> DEFINE Good(n) ==
             /\ kept[n] \in Seq(Ticks)
             /\ Len(kept[n]) = Cardinality(HitsTo(times, n, Lasting(now, w)))
             /\ \A e \in Nat : e >= now =>
                  Cardinality(Hits(kept[n], Lasting(e, w))) = Cardinality(HitsTo(times, n, Lasting(e, w)))
           T == {n \in 0 .. Len(times) : Good(n)}
<1>4. 0 \in T
  <2>1. \A V : HitsTo(times, 0, V) = {}
    BY DEF HitsTo
  <2>2. kept[0] = <<>> /\ Cardinality({}) = 0
    BY <1>3, FS_EmptySet
  <2>3. kept[0] \in Seq(Ticks) /\ Len(kept[0]) = 0
    BY <2>2
  <2>4. \A V : Cardinality(HitsTo(times, 0, V)) = 0 /\ Cardinality(Hits(kept[0], V)) = 0
    BY <2>1, <2>2, HitsNone
  <2>5. Good(0)
    BY <2>3, <2>4
  <2>6. QED
    BY <1>1, <2>5
<1>5. ASSUME NEW n \in 0 .. Len(times), n \in T, n < Len(times)
      PROVE  n + 1 \in T
  <2> DEFINE x == times[n + 1]
             k == kept[n]
             l == kept[n + 1]
  <2>1. x \in Ticks /\ x \in Nat /\ n \in Nat /\ n + 1 \in 0 .. Len(times)
    BY <1>1, <1>5 DEF Ticks
  <2>2. Good(n)
    BY <1>5
  <2>3. l = IF now - x < w THEN Append(k, x) ELSE k
    BY <1>1, <1>3, <1>5
  <2>4. \A V : Cardinality(HitsTo(times, n + 1, V)) =
                 IF x \in V THEN Cardinality(HitsTo(times, n, V)) + 1 ELSE Cardinality(HitsTo(times, n, V))
    BY <2>1, HitsGrow
  <2>5. \A V : Cardinality(Hits(Append(k, x), V)) =
                 IF x \in V THEN Cardinality(Hits(k, V)) + 1 ELSE Cardinality(Hits(k, V))
    BY <2>1, <2>2, HitsAppend
  <2>6. now - x < w <=> x \in Lasting(now, w)
    BY <2>1 DEF Lasting
  <2>7. \A e \in Nat : e >= now /\ x \in Lasting(e, w) => x \in Lasting(now, w)
    BY <2>1 DEF Lasting
  <2>8. k \in Seq(Ticks)
    BY <2>2
  <2>9. Append(k, x) \in Seq(Ticks) /\ Len(Append(k, x)) = Len(k) + 1
    BY <2>1, <2>8
  <2>10. Len(k) = Cardinality(HitsTo(times, n, Lasting(now, w)))
    BY <2>2
  <2>11. \A e \in Nat : e >= now =>
           Cardinality(Hits(k, Lasting(e, w))) = Cardinality(HitsTo(times, n, Lasting(e, w)))
    BY <2>2
  <2> HIDE DEF x, k, l, Good
  <2>12. l \in Seq(Ticks) /\ Len(l) = Cardinality(HitsTo(times, n + 1, Lasting(now, w)))
    BY <2>3, <2>4, <2>6, <2>8, <2>9, <2>10
  <2>13. ASSUME NEW e \in Nat, e >= now
         PROVE  Cardinality(Hits(l, Lasting(e, w))) = Cardinality(HitsTo(times, n + 1, Lasting(e, w)))
    <3>1. CASE x \in Lasting(now, w)
      BY <2>3, <2>4, <2>5, <2>6, <2>11, <2>13, <3>1
    <3>2. CASE x \notin Lasting(now, w)
      BY <2>3, <2>4, <2>6, <2>7, <2>11, <2>13, <3>2
    <3>3. QED
      BY <3>1, <3>2
  <2>14. Good(n + 1)
    BY <2>12, <2>13 DEF Good, l
  <2>15. QED
    BY <2>1, <2>14
<1> HIDE DEF T
<1>6. \A n \in 0 .. Len(times) : n \in T
  BY <1>1, <1>4, <1>5, Climb
<1>7. Good(Len(times))
  BY <1>1, <1>6 DEF T
<1>8. QED
  BY <1>2, <1>7 DEF Hits

----------------------------------------------------------------------------
(* Who asks, and who does not.                                             *)
LEMMA AskersStay ==
  ASSUME PlacesHeld, active' = active,
         \A p \in Requests : req'[p].step = "asking" <=> req[p].step = "asking"
  PROVE  PlacesHeld'
<1>1. Asking' = Asking
  BY DEF Asking
<1>2. QED
  BY <1>1 DEF PlacesHeld

LEMMA BystanderTurns ==
  ASSUME PollInv, NEW q \in Requests, NEW x, req' = [req EXCEPT ![q] = x],
         req[q].step # "asking", x.step # "asking"
  PROVE  \A p \in Requests : req'[p].step = "asking" <=> req[p].step = "asking"
BY DEF PollInv, RequestsSound

ChatStays ==
  /\ UNCHANGED <<now, chat>>
  /\ \A p \in Requests : req'[p].step = "asking" <=> req[p].step = "asking"

LEMMA QuietStep ==
  ASSUME PollInv, [Next]_vars, ~Restart, ~Tick,
         \A q \in Requests : ~Answered(q) /\ \A b \in Browsers : ~Ask(q, b),
         \A b \in Browsers : ~AskRefused(b)
  PROVE  ChatStays
<1> USE DEF chat, ChatStays
<1>1. ASSUME NEW q \in Requests, NEW t \in Tabs, Load(t, q) \/ Submit(t, q) PROVE ChatStays
  <2>1. ASSUME NEW step \in {"get", "post"}, NEW a, Send(q, t, step, a)
        PROVE  ChatStays
    <3> DEFINE x == [Free EXCEPT !.step = step, !.tab = t, !.cred = jar[BrowserOf[t]], !.answer = a]
    <3>1. x.step = step /\ req' = [req EXCEPT ![q] = x] /\ req[q] = Free /\ Free.step = "free"
      BY <2>1 DEF Send, Free
    <3> HIDE DEF x
    <3>2. QED
      BY <1>1, <2>1, <3>1, BystanderTurns DEF Load, Submit
  <2>2. QED
    BY <1>1, <2>1 DEF Load, Submit
<1>2. ASSUME NEW q \in Requests, ServeLoad(q) PROVE ChatStays
  <2>1. PICK c : req' = [req EXCEPT ![q] = [step |-> IF @.cred = Nil THEN "cookie" ELSE "poll", tab |-> @.tab,
                                     cred |-> c, answer |-> responses[c], results |-> Count(responses)]]
    BY <1>2 DEF ServeLoad
  <2>2. QED
    BY <1>2, <2>1, BystanderTurns DEF ServeLoad
<1>3. ASSUME NEW q \in Requests, ReceiveLoad(q) \/ ReceiveReceipt(q) \/ ReceiveError(q) \/ Discard(q)
      PROVE  ChatStays
  <2>1. req' = [req EXCEPT ![q] = Free] /\ Free.step = "free" /\ req[q].step # "asking"
    BY <1>3 DEF ReceiveLoad, ReceiveReceipt, ReceiveError, Discard, Free
  <2>2. QED
    BY <1>3, <2>1, BystanderTurns DEF ReceiveLoad, ReceiveReceipt, ReceiveError, Discard
<1>4. ASSUME NEW q \in Requests, Insert(q) \/ Confirm(q) PROVE ChatStays
  <2>1. PICK r \in RequestRecords(issued) : r = req[q]
    BY DEF PollInv, RequestsSound
  <2>2. ASSUME NEW step \in {"inserted", "receipt"}, NEW results,
               req' = [req EXCEPT ![q].step = step, ![q].results = results]
        PROVE  ChatStays
    <3> DEFINE x == [r EXCEPT !.step = step, !.results = results]
    <3>1. req' = [req EXCEPT ![q] = x] /\ x.step = step
      BY <2>1, <2>2 DEF PollInv, RequestsSound, RequestRecords
    <3> HIDE DEF x
    <3>2. QED
      BY <1>4, <2>2, <3>1, BystanderTurns DEF Insert, Confirm
  <2>3. CASE Insert(q)
    BY <2>2, <2>3 DEF Insert
  <2>4. CASE Confirm(q)
    BY <2>2, <2>4 DEF Confirm
  <2>5. QED
    BY <1>4, <2>3, <2>4
<1>5. ASSUME NEW q \in Requests, Commit(q) \/ Refuse(q) \/ Fail(q) PROVE ChatStays
  <2>1. PICK r \in RequestRecords(issued) : r = req[q]
    BY DEF PollInv, RequestsSound
  <2>2. PICK step \in {"receipt", "final", "failed"} : req' = [req EXCEPT ![q].step = step]
    BY <1>5 DEF Commit, Refuse, Fail, Turn
  <2> DEFINE x == [r EXCEPT !.step = step]
  <2>3. req' = [req EXCEPT ![q] = x] /\ x.step = step
    BY <2>1, <2>2 DEF PollInv, RequestsSound, RequestRecords
  <2> HIDE DEF x
  <2>4. QED
    BY <1>5, <2>2, <2>3, BystanderTurns DEF Commit, Refuse, Fail
<1>6. ASSUME NEW t \in Tabs, GiveUp(t) \/ Reload(t) PROVE ChatStays
  <2>1. ASSUME NEW p \in Requests PROVE req'[p].step = req[p].step
    <3>1. PICK r \in RequestRecords(issued) : r = req[p]
      BY DEF PollInv, RequestsSound
    <3>2. req'[p] = r \/ req'[p] = [r EXCEPT !.tab = Nil]
      BY <1>6, <3>1 DEF GiveUp, Reload, Orphaned
    <3>3. QED
      BY <3>1, <3>2 DEF RequestRecords
  <2>2. QED
    BY <1>6, <2>1 DEF GiveUp, Reload
<1>7. ASSUME NEW t \in Tabs, NEW a \in Answers, Choose(t, a) PROVE ChatStays
  BY <1>7 DEF Choose
<1>8. ASSUME NEW b \in Browsers, ClearCookie(b) PROVE ChatStays
  BY <1>8 DEF ClearCookie
<1>9. CASE UNCHANGED vars
  BY <1>9 DEF vars
<1>10. \/ \E q \in Requests, t \in Tabs : Load(t, q) \/ Submit(t, q)
       \/ \E q \in Requests : ServeLoad(q)
       \/ \E q \in Requests : ReceiveLoad(q) \/ ReceiveReceipt(q) \/ ReceiveError(q) \/ Discard(q)
       \/ \E q \in Requests : Insert(q) \/ Confirm(q)
       \/ \E q \in Requests : Commit(q) \/ Refuse(q) \/ Fail(q)
       \/ \E t \in Tabs : GiveUp(t) \/ Reload(t)
       \/ \E t \in Tabs, a \in Answers : Choose(t, a)
       \/ \E b \in Browsers : ClearCookie(b)
       \/ UNCHANGED vars
  <2>1. Next \/ UNCHANGED vars
    OBVIOUS
  <2>2. QED
    BY <2>1 DEF Next
<1>11. QED
  BY <1>1, <1>2, <1>3, <1>4, <1>5, <1>6, <1>7, <1>8, <1>9, <1>10

LEMMA IssuedGrows ==
  ASSUME PollInv, [Next]_vars
  PROVE  issued \subseteq issued' /\ issued' \subseteq Credentials
<1>1. PollInv'
  BY NextPoll
<1>2. UNCHANGED issued \/ \E q \in Requests : ServeLoad(q)
  <2>1. Next \/ UNCHANGED vars
    OBVIOUS
  <2>2. ASSUME NEW q \in Requests,
               \/ ReceiveLoad(q) \/ Insert(q) \/ Commit(q) \/ Confirm(q) \/ Refuse(q) \/ Fail(q)
               \/ ReceiveReceipt(q) \/ ReceiveError(q) \/ Discard(q) \/ Answered(q)
        PROVE  UNCHANGED issued
    BY <2>2 DEF ReceiveLoad, Insert, Commit, Confirm, Refuse, Fail, ReceiveReceipt, ReceiveError, Discard, Answered
  <2>3. ASSUME NEW q \in Requests,
               \/ \E t \in Tabs : Load(t, q) \/ Submit(t, q)
               \/ \E b \in Browsers : Ask(q, b)
        PROVE  UNCHANGED issued
    <3>1. ASSUME NEW t \in Tabs, Load(t, q) \/ Submit(t, q) PROVE UNCHANGED issued
      BY <3>1 DEF Load, Submit
    <3>2. ASSUME NEW b \in Browsers, Ask(q, b) PROVE UNCHANGED issued
      BY <3>2 DEF Ask
    <3>3. QED
      BY <2>3, <3>1, <3>2
  <2>4. ASSUME \/ \E t \in Tabs : GiveUp(t) \/ Reload(t) \/ \E a \in Answers : Choose(t, a)
               \/ \E b \in Browsers : ClearCookie(b) \/ AskRefused(b)
               \/ Restart \/ Tick \/ UNCHANGED vars
        PROVE  UNCHANGED issued
    BY <2>4 DEF GiveUp, Reload, Choose, ClearCookie, AskRefused, Restart, Tick, vars
  <2>5. QED
    BY <2>1, <2>2, <2>3, <2>4 DEF Next
<1>3. issued \subseteq issued'
  BY <1>2 DEF ServeLoad
<1>4. QED
  BY <1>1, <1>3 DEF PollInv, TablesSound

(* What has been passed on keeps its type when cookies are issued.         *)
LEMMA GrantedTyped ==
  ASSUME ListsSound, issued \subseteq issued', granted' = granted
  PROVE  granted' \in Seq([at : Ticks, cred : issued'])
<1>1. [at : Ticks, cred : issued] \subseteq [at : Ticks, cred : issued']
  OBVIOUS
<1>2. Seq([at : Ticks, cred : issued]) \subseteq Seq([at : Ticks, cred : issued'])
  BY <1>1, SeqMonotonic
<1>3. QED
  BY <1>2 DEF ListsSound

(* The elements of what has been passed on.                                *)
LEMMA GrantedElements ==
  ASSUME ListsSound, issued \subseteq Credentials
  PROVE  /\ Len(granted) \in Nat /\ DOMAIN granted = 1 .. Len(granted)
         /\ granted \in Seq(Grants)
         /\ \A i \in DOMAIN granted : granted[i] \in Grants /\ granted[i].at \in Nat /\ granted[i].at <= now
<1>1. [at : Ticks, cred : issued] \subseteq Grants
  BY DEF Grants
<1>2. Seq([at : Ticks, cred : issued]) \subseteq Seq(Grants)
  BY <1>1, SeqMonotonic
<1>3. granted \in Seq(Grants)
  BY <1>2 DEF ListsSound
<1>4. /\ Len(granted) \in Nat /\ DOMAIN granted = 1 .. Len(granted)
      /\ \A i \in DOMAIN granted : granted[i] \in Grants
  BY <1>3
<1>5. \A g \in Grants : g.at \in Nat
  BY Numbers DEF Grants, Ticks
<1>6. QED
  BY <1>3, <1>4, <1>5 DEF ListsSound

LEMMA ChatQuiet ==
  ASSUME PollInv, ChatInv, ChatStays, issued \subseteq issued'
  PROVE  ChatInv'
<1>1. UNCHANGED <<now, asked, askedAll, active, granted>>
  BY DEF ChatStays, chat
<1>2. PlacesHeld'
  BY <1>1, AskersStay DEF ChatInv, ChatStays
<1>3. ListsSound'
  BY <1>1, GrantedTyped DEF ChatInv, ListsSound
<1>4. AllCount' /\ EachCounts' /\ WindowsLimited'
  BY <1>1 DEF ChatInv, AllCount, EachCounts, WindowsLimited, Within
<1>5. QED
  BY <1>2, <1>3, <1>4 DEF ChatInv

(* Time passes: what is passed on now is within no earlier window.         *)
LEMMA ChatTick ==
  ASSUME PollInv, ChatInv, Tick
  PROVE  ChatInv'
<1>1. UNCHANGED <<issued, req, asked, askedAll, active, granted>> /\ now' = now + 1 /\ now' \in Ticks /\ now \in Nat
  BY Numbers DEF Tick, chat, ChatInv, ListsSound, Ticks
<1>2. PlacesHeld'
  BY <1>1 DEF ChatInv, PlacesHeld, Asking
<1>3. \A i \in DOMAIN granted : granted[i].at \in Nat /\ granted[i].at <= now
  BY GrantedElements DEF ChatInv, PollInv, TablesSound
<1>4. ListsSound'
  BY <1>1, <1>3, GrantedTyped DEF ChatInv, ListsSound
<1>5. AllCount' /\ EachCounts'
  BY <1>1 DEF ChatInv, AllCount, EachCounts
<1>6. ASSUME NEW end \in 0 .. now'
      PROVE  /\ Cardinality(Within(end, GlobalWindow)) <= Global
             /\ \A c \in Credentials :
                  Cardinality({i \in Within(end, CredentialWindow) : granted[i].cred = c}) <= PerCredential
  <2>1. CASE end \in 0 .. now
    BY <2>1 DEF ChatInv, WindowsLimited
  <2>2. CASE end = now + 1
    <3>1. ASSUME NEW w \in Nat
          PROVE  Within(end, w) \subseteq Within(now, w) /\ IsFiniteSet(Within(now, w))
      <4>1. Within(end, w) \subseteq Within(now, w)
        BY <1>1, <1>3, <2>2 DEF Within
      <4>2. Len(granted) \in Nat /\ DOMAIN granted = 1 .. Len(granted)
        BY GrantedElements DEF ChatInv, PollInv, TablesSound
      <4>3. IsFiniteSet(1 .. Len(granted)) /\ Within(now, w) \subseteq 1 .. Len(granted)
        BY <4>2, FS_Interval DEF Within
      <4>4. QED
        BY <4>1, <4>3, FS_Subset
    <3>2. now \in 0 .. now /\ GlobalWindow \in Nat /\ CredentialWindow \in Nat /\ Global \in Nat /\ PerCredential \in Nat
      BY <1>1, Numbers
    <3>3. /\ Cardinality(Within(now, GlobalWindow)) <= Global
          /\ Cardinality(Within(end, GlobalWindow)) <= Cardinality(Within(now, GlobalWindow))
          /\ Cardinality(Within(end, GlobalWindow)) \in Nat /\ Cardinality(Within(now, GlobalWindow)) \in Nat
      BY <3>1, <3>2, FS_Subset, FS_CardinalityType DEF ChatInv, WindowsLimited
    <3>4. ASSUME NEW c \in Credentials
          PROVE  Cardinality({i \in Within(end, CredentialWindow) : granted[i].cred = c}) <= PerCredential
      <4> DEFINE A == {i \in Within(end, CredentialWindow) : granted[i].cred = c}
                 B == {i \in Within(now, CredentialWindow) : granted[i].cred = c}
      <4>1. A \subseteq B /\ B \subseteq Within(now, CredentialWindow) /\ IsFiniteSet(Within(now, CredentialWindow))
        BY <3>1, <3>2
      <4>2. IsFiniteSet(B)
        BY <4>1, FS_Subset
      <4>3. Cardinality(B) <= PerCredential
        BY <3>2 DEF ChatInv, WindowsLimited
      <4> HIDE DEF A, B
      <4>4. Cardinality(A) <= Cardinality(B) /\ Cardinality(A) \in Nat /\ Cardinality(B) \in Nat
        BY <4>1, <4>2, FS_Subset, FS_CardinalityType
      <4>5. Cardinality(A) <= PerCredential
        BY <3>2, <4>3, <4>4
      <4>6. QED
        BY <4>5 DEF A
    <3>5. QED
      BY <3>2, <3>3, <3>4
  <2>3. QED
    BY <1>1, <2>1, <2>2
<1>7. WindowsLimited'
  BY <1>1, <1>6 DEF WindowsLimited, Within
<1>8. QED
  BY <1>2, <1>4, <1>5, <1>7 DEF ChatInv

LEMMA ChatAnswered ==
  ASSUME PollInv, ChatInv, NEW q \in Requests, Answered(q)
  PROVE  ChatInv'
<1>1. UNCHANGED <<now, issued, asked, askedAll, granted>> /\ active' = active - 1
  BY DEF Answered
<1>2. Asking' = Asking \ {q} /\ q \in Asking
  <2>1. req' = [req EXCEPT ![q] = Free] /\ Free.step = "free" /\ req[q].step = "asking"
    BY DEF Answered, Free
  <2>2. QED
    BY <2>1 DEF Asking, PollInv, RequestsSound
<1>3. /\ IsFiniteSet(Asking \ {q})
      /\ Cardinality(Asking \ {q}) = Cardinality(Asking) - 1 /\ Cardinality(Asking) \in Nat
  BY <1>2, FS_RemoveElement, FS_CardinalityType DEF ChatInv, PlacesHeld
<1>4. PlacesHeld'
  BY <1>1, <1>2, <1>3, Numbers DEF ChatInv, PlacesHeld
<1>5. ListsSound'
  BY <1>1, GrantedTyped DEF ChatInv, ListsSound
<1>6. AllCount' /\ EachCounts' /\ WindowsLimited'
  BY <1>1 DEF ChatInv, AllCount, EachCounts, WindowsLimited, Within
<1>7. QED
  BY <1>4, <1>5, <1>6 DEF ChatInv

(* The pruned lists count the same.                                        *)
LEMMA Pruned ==
  ASSUME ListsSound
  PROVE  /\ now \in Nat
         /\ Prune \in [Credentials -> Seq(Ticks)]
         /\ \A c \in Credentials :
              /\ Prune[c] = Recent(asked[c], CredentialWindow)
              /\ Len(Prune[c]) = Cardinality(Hits(asked[c], Lasting(now, CredentialWindow)))
              /\ \A e \in Nat : e >= now =>
                   Cardinality(Hits(Prune[c], Lasting(e, CredentialWindow))) =
                     Cardinality(Hits(asked[c], Lasting(e, CredentialWindow)))
         /\ Recent(askedAll, GlobalWindow) \in Seq(Ticks)
         /\ Len(Recent(askedAll, GlobalWindow)) = Cardinality(Hits(askedAll, Lasting(now, GlobalWindow)))
         /\ \A e \in Nat : e >= now =>
              Cardinality(Hits(Recent(askedAll, GlobalWindow), Lasting(e, GlobalWindow))) =
                Cardinality(Hits(askedAll, Lasting(e, GlobalWindow)))
<1>1. now \in Nat /\ askedAll \in Seq(Ticks) /\ \A c \in Credentials : asked[c] \in Seq(Ticks)
  BY Numbers DEF ListsSound, Ticks
<1>2. CredentialWindow \in Nat /\ GlobalWindow \in Nat
  BY Numbers
<1>3. \A c \in Credentials : Prune[c] = Recent(asked[c], CredentialWindow)
  BY DEF Prune
<1>4. ASSUME NEW c \in Credentials
      PROVE  /\ Recent(asked[c], CredentialWindow) \in Seq(Ticks)
             /\ Len(Prune[c]) = Cardinality(Hits(asked[c], Lasting(now, CredentialWindow)))
             /\ \A e \in Nat : e >= now =>
                  Cardinality(Hits(Prune[c], Lasting(e, CredentialWindow))) =
                    Cardinality(Hits(asked[c], Lasting(e, CredentialWindow)))
  <2> DEFINE times == asked[c]
  <2>1. times \in Seq(Ticks)
    BY <1>1
  <2>2. Prune[c] = Recent(times, CredentialWindow)
    BY <1>3
  <2> HIDE DEF times
  <2>3. /\ Recent(times, CredentialWindow) \in Seq(Ticks)
        /\ Len(Recent(times, CredentialWindow)) = Cardinality(Hits(times, Lasting(now, CredentialWindow)))
        /\ \A e \in Nat : e >= now =>
             Cardinality(Hits(Recent(times, CredentialWindow), Lasting(e, CredentialWindow))) =
               Cardinality(Hits(times, Lasting(e, CredentialWindow)))
    BY <1>1, <1>2, <2>1, RecentCounts
  <2>4. QED
    BY <2>2, <2>3 DEF times
<1>5. Prune \in [Credentials -> Seq(Ticks)]
  BY <1>4 DEF Prune
<1>6. /\ Recent(askedAll, GlobalWindow) \in Seq(Ticks)
      /\ Len(Recent(askedAll, GlobalWindow)) = Cardinality(Hits(askedAll, Lasting(now, GlobalWindow)))
      /\ \A e \in Nat : e >= now =>
           Cardinality(Hits(Recent(askedAll, GlobalWindow), Lasting(e, GlobalWindow))) =
             Cardinality(Hits(askedAll, Lasting(e, GlobalWindow)))
  BY <1>1, <1>2, RecentCounts
<1>7. QED
  BY <1>1, <1>3, <1>4, <1>5, <1>6

LEMMA ChatRefused ==
  ASSUME PollInv, ChatInv, NEW b \in Browsers, AskRefused(b)
  PROVE  ChatInv'
<1>1. /\ UNCHANGED <<now, issued, req, active, granted>>
      /\ asked' = Prune /\ askedAll' = Recent(askedAll, GlobalWindow)
  BY DEF AskRefused
<1>2. PlacesHeld'
  BY <1>1 DEF ChatInv, PlacesHeld, Asking
<1>3. ListsSound'
  BY <1>1, Pruned DEF ChatInv, ListsSound
<1>4. AllCount'
  BY <1>1, Pruned DEF ChatInv, AllCount
<1>5. EachCounts'
  BY <1>1, Pruned DEF ChatInv, EachCounts
<1>6. WindowsLimited'
  BY <1>1 DEF ChatInv, WindowsLimited, Within
<1>7. QED
  BY <1>2, <1>3, <1>4, <1>5, <1>6 DEF ChatInv

(* A question is passed on: one more in the lists, and one more granted.   *)
LEMMA ChatAsk ==
  ASSUME PollInv, ChatInv, NEW q \in Requests, NEW b \in Browsers, Ask(q, b)
  PROVE  ChatInv'
<1> DEFINE c == jar[b]
           g == [at |-> now, cred |-> c]
           all == Recent(askedAll, GlobalWindow)
           mine == Recent(asked[c], CredentialWindow)
<1>1. /\ UNCHANGED <<now, issued>>
      /\ asked' = [Prune EXCEPT ![c] = Append(mine, now)]
      /\ askedAll' = Append(all, now)
      /\ granted' = Append(granted, g)
      /\ active' = active + 1 /\ active < Concurrent
      /\ Len(mine) < PerCredential /\ Len(all) < Global
  BY DEF Ask
<1>2. c \in issued /\ c \in Credentials
  BY DEF Ask, PollInv, TablesSound
<1>3. g \in [at : Ticks, cred : issued] /\ g \in Grants /\ g.at = now /\ g.cred = c /\ now \in Ticks /\ now \in Nat
  BY <1>2, Numbers DEF ChatInv, ListsSound, Grants, Ticks
<1>4. /\ Len(granted) \in Nat /\ DOMAIN granted = 1 .. Len(granted) /\ granted \in Seq(Grants)
      /\ \A i \in DOMAIN granted : granted[i] \in Grants /\ granted[i].at \in Nat /\ granted[i].at <= now
  BY GrantedElements DEF ChatInv, PollInv, TablesSound
<1>5. mine = Prune[c] /\ mine \in Seq(Ticks) /\ all \in Seq(Ticks) /\ Len(mine) \in Nat /\ Len(all) \in Nat
  BY <1>2, Pruned DEF ChatInv
<1> HIDE DEF c, g, all, mine
<1>6. /\ Len(granted') = Len(granted) + 1 /\ DOMAIN granted' = 1 .. Len(granted) + 1
      /\ granted'[Len(granted) + 1] = g
      /\ \A i \in 1 .. Len(granted) : granted'[i] = granted[i]
  BY <1>1, <1>3, <1>4
<1>7. PlacesHeld'
  <2>1. Asking' = Asking \cup {q} /\ q \notin Asking
    <3>1. /\ req[q].step = "free" /\ Free.step = "free"
          /\ req' = [req EXCEPT ![q] = [Free EXCEPT !.step = "asking", !.cred = c]]
      BY DEF Ask, Free, c
    <3> DEFINE x == [Free EXCEPT !.step = "asking", !.cred = c]
    <3>2. x.step = "asking"
      BY DEF Free
    <3> HIDE DEF x
    <3>3. req' = [req EXCEPT ![q] = x]
      BY <3>1 DEF x
    <3>4. QED
      BY <3>1, <3>2, <3>3 DEF Asking, PollInv, RequestsSound
  <2>2. /\ IsFiniteSet(Asking \cup {q}) /\ Cardinality(Asking \cup {q}) = Cardinality(Asking) + 1
        /\ Cardinality(Asking) \in Nat
    BY <2>1, FS_AddElement, FS_CardinalityType DEF ChatInv, PlacesHeld
  <2>3. active \in Nat /\ active + 1 <= Concurrent /\ active = Cardinality(Asking)
    <3>1. active \in Nat /\ active = Cardinality(Asking)
      BY <2>2 DEF ChatInv, PlacesHeld
    <3>2. Concurrent \in Nat
      BY Numbers
    <3>3. active < Concurrent
      BY <1>1
    <3>4. QED
      BY <3>1, <3>2, <3>3
  <2>4. QED
    BY <1>1, <2>1, <2>2, <2>3 DEF PlacesHeld
<1>8. ListsSound'
  <2>1. granted' \in Seq([at : Ticks, cred : issued'])
    BY <1>1, <1>3, AppendProperties DEF ChatInv, ListsSound
  <2>2. \A i \in DOMAIN granted' : granted'[i].at <= now
    BY <1>3, <1>4, <1>6
  <2>3. Append(mine, now) \in Seq(Ticks) /\ Append(all, now) \in Seq(Ticks)
    BY <1>3, <1>5, AppendProperties
  <2>4. asked' \in [Credentials -> Seq(Ticks)]
    BY <1>1, <2>3, Pruned DEF ChatInv
  <2>5. QED
    BY <1>1, <1>3, <2>1, <2>2, <2>3, <2>4 DEF ListsSound
<1>9. AllCount'
  <2>1. ASSUME NEW e \in Nat, e >= now
        PROVE  Cardinality(Hits(askedAll', Lasting(e, GlobalWindow))) =
                 Cardinality(Hits(granted', GrantsLasting(e, GlobalWindow)))
    <3>1. Cardinality(Hits(all, Lasting(e, GlobalWindow))) =
            Cardinality(Hits(granted, GrantsLasting(e, GlobalWindow)))
      BY <2>1, Pruned DEF ChatInv, AllCount, all
    <3>2. now \in Lasting(e, GlobalWindow) <=> g \in GrantsLasting(e, GlobalWindow)
      BY <1>3 DEF Lasting, GrantsLasting
    <3>3. Cardinality(Hits(Append(all, now), Lasting(e, GlobalWindow))) =
            IF now \in Lasting(e, GlobalWindow)
            THEN Cardinality(Hits(all, Lasting(e, GlobalWindow))) + 1
            ELSE Cardinality(Hits(all, Lasting(e, GlobalWindow)))
      BY <1>3, <1>5, HitsAppend
    <3>4. Cardinality(Hits(Append(granted, g), GrantsLasting(e, GlobalWindow))) =
            IF g \in GrantsLasting(e, GlobalWindow)
            THEN Cardinality(Hits(granted, GrantsLasting(e, GlobalWindow))) + 1
            ELSE Cardinality(Hits(granted, GrantsLasting(e, GlobalWindow)))
      BY <1>3, <1>4, HitsAppend
    <3>5. QED
      BY <1>1, <3>1, <3>2, <3>3, <3>4
  <2>2. QED
    BY <1>1, <2>1 DEF AllCount
<1>10. EachCounts'
  <2>1. ASSUME NEW d \in Credentials, NEW e \in Nat, e >= now
        PROVE  Cardinality(Hits(asked'[d], Lasting(e, CredentialWindow))) =
                 Cardinality(Hits(granted', GrantsOf(d, e, CredentialWindow)))
    <3>1. Cardinality(Hits(Prune[d], Lasting(e, CredentialWindow))) =
            Cardinality(Hits(granted, GrantsOf(d, e, CredentialWindow)))
      BY <2>1, Pruned DEF ChatInv, EachCounts
    <3>2. Cardinality(Hits(Append(granted, g), GrantsOf(d, e, CredentialWindow))) =
            IF g \in GrantsOf(d, e, CredentialWindow)
            THEN Cardinality(Hits(granted, GrantsOf(d, e, CredentialWindow))) + 1
            ELSE Cardinality(Hits(granted, GrantsOf(d, e, CredentialWindow)))
      BY <1>3, <1>4, HitsAppend
    <3>3. CASE d = c
      <4>1. now \in Lasting(e, CredentialWindow) <=> g \in GrantsOf(d, e, CredentialWindow)
        BY <1>3, <3>3 DEF Lasting, GrantsOf
      <4>2. Cardinality(Hits(Append(mine, now), Lasting(e, CredentialWindow))) =
              IF now \in Lasting(e, CredentialWindow)
              THEN Cardinality(Hits(mine, Lasting(e, CredentialWindow))) + 1
              ELSE Cardinality(Hits(mine, Lasting(e, CredentialWindow)))
        BY <1>3, <1>5, HitsAppend
      <4>3. asked'[d] = Append(mine, now)
        BY <1>1, <3>3, Pruned DEF ChatInv
      <4>4. QED
        BY <1>1, <1>5, <3>1, <3>2, <3>3, <4>1, <4>2, <4>3
    <3>4. CASE d # c
      <4>1. g \notin GrantsOf(d, e, CredentialWindow)
        BY <1>3, <3>4 DEF GrantsOf
      <4>2. asked'[d] = Prune[d]
        BY <1>1, <3>4, Pruned DEF ChatInv
      <4>3. QED
        BY <1>1, <3>1, <3>2, <4>1, <4>2
    <3>5. QED
      BY <3>3, <3>4
  <2>2. QED
    BY <1>1, <2>1 DEF EachCounts
<1>11. WindowsLimited'
  <2>1. GlobalWindow \in Nat /\ CredentialWindow \in Nat /\ Global \in Nat /\ PerCredential \in Nat
    BY Numbers
  <2>2. /\ granted' \in Seq(Grants)
        /\ \A V : IsFiniteSet(Hits(granted', V)) /\ Cardinality(Hits(granted', V)) \in Nat
    BY <1>1, <1>3, <1>4, <1>6, AppendProperties, HitsFinite DEF Hits
  <2>3. ASSUME NEW end \in 0 .. now, end < now, NEW w \in Nat
        PROVE  Within(end, w)' = Within(end, w) /\ \A i \in Within(end, w) : granted'[i] = granted[i]
    BY <1>3, <1>4, <1>6, <2>3 DEF Within
  <2>4. ASSUME NEW end \in 0 .. now, end < now
        PROVE  /\ Cardinality(Within(end, GlobalWindow)') <= Global
               /\ \A d \in Credentials :
                    Cardinality({i \in Within(end, CredentialWindow)' : granted'[i].cred = d}) <= PerCredential
    <3>1. ASSUME NEW d \in Credentials
          PROVE  {i \in Within(end, CredentialWindow)' : granted'[i].cred = d} =
                   {i \in Within(end, CredentialWindow) : granted[i].cred = d}
      BY <2>1, <2>3, <2>4
    <3>2. QED
      BY <2>1, <2>3, <2>4, <3>1 DEF ChatInv, WindowsLimited
  <2>5. Cardinality(Within(now, GlobalWindow)') <= Global
    <3> DEFINE V == GrantsLasting(now, GlobalWindow)
    <3>1. Within(now, GlobalWindow)' \subseteq Hits(granted', V)
      BY <1>1, <1>3, <1>4, <1>6 DEF Within, Hits, HitsTo, GrantsLasting
    <3>2. Cardinality(Hits(granted, V)) = Len(all)
      BY <1>3, Pruned DEF ChatInv, AllCount, all
    <3>3. Cardinality(Hits(granted', V)) <= Len(all) + 1
      <4>1. Cardinality(Hits(Append(granted, g), V)) =
              IF g \in V THEN Cardinality(Hits(granted, V)) + 1 ELSE Cardinality(Hits(granted, V))
        BY <1>3, <1>4, HitsAppend
      <4>2. QED
        BY <1>1, <1>5, <3>2, <4>1
    <3> HIDE DEF V
    <3>4. /\ Cardinality(Within(now, GlobalWindow)') <= Cardinality(Hits(granted', V))
          /\ Cardinality(Within(now, GlobalWindow)') \in Nat
      BY <2>2, <3>1, FS_Subset, FS_CardinalityType
    <3>5. QED
      BY <1>1, <1>5, <2>1, <2>2, <3>3, <3>4
  <2>6. ASSUME NEW d \in Credentials
        PROVE  Cardinality({i \in Within(now, CredentialWindow)' : granted'[i].cred = d}) <= PerCredential
    <3>1. CASE d = c
      <4> DEFINE V == GrantsOf(c, now, CredentialWindow)
                 A == {i \in Within(now, CredentialWindow)' : granted'[i].cred = c}
      <4>1. A \subseteq Hits(granted', V)
        BY <1>1, <1>3, <1>4, <1>6 DEF Within, Hits, HitsTo, GrantsOf
      <4>2. Cardinality(Hits(granted, V)) = Len(mine)
        BY <1>2, <1>3, <1>5, Pruned DEF ChatInv, EachCounts
      <4>3. Cardinality(Hits(granted', V)) <= Len(mine) + 1
        <5>1. Cardinality(Hits(Append(granted, g), V)) =
                IF g \in V THEN Cardinality(Hits(granted, V)) + 1 ELSE Cardinality(Hits(granted, V))
          BY <1>3, <1>4, HitsAppend
        <5>2. QED
          BY <1>1, <1>5, <4>2, <5>1
      <4> HIDE DEF V, A
      <4>4. Cardinality(A) <= Cardinality(Hits(granted', V)) /\ Cardinality(A) \in Nat
        BY <2>2, <4>1, FS_Subset, FS_CardinalityType
      <4>5. Cardinality(A) <= PerCredential
        <5>1. Cardinality(Hits(granted', V)) \in Nat
          BY <2>2
        <5>2. Len(mine) + 1 <= PerCredential /\ Len(mine) \in Nat /\ PerCredential \in Nat
          BY <1>1, <1>5, <2>1
        <5>3. QED
          BY <4>3, <4>4, <5>1, <5>2
      <4>6. QED
        BY <3>1, <4>5 DEF A
    <3>2. CASE d # c
      <4>1. {i \in Within(now, CredentialWindow)' : granted'[i].cred = d} =
              {i \in Within(now, CredentialWindow) : granted[i].cred = d}
        BY <1>1, <1>3, <1>4, <1>6, <3>2 DEF Within
      <4>2. now \in 0 .. now
        BY <1>3
      <4>3. QED
        BY <4>1, <4>2 DEF ChatInv, WindowsLimited
    <3>3. QED
      BY <3>1, <3>2
  <2>7. ASSUME NEW end \in 0 .. now
        PROVE  /\ Cardinality(Within(end, GlobalWindow)') <= Global
               /\ \A d \in Credentials :
                    Cardinality({i \in Within(end, CredentialWindow)' : granted'[i].cred = d}) <= PerCredential
    <3>1. CASE end < now
      BY <2>4, <3>1
    <3>2. CASE end = now
      <4>1. \A w : Within(end, w)' = Within(now, w)'
        BY <1>1, <3>2 DEF Within
      <4>2. QED
        BY <2>5, <2>6, <4>1
    <3>3. QED
      BY <1>3, <3>1, <3>2
  <2>8. QED
    BY <1>1, <2>7 DEF WindowsLimited
<1>12. QED
  BY <1>7, <1>8, <1>9, <1>10, <1>11 DEF ChatInv

(* After a restart nothing is in memory and nobody asks.                   *)
LEMMA ChatRestart ==
  ASSUME PollInv, ChatInv, Restart
  PROVE  ChatInv'
<1>1. /\ UNCHANGED <<now, issued>> /\ active' = 0
      /\ asked' = [d \in Credentials |-> <<>>] /\ askedAll' = <<>> /\ granted' = <<>>
  BY DEF Restart
<1>2. now \in Ticks /\ now \in Nat
  BY Numbers DEF ChatInv, ListsSound, Ticks
<1>3. Asking' = {}
  <2>1. ASSUME NEW p \in Requests PROVE req'[p].step # "asking"
    <3>1. PICK r \in RequestRecords(issued) : r = req[p]
      BY DEF PollInv, RequestsSound
    <3>2. req'[p] = IF r.step \in {"get", "post", "inserted"} THEN [r EXCEPT !.step = "failed"]
                    ELSE IF r.step = "asking" THEN Free ELSE r
      BY <3>1 DEF Restart
    <3>3. QED
      BY <3>1, <3>2 DEF RequestRecords, Free
  <2>2. QED
    BY <2>1 DEF Asking
<1>4. PlacesHeld'
  BY <1>1, <1>3, FS_EmptySet, Numbers DEF PlacesHeld
<1>5. ListsSound'
  BY <1>1, <1>2 DEF ListsSound
<1>6. AllCount' /\ EachCounts'
  BY <1>1, HitsNone DEF AllCount, EachCounts
<1>7. WindowsLimited'
  <2>1. \A end, w : Within(end, w)' = {}
    BY <1>1 DEF Within
  <2>2. \A end : \A d : {i \in Within(end, CredentialWindow)' : granted'[i].cred = d} = {}
    BY <2>1
  <2>3. QED
    BY <2>1, <2>2, FS_EmptySet, Numbers DEF WindowsLimited
<1>8. QED
  BY <1>4, <1>5, <1>6, <1>7 DEF ChatInv

LEMMA InitChat == Init => ChatInv
<1> SUFFICES ASSUME Init PROVE ChatInv
  OBVIOUS
<1>1. /\ now = 0 /\ active = 0 /\ askedAll = <<>> /\ granted = <<>>
      /\ asked = [d \in Credentials |-> <<>>]
      /\ req = [p \in Requests |-> Free] /\ Free.step = "free"
  BY DEF Init, Free
<1>2. Asking = {}
  BY <1>1 DEF Asking
<1>3. PlacesHeld
  BY <1>1, <1>2, FS_EmptySet, Numbers DEF PlacesHeld
<1>4. ListsSound
  BY <1>1, Numbers DEF ListsSound, Ticks
<1>5. AllCount /\ EachCounts
  BY <1>1, HitsNone DEF AllCount, EachCounts
<1>6. WindowsLimited
  <2>1. \A end, w : Within(end, w) = {}
    BY <1>1 DEF Within
  <2>2. \A end : \A d : {i \in Within(end, CredentialWindow) : granted[i].cred = d} = {}
    BY <2>1
  <2>3. QED
    BY <2>1, <2>2, FS_EmptySet, Numbers DEF WindowsLimited
<1>7. QED
  BY <1>3, <1>4, <1>5, <1>6 DEF ChatInv

LEMMA NextChat == PollInv /\ ChatInv /\ [Next]_vars => ChatInv'
<1> SUFFICES ASSUME PollInv, ChatInv, [Next]_vars PROVE ChatInv'
  OBVIOUS
<1>1. CASE Restart
  BY <1>1, ChatRestart
<1>2. CASE Tick
  BY <1>2, ChatTick
<1>3. CASE \E q \in Requests : Answered(q)
  BY <1>3, ChatAnswered
<1>4. CASE \E q \in Requests, b \in Browsers : Ask(q, b)
  BY <1>4, ChatAsk
<1>5. CASE \E b \in Browsers : AskRefused(b)
  BY <1>5, ChatRefused
<1>6. QED
  BY <1>1, <1>2, <1>3, <1>4, <1>5, QuietStep, IssuedGrows, ChatQuiet

(* The invariant of the chat, with that of the poll.                       *)
THEOREM ChatInvariance == Spec => [](PollInv /\ ChatInv)
<1>1. Init => PollInv /\ ChatInv
  BY InitPoll, InitChat
<1>2. PollInv /\ ChatInv /\ [Next]_vars => PollInv' /\ ChatInv'
  BY NextPoll, NextChat
<1>3. QED
  BY <1>1, <1>2, PTL DEF Spec

(* Every variable has its type, and the provider never works on more       *)
(* questions at once than demandChatLimits allows.                         *)
THEOREM DemandTypeCorrect == Spec => []TypeOK
<1>1. PollInv /\ ChatInv => TypeOK
  <2> SUFFICES ASSUME PollInv, ChatInv PROVE TypeOK
    OBVIOUS
  <2>1. /\ now \in 0 .. Horizon
        /\ asked \in [Credentials -> Seq(0 .. Horizon)] /\ askedAll \in Seq(0 .. Horizon)
        /\ granted \in Seq([at : 0 .. Horizon, cred : issued])
    BY DEF ChatInv, ListsSound, Ticks
  <2>2. active \in 0 .. Concurrent
    BY FS_CardinalityType, Numbers DEF ChatInv, PlacesHeld
  <2>3. /\ responses \in [Credentials -> Answers \cup {Nil}] /\ issued \subseteq Credentials
        /\ jar \in [Browsers -> issued \cup {Nil}]
    BY DEF PollInv, TablesSound
  <2>4. req \in [Requests -> [step : {"free", "get", "post", "inserted", "asking"} \cup Replies,
                             tab : Tabs \cup {Nil}, cred : issued \cup {Nil},
                             answer : Answers \cup {Nil}, results : Results]]
    BY DEF PollInv, RequestsSound, RequestRecords, Replies
  <2>5. tab \in [Tabs -> [step : {"blank", "loading", "shown", "sending"}, choice : Answers \cup {Nil},
                         thanks : Answers \cup {Nil}, told : {Nil, "final", "failed"}, results : Results]]
    BY DEF PollInv, TabsSound, TabRecords
  <2>6. QED
    BY <2>1, <2>2, <2>3, <2>4, <2>5 DEF TypeOK
<1>2. QED
  BY <1>1, ChatInvariance, PTL

(* In no window of time, aligned to anything or not, has the process       *)
(* passed on more questions than demandChatLimits allows, of one credential*)
(* or of all, although it forgets and prunes; and no place is lost.        *)
THEOREM ChatIsLimited == Spec => []ChatLimited
<1>1. ChatInv => ChatLimited
  BY DEF ChatInv, PlacesHeld, Asking, WindowsLimited, Within, ChatLimited
<1>2. QED
  BY <1>1, ChatInvariance, PTL
=============================================================================
