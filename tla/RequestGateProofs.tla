------------------------- MODULE RequestGateProofs -------------------------
(***************************************************************************)
(* Theorems of the request gate, for every number of requests and all      *)
(* limits: no slot is lost or freed twice, the queue holds exactly the     *)
(* waiters, nobody waits while a slot is free, and slots are given in      *)
(* order of arrival.                                                       *)
(***************************************************************************)
EXTENDS RequestGate, FiniteSetTheorems, SequenceTheorems, TLAPS

Entries(q) == {q[i] : i \in DOMAIN q}

Distinct(q) == \A i, j \in DOMAIN q : q[i] = q[j] => i = j

Queue == {q \in Seq(Requests) : Len(q) \in 0 .. QueuedRequests}

IInv == TypeOK /\ SlotsAccounted /\ QueueIsWaiters /\ WorkConserving

----------------------------------------------------------------------------
(* A queue is a sequence of requests.                                      *)
LEMMA QueueType ==
  ASSUME TypeOK
  PROVE  queued \in Seq(Requests) /\ Len(queued) \in Nat /\ DOMAIN queued = 1 .. Len(queued)
<1>1. Len(queued) \in Nat /\ queued \in [1 .. Len(queued) -> Requests]
  BY LimitsAssumption DEF TypeOK, LimitsAssumption
<1>2. queued \in Seq(Requests)
  BY <1>1, SeqDef
<1>3. QED
  BY <1>1, <1>2

(* Taking an entry out of a queue takes out that entry and no other.       *)
LEMMA SpliceFacts ==
  ASSUME NEW q \in Seq(Requests), NEW i \in DOMAIN q, Distinct(q)
  PROVE  LET s == Splice(q, i) IN
         /\ s \in [1 .. Len(s) -> Requests]
         /\ Len(s) = Len(q) - 1
         /\ Entries(s) = Entries(q) \ {q[i]}
         /\ Distinct(s)
<1> DEFINE n == Len(q)
           s == Splice(q, i)
<1>1. n \in Nat /\ DOMAIN q = 1 .. n /\ i \in 1 .. n /\ n - 1 \in Nat
  OBVIOUS
<1>2. DOMAIN s = 1 .. n - 1 /\ \A k \in 1 .. n - 1 : s[k] = IF k < i THEN q[k] ELSE q[k + 1]
  BY <1>1 DEF Splice
<1>3. \A k \in 1 .. n - 1 : s[k] \in Requests
  BY <1>1, <1>2
<1>4. s = [k \in 1 .. n - 1 |-> IF k < i THEN q[k] ELSE q[k + 1]]
  BY DEF Splice
<1>5. s \in [1 .. n - 1 -> Requests]
  BY <1>1, <1>4
<1> HIDE DEF s
<1>6. s \in Seq(Requests)
  BY <1>1, <1>5, SeqDef
<1>7. Len(s) = n - 1
  <2> DEFINE m == n - 1
  <2>1. m \in Nat /\ DOMAIN s = 1 .. m
    BY <1>1, <1>2
  <2> HIDE DEF m
  <2>2. Len(s) \in Nat /\ DOMAIN s = 1 .. Len(s)
    BY <1>6, LenProperties
  <2>3. Len(s) = m
    BY <2>1, <2>2
  <2>4. QED
    BY <2>3 DEF m
<1>8. Distinct(s)
  <2> SUFFICES ASSUME NEW j \in 1 .. n - 1, NEW k \in 1 .. n - 1, s[j] = s[k] PROVE j = k
    BY <1>2 DEF Distinct
  <2> DEFINE from(m) == IF m < i THEN m ELSE m + 1
  <2>1. from(j) \in 1 .. n /\ from(k) \in 1 .. n /\ q[from(j)] = q[from(k)]
    BY <1>1, <1>2
  <2>2. from(j) = from(k)
    BY <1>1, <2>1 DEF Distinct
  <2>3. QED
    BY <1>1, <2>2
<1>9. Entries(s) \subseteq Entries(q) \ {q[i]}
  <2> SUFFICES ASSUME NEW k \in 1 .. n - 1 PROVE s[k] \in Entries(q) /\ s[k] # q[i]
    BY <1>2 DEF Entries
  <2>1. CASE k < i
    BY <1>1, <1>2, <2>1 DEF Entries, Distinct
  <2>2. CASE ~(k < i)
    <3>1. s[k] = q[k + 1] /\ k + 1 \in 1 .. n /\ k + 1 # i
      BY <1>1, <1>2, <2>2
    <3>2. QED
      BY <1>1, <3>1 DEF Entries, Distinct
  <2>3. QED
    BY <2>1, <2>2
<1>10. Entries(q) \ {q[i]} \subseteq Entries(s)
  <2> SUFFICES ASSUME NEW k \in 1 .. n, k # i PROVE q[k] \in Entries(s)
    BY <1>1 DEF Entries
  <2>1. CASE k < i
    <3>1. k \in 1 .. n - 1 /\ s[k] = q[k]
      BY <1>1, <1>2, <2>1
    <3>2. QED
      BY <1>2, <3>1 DEF Entries
  <2>2. CASE k > i
    <3>1. k - 1 \in 1 .. n - 1 /\ s[k - 1] = q[k]
      BY <1>1, <1>2, <2>2
    <3>2. QED
      BY <1>2, <3>1 DEF Entries
  <2>3. QED
    BY <1>1, <2>1, <2>2
<1>11. QED
  BY <1>5, <1>7, <1>8, <1>9, <1>10 DEF s

----------------------------------------------------------------------------
(* A gate just created holds no slot and queues nobody.                    *)
THEOREM InitIInv == Init => IInv
<1> SUFFICES ASSUME Init PROVE IInv
  OBVIOUS
<1>1. Cardinality({}) = 0
  BY FS_EmptySet
<1>2. QED
  BY <1>1, LimitsAssumption DEF Init, IInv, TypeOK, SlotsAccounted, QueueIsWaiters, WorkConserving,
     LimitsAssumption, Phases

(* Requests that neither hold a slot nor wait change phase freely.         *)
LEMMA BystanderKeeps ==
  ASSUME IInv, UNCHANGED gate, NEW r \in Requests, r \notin held, r \notin waiting,
         NEW p \in Phases \ {"waiting", "handled"},
         phase' = [phase EXCEPT ![r] = p]
  PROVE  IInv'
<1>1. phase \in [Requests -> Phases] /\ phase' \in [Requests -> Phases]
  BY DEF IInv, TypeOK
<1>2. TypeOK'
  BY <1>1 DEF gate, IInv, TypeOK
<1>3. \A q \in Requests : phase'[q] = "handled" <=> phase[q] = "handled"
  BY <1>1 DEF IInv, SlotsAccounted
<1>4. \A q \in Requests : phase'[q] = "waiting" <=> phase[q] = "waiting"
  BY <1>1 DEF IInv, QueueIsWaiters
<1>5. SlotsAccounted'
  BY <1>3 DEF gate, IInv, SlotsAccounted
<1>6. waiting' = {q \in Requests : phase'[q] = "waiting"}
  BY <1>4 DEF gate, IInv, QueueIsWaiters
<1>7. UNCHANGED queued /\ UNCHANGED waiting /\ UNCHANGED active
  BY DEF gate
<1>8. (waiting = {queued[i] : i \in DOMAIN queued})'
  BY <1>7 DEF IInv, QueueIsWaiters
<1>9. (\A i, j \in DOMAIN queued : queued[i] = queued[j] => i = j)'
  BY <1>7 DEF IInv, QueueIsWaiters
<1>10. QED
  BY <1>2, <1>5, <1>6, <1>7, <1>8, <1>9 DEF IInv, QueueIsWaiters, WorkConserving

(* A waiter that leaves the queue without a slot.                          *)
LEMMA RemoveKeeps ==
  ASSUME IInv, NEW r \in Requests, r \in waiting, Remove(r), UNCHANGED <<active, held>>,
         NEW p \in Phases \ {"waiting", "handled"},
         phase' = [phase EXCEPT ![r] = p]
  PROVE  IInv'
<1>1. /\ queued \in Seq(Requests) /\ Len(queued) \in Nat /\ DOMAIN queued = 1 .. Len(queued)
      /\ Len(queued) <= QueuedRequests /\ Distinct(queued) /\ Entries(queued) = waiting
  BY QueueType, LimitsAssumption DEF IInv, TypeOK, QueueIsWaiters, Distinct, Entries, LimitsAssumption
<1>2. PICK i \in DOMAIN queued : queued[i] = r /\ queued' = Splice(queued, i)
  BY <1>1 DEF Remove, Entries
<1>3. /\ queued' \in [1 .. Len(queued') -> Requests]
      /\ Len(queued') = Len(queued) - 1
      /\ Entries(queued') = waiting \ {r}
      /\ Distinct(queued')
  BY <1>1, <1>2, SpliceFacts
<1>4. waiting' = waiting \ {r} /\ i \in 1 .. Len(queued)
  BY <1>1, <1>2 DEF Remove
<1>5. TypeOK'
  BY <1>1, <1>3, <1>4, LimitsAssumption DEF IInv, TypeOK, LimitsAssumption
<1>6. SlotsAccounted'
  BY DEF IInv, TypeOK, SlotsAccounted, QueueIsWaiters
<1>7. QueueIsWaiters'
  BY <1>3, <1>4 DEF IInv, TypeOK, QueueIsWaiters, Entries, Distinct
<1>8. WorkConserving'
  <2>1. queued # <<>>
    BY <1>1, <1>4
  <2>2. QED
    BY <2>1 DEF IInv, WorkConserving
<1>9. QED
  BY <1>5, <1>6, <1>7, <1>8 DEF IInv

(* A holder that gives up its slot, which the oldest waiter takes over.    *)
LEMMA FreeSlotKeeps ==
  ASSUME IInv, NEW r \in Requests, r \in held, FreeSlot(r),
         NEW p \in Phases \ {"waiting", "handled"}, Becomes(r, p)
  PROVE  IInv'
<1>1. /\ queued \in Seq(Requests) /\ Len(queued) \in Nat /\ DOMAIN queued = 1 .. Len(queued)
      /\ Len(queued) <= QueuedRequests /\ Distinct(queued) /\ Entries(queued) = waiting
  BY QueueType, LimitsAssumption DEF IInv, TypeOK, QueueIsWaiters, Distinct, Entries, LimitsAssumption
<1>2. IsFiniteSet(held) /\ active = Cardinality(held) /\ active \in Nat
  BY FS_Subset, LimitsAssumption DEF IInv, TypeOK, SlotsAccounted, LimitsAssumption
<1>3. r \notin waiting /\ waiting \cap held = {}
  BY DEF IInv, SlotsAccounted, QueueIsWaiters
<1>4. IsFiniteSet(held \ {r}) /\ Cardinality(held \ {r}) = active - 1
  BY <1>2, FS_RemoveElement
<1>5. CASE queued = <<>>
  <2>1. active' = active - 1 /\ held' = held \ {r} /\ UNCHANGED <<queued, waiting>>
    BY <1>5 DEF FreeSlot
  <2>2. phase' = [phase EXCEPT ![r] = p]
    BY <2>1 DEF Becomes, IInv, TypeOK
  <2>3. active' \in 0 .. ActiveRequests
    BY <1>2, <1>4, <2>1, FS_CardinalityType, LimitsAssumption DEF IInv, TypeOK, LimitsAssumption
  <2>4. TypeOK'
    BY <2>1, <2>2, <2>3 DEF IInv, TypeOK
  <2>5. SlotsAccounted'
    BY <1>4, <2>1, <2>2 DEF IInv, TypeOK, SlotsAccounted
  <2>6. waiting' = {q \in Requests : phase'[q] = "waiting"}
    BY <1>3, <2>1, <2>2 DEF IInv, TypeOK, QueueIsWaiters
  <2>7. (waiting = {queued[i] : i \in DOMAIN queued})'
    BY <2>1 DEF IInv, QueueIsWaiters
  <2>8. (\A i, j \in DOMAIN queued : queued[i] = queued[j] => i = j)'
    BY <2>1 DEF IInv, QueueIsWaiters
  <2>9. QED
    BY <1>5, <2>1, <2>4, <2>5, <2>6, <2>7, <2>8 DEF IInv, QueueIsWaiters, WorkConserving
<1>6. CASE queued # <<>>
  <2> DEFINE w == queued[1]
  <2>1. /\ held' = (held \ {r}) \cup {w} /\ waiting' = waiting \ {w}
        /\ queued' = Splice(queued, 1) /\ active' = active
    BY <1>6 DEF FreeSlot
  <2>2. 1 \in DOMAIN queued /\ w \in waiting
    BY <1>1, <1>6 DEF Entries
  <2>3. /\ queued' \in [1 .. Len(queued') -> Requests]
        /\ Len(queued') = Len(queued) - 1
        /\ Entries(queued') = waiting \ {w}
        /\ Distinct(queued')
    BY <1>1, <2>1, <2>2, SpliceFacts
  <2> HIDE DEF w
  <2>4. w \in Requests /\ w \notin held /\ w # r
    BY <1>3, <2>2 DEF IInv, TypeOK
  <2>5. held' \ held = {w}
    BY <2>1, <2>4
  <2>6. phase' = [phase EXCEPT ![r] = p, ![w] = "handled"]
    BY <2>4, <2>5 DEF Becomes, IInv, TypeOK
  <2>7. Cardinality(held') = active
    <3>1. Cardinality((held \ {r}) \cup {w}) = Cardinality(held \ {r}) + 1
      BY <1>4, <2>4, FS_AddElement
    <3>2. QED
      BY <1>2, <1>4, <2>1, <3>1
  <2>8. TypeOK'
    BY <1>1, <2>1, <2>2, <2>3, <2>4, <2>6, LimitsAssumption DEF IInv, TypeOK, LimitsAssumption, Phases
  <2>9. SlotsAccounted'
    BY <2>1, <2>4, <2>6, <2>7 DEF IInv, TypeOK, SlotsAccounted
  <2>10. QueueIsWaiters'
    BY <1>3, <2>1, <2>2, <2>3, <2>4, <2>6 DEF IInv, TypeOK, QueueIsWaiters, Entries, Distinct
  <2>11. WorkConserving'
    BY <1>6, <2>1 DEF IInv, WorkConserving
  <2>12. QED
    BY <2>8, <2>9, <2>10, <2>11 DEF IInv
<1>7. QED
  BY <1>5, <1>6

(* release(), of a waiter, a slot or nothing.                              *)
LEMMA ReleaseKeeps ==
  ASSUME IInv, NEW r \in Requests, Release(r),
         NEW p \in Phases \ {"waiting", "handled"}, Becomes(r, p)
  PROVE  IInv'
<1>1. CASE r \in waiting /\ Remove(r) /\ UNCHANGED <<active, held>>
  <2>1. phase' = [phase EXCEPT ![r] = p]
    BY <1>1 DEF Becomes, IInv, TypeOK
  <2>2. QED
    BY <1>1, <2>1, RemoveKeeps
<1>2. CASE r \notin waiting /\ r \in held /\ FreeSlot(r)
  BY <1>2, FreeSlotKeeps
<1>3. CASE r \notin waiting /\ r \notin held /\ UNCHANGED gate
  <2>1. phase' = [phase EXCEPT ![r] = p]
    BY <1>3 DEF Becomes, IInv, TypeOK, gate
  <2>2. QED
    BY <1>3, <2>1, BystanderKeeps
<1>4. QED
  BY <1>1, <1>2, <1>3 DEF Release

(* acquire(): a slot, a place in the queue, or a refusal.                  *)
LEMMA ArriveKeeps ==
  ASSUME IInv, NEW r \in Requests, Arrive(r)
  PROVE  IInv'
<1>1. /\ queued \in Seq(Requests) /\ Len(queued) \in Nat /\ DOMAIN queued = 1 .. Len(queued)
      /\ phase[r] = "absent" /\ r \notin held /\ r \notin waiting
  BY QueueType DEF Arrive, IInv, SlotsAccounted, QueueIsWaiters
<1>2. CASE Enter(r)
  <2>1. IsFiniteSet(held) /\ active = Cardinality(held)
    BY FS_Subset, LimitsAssumption DEF IInv, TypeOK, SlotsAccounted, LimitsAssumption
  <2>2. Cardinality(held') = active + 1
    BY <1>1, <1>2, <2>1, FS_AddElement DEF Enter
  <2>3. queued = <<>>
    BY <1>2, LimitsAssumption DEF Enter, IInv, TypeOK, WorkConserving, LimitsAssumption
  <2>4. TypeOK'
    BY <1>2, LimitsAssumption DEF Enter, IInv, TypeOK, LimitsAssumption, Phases
  <2>5. SlotsAccounted'
    BY <1>1, <1>2, <2>1, <2>2 DEF Enter, IInv, TypeOK, SlotsAccounted
  <2>6. UNCHANGED <<queued, waiting>>
    BY <1>2 DEF Enter
  <2>7. waiting' = {q \in Requests : phase'[q] = "waiting"}
    BY <1>1, <1>2 DEF Enter, IInv, TypeOK, QueueIsWaiters
  <2>8. (waiting = {queued[i] : i \in DOMAIN queued})'
    BY <2>6 DEF IInv, QueueIsWaiters
  <2>9. (\A i, j \in DOMAIN queued : queued[i] = queued[j] => i = j)'
    BY <2>6 DEF IInv, QueueIsWaiters
  <2>10. QED
    BY <2>3, <2>4, <2>5, <2>6, <2>7, <2>8, <2>9 DEF IInv, QueueIsWaiters, WorkConserving
<1>3. CASE Wait(r)
  <2> DEFINE n == Len(queued)
  <2>1. /\ queued' \in Seq(Requests) /\ Len(queued') = n + 1
        /\ \A i \in 1 .. n : queued'[i] = queued[i]
        /\ queued'[n + 1] = r
    BY <1>1, <1>3, AppendProperties DEF Wait
  <2>2. DOMAIN queued' = 1 .. n + 1 /\ queued' \in [1 .. Len(queued') -> Requests]
    BY <2>1, LenProperties
  <2>3. TypeOK'
    BY <1>1, <1>3, <2>1, <2>2, LimitsAssumption DEF Wait, IInv, TypeOK, LimitsAssumption, Phases
  <2>4. SlotsAccounted'
    BY <1>1, <1>3 DEF Wait, IInv, TypeOK, SlotsAccounted
  <2>5. \A i \in 1 .. n : queued[i] \in waiting
    BY <1>1 DEF IInv, QueueIsWaiters
  <2>6. waiting' = {queued'[i] : i \in DOMAIN queued'}
    <3>1. waiting' = waiting \cup {r} /\ waiting = {queued[i] : i \in 1 .. n}
      BY <1>1, <1>3 DEF Wait, IInv, QueueIsWaiters
    <3> HIDE DEF n
    <3>2. \A x \in waiting' : \E i \in 1 .. n + 1 : x = queued'[i]
      <4> TAKE x \in waiting'
      <4>1. CASE x = r
        BY <1>1, <2>1, <4>1 DEF n
      <4>2. CASE x # r
        BY <1>1, <2>1, <3>1, <4>2 DEF n
      <4>3. QED
        BY <4>1, <4>2
    <3>3. \A i \in 1 .. n + 1 : queued'[i] \in waiting'
      BY <1>1, <2>1, <2>5, <3>1 DEF n
    <3>4. QED
      BY <2>2, <3>2, <3>3
  <2>7. \A i, j \in DOMAIN queued' : queued'[i] = queued'[j] => i = j
    BY <1>1, <2>1, <2>2, <2>5 DEF IInv, QueueIsWaiters
  <2>8. waiting' = {q \in Requests : phase'[q] = "waiting"}
    BY <1>3 DEF Wait, IInv, TypeOK, QueueIsWaiters
  <2>9. QueueIsWaiters'
    BY <2>6, <2>7, <2>8 DEF QueueIsWaiters
  <2>10. WorkConserving'
    BY <1>3, LimitsAssumption DEF Wait, IInv, TypeOK, WorkConserving, LimitsAssumption
  <2>11. QED
    BY <2>3, <2>4, <2>9, <2>10 DEF IInv
<1>4. CASE Overflow(r)
  BY <1>1, <1>4, BystanderKeeps DEF Overflow, Phases
<1>5. QED
  BY <1>2, <1>3, <1>4 DEF Arrive

(* acquire, release, a timeout and the end of a handler keep slots, queue  *)
(* and requests in agreement.                                              *)
THEOREM NextIInv == IInv /\ [Next]_vars => IInv'
<1> SUFFICES ASSUME IInv, [Next]_vars PROVE IInv'
  OBVIOUS
<1>1. CASE UNCHANGED vars
  <2>1. UNCHANGED <<active, held, queued, waiting, phase>>
    BY <1>1 DEF vars, gate
  <2>2. TypeOK' /\ SlotsAccounted' /\ WorkConserving'
    BY <2>1 DEF IInv, TypeOK, SlotsAccounted, WorkConserving
  <2>3. (waiting = {queued[i] : i \in DOMAIN queued})'
    BY <2>1 DEF IInv, QueueIsWaiters
  <2>4. (\A i, j \in DOMAIN queued : queued[i] = queued[j] => i = j)'
    BY <2>1 DEF IInv, QueueIsWaiters
  <2>5. (waiting = {q \in Requests : phase[q] = "waiting"})'
    BY <2>1 DEF IInv, QueueIsWaiters
  <2>6. QED
    BY <2>2, <2>3, <2>4, <2>5 DEF IInv, QueueIsWaiters
<1>2. ASSUME NEW r \in Requests, RejectOrigin(r) PROVE IInv'
  <2>1. phase[r] = "absent" /\ r \notin held /\ r \notin waiting
    BY <1>2 DEF RejectOrigin, IInv, SlotsAccounted, QueueIsWaiters
  <2>2. QED
    BY <1>2, <2>1, BystanderKeeps DEF RejectOrigin, Phases
<1>3. ASSUME NEW r \in Requests, Timeout(r) PROVE IInv'
  BY <1>3, RemoveKeeps DEF Timeout, Phases
<1>4. ASSUME NEW r \in Requests, Respond(r) PROVE IInv'
  BY <1>4, ReleaseKeeps DEF Respond, Phases
<1>5. ASSUME NEW r \in Requests, Disconnect(r) PROVE IInv'
  BY <1>5, ReleaseKeeps DEF Disconnect, Phases
<1>6. ASSUME NEW r \in Requests, FinishOrphan(r) PROVE IInv'
  BY <1>6, ReleaseKeeps DEF FinishOrphan, Phases
<1>7. QED
  BY <1>1, <1>2, <1>3, <1>4, <1>5, <1>6, ArriveKeeps DEF Next

----------------------------------------------------------------------------
(* The inductive invariant of the gate.                                    *)
THEOREM Invariance == Spec => []IInv
BY InitIInv, NextIInv, PTL DEF Spec

(* The limits are respected: the slots and the length of the queue.        *)
THEOREM LimitsRespected == Spec => []TypeOK
<1>1. IInv => TypeOK
  BY DEF IInv
<1>2. QED
  BY <1>1, Invariance, PTL

(* release(), called by two hooks for every request, loses no slot and     *)
(* frees none twice.                                                       *)
THEOREM NoSlotLost == Spec => []SlotsAccounted
<1>1. IInv => SlotsAccounted
  BY DEF IInv
<1>2. QED
  BY <1>1, Invariance, PTL

(* The queue of waiters and the map of waiters agree.                      *)
THEOREM QueueHoldsTheWaiters == Spec => []QueueIsWaiters
<1>1. IInv => QueueIsWaiters
  BY DEF IInv
<1>2. QED
  BY <1>1, Invariance, PTL

(* Nobody waits while a slot is free.                                      *)
THEOREM NoIdleSlot == Spec => []WorkConserving
<1>1. IInv => WorkConserving
  BY DEF IInv
<1>2. QED
  BY <1>1, Invariance, PTL

(* acquire() and release() give slots in the order of arrival.             *)
THEOREM ServedInOrder == Spec => FirstComeFirstServed
<1> DEFINE Ordered == \A r \in held' \ held : IF r \in waiting THEN queued[1] = r ELSE queued = <<>>
<1>1. ASSUME IInv, [Next]_vars PROVE Ordered \/ UNCHANGED vars
  <2>1. CASE UNCHANGED vars
    BY <2>1
  <2>2. ASSUME NEW r \in Requests, Release(r) PROVE Ordered
    <3>1. CASE queued = <<>>
      BY <2>2, <3>1 DEF Release, FreeSlot, gate
    <3>2. CASE queued # <<>>
      <4>1. queued[1] \in waiting
        BY <1>1, <3>2, QueueType DEF IInv, QueueIsWaiters
      <4>2. QED
        BY <2>2, <3>2, <4>1 DEF Release, FreeSlot, gate
    <3>3. QED
      BY <3>1, <3>2
  <2>3. ASSUME NEW r \in Requests, Arrive(r) PROVE Ordered
    <3>1. CASE Enter(r)
      BY <1>1, <2>3, <3>1, LimitsAssumption
      DEF Arrive, Enter, IInv, TypeOK, QueueIsWaiters, WorkConserving, LimitsAssumption
    <3>2. QED
      BY <2>3, <3>1 DEF Arrive, Wait, Overflow, gate
  <2>4. ASSUME NEW r \in Requests, RejectOrigin(r) \/ Timeout(r) PROVE Ordered
    BY <2>4 DEF RejectOrigin, Timeout, gate
  <2>5. QED
    BY <1>1, <2>1, <2>2, <2>3, <2>4 DEF Next, Respond, Disconnect, FinishOrphan
<1>2. QED
  BY <1>1, Invariance, PTL DEF Spec, FirstComeFirstServed
=============================================================================
