---------------------------- MODULE RequestGate ----------------------------
(***************************************************************************)
(* requestGate() of apps/api/src/common.ts, the admission control in front *)
(* of every route of every service, with the three hooks that call it: the *)
(* onRequest hook (Arrive), the onResponse hook (Respond) and the 'close'  *)
(* event of the response (Disconnect), which follows every response and    *)
(* also comes alone, when the client goes away.                            *)
(*                                                                         *)
(* JavaScript runs one callback at a time, so every action is one callback *)
(* with the promise continuations it resolves: a promoted request enters   *)
(* its handler before the next callback.                                   *)
(***************************************************************************)
EXTENDS Naturals, Sequences, FiniteSets

CONSTANTS
  Requests,        \* request objects; an absent one may arrive again
  ActiveRequests,  \* serviceResourceLimits.activeRequests
  QueuedRequests   \* serviceResourceLimits.queuedRequests

ASSUME LimitsAssumption ==
  /\ ActiveRequests \in Nat \ {0}
  /\ QueuedRequests \in Nat
  /\ IsFiniteSet(Requests)

VARIABLES
  active,   \* slots in use
  held,     \* requests that hold a slot
  queued,   \* waiters, first come first
  waiting,  \* requests that have a waiter, its timer and its promise
  phase     \* where each request is, see Phases

gate == <<active, held, queued, waiting>>
vars == <<gate, phase>>

(* "handled": its handler runs.  "orphaned": its handler runs although the *)
(* client is gone.  "answered", "refused": the response is on its way, the *)
(* 'close' event is still to come.                                         *)
Phases == {"absent", "waiting", "handled", "orphaned", "answered", "refused"}

Init ==
  /\ active = 0
  /\ held = {}
  /\ queued = <<>>
  /\ waiting = {}
  /\ phase = [r \in Requests |-> "absent"]

(* r goes to phase p; a request that was just promoted starts its handler. *)
Becomes(r, p) ==
  phase' = [q \in Requests |-> IF q = r THEN p
                               ELSE IF q \in held' \ held THEN "handled"
                               ELSE phase[q]]

Splice(q, i) == [k \in 1 .. Len(q) - 1 |-> IF k < i THEN q[k] ELSE q[k + 1]]

(* Mutant: the waiter stays in the queue. *)
RemoveForgetsQueue(r) ==
  /\ waiting' = waiting \ {r}
  /\ UNCHANGED queued

Remove(r) ==
  /\ waiting' = waiting \ {r}
  /\ \/ \E i \in DOMAIN queued : queued[i] = r /\ queued' = Splice(queued, i)
     \/ /\ \A i \in DOMAIN queued : queued[i] # r
        /\ UNCHANGED queued

(* Mutant: nobody is promoted. *)
PromoteNobody(r) ==
  /\ active' = active - 1
  /\ held' = held \ {r}
  /\ UNCHANGED <<queued, waiting>>

(* Mutant: the youngest waiter is promoted. *)
PromoteYoungest(r) ==
  \/ /\ queued = <<>>
     /\ active' = active - 1
     /\ held' = held \ {r}
     /\ UNCHANGED <<queued, waiting>>
  \/ /\ queued # <<>>
     /\ held' = (held \ {r}) \cup {queued[Len(queued)]}
     /\ waiting' = waiting \ {queued[Len(queued)]}
     /\ queued' = Splice(queued, Len(queued))
     /\ UNCHANGED active

(* r gives its slot up; the oldest waiter, if any, takes it.               *)
FreeSlot(r) ==
  \/ /\ queued = <<>>
     /\ active' = active - 1
     /\ held' = held \ {r}
     /\ UNCHANGED <<queued, waiting>>
  \/ /\ queued # <<>>
     /\ held' = (held \ {r}) \cup {queued[1]}
     /\ waiting' = waiting \ {queued[1]}
     /\ queued' = Splice(queued, 1)
     /\ UNCHANGED active

(* Mutant: a second release frees a second slot. *)
ReleaseTwice(r) ==
  \/ r \in waiting /\ Remove(r) /\ UNCHANGED <<active, held>>
  \/ r \notin waiting /\ active > 0 /\ FreeSlot(r)
  \/ r \notin waiting /\ active = 0 /\ UNCHANGED gate

(* release(): of a waiter, of a slot, or of nothing.                       *)
Release(r) ==
  \/ r \in waiting /\ Remove(r) /\ UNCHANGED <<active, held>>
  \/ r \notin waiting /\ r \in held /\ FreeSlot(r)
  \/ r \notin waiting /\ r \notin held /\ UNCHANGED gate

(* Mutant: the queue is not bounded. *)
WaitUnbounded(r) ==
  /\ active >= ActiveRequests
  /\ queued' = Append(queued, r)
  /\ waiting' = waiting \cup {r}
  /\ phase' = [phase EXCEPT ![r] = "waiting"]
  /\ UNCHANGED <<active, held>>

(* acquire(), its three outcomes.                                          *)
Enter(r) ==
  /\ active < ActiveRequests
  /\ active' = active + 1
  /\ held' = held \cup {r}
  /\ phase' = [phase EXCEPT ![r] = "handled"]
  /\ UNCHANGED <<queued, waiting>>

Wait(r) ==
  /\ active >= ActiveRequests
  /\ Len(queued) < QueuedRequests
  /\ queued' = Append(queued, r)
  /\ waiting' = waiting \cup {r}
  /\ phase' = [phase EXCEPT ![r] = "waiting"]
  /\ UNCHANGED <<active, held>>

Overflow(r) ==
  /\ active >= ActiveRequests
  /\ Len(queued) >= QueuedRequests
  /\ phase' = [phase EXCEPT ![r] = "refused"]
  /\ UNCHANGED gate

Arrive(r) ==
  /\ phase[r] = "absent"
  /\ Enter(r) \/ Wait(r) \/ Overflow(r)

(* The onRequest hook refuses a foreign origin before acquire().           *)
RejectOrigin(r) ==
  /\ phase[r] = "absent"
  /\ phase' = [phase EXCEPT ![r] = "refused"]
  /\ UNCHANGED gate

(* The timer of a waiter, queueWaitMs after it was queued.                 *)
Timeout(r) ==
  /\ r \in waiting
  /\ Remove(r)
  /\ phase' = [phase EXCEPT ![r] = "refused"]
  /\ UNCHANGED <<active, held>>

(* Mutant: the slot is freed by the 'close' event only. *)
RespondKeepsSlot(r) ==
  /\ phase[r] = "handled"
  /\ UNCHANGED gate
  /\ Becomes(r, "answered")

(* The handler has finished and the response is sent: onResponse.          *)
Respond(r) ==
  /\ phase[r] = "handled"
  /\ Release(r)
  /\ Becomes(r, "answered")

(* 'close': after a response, or because the client went away.             *)
Disconnect(r) ==
  /\ phase[r] \in {"waiting", "handled", "answered", "refused"}
  /\ Release(r)
  /\ Becomes(r, IF phase[r] = "handled" THEN "orphaned" ELSE "absent")

(* The handler of a client that went away finishes.                        *)
FinishOrphan(r) ==
  /\ phase[r] = "orphaned"
  /\ Release(r)
  /\ Becomes(r, "absent")

Next == \E r \in Requests :
  \/ Arrive(r)
  \/ RejectOrigin(r)
  \/ Timeout(r)
  \/ Respond(r)
  \/ Disconnect(r)
  \/ FinishOrphan(r)

(* A handler ends, since each call it makes has a time limit.  Clients owe *)
(* nothing, and the timers, which do fire, are not needed.                 *)
Fairness == \A r \in Requests : WF_vars(Respond(r))

Spec == Init /\ [][Next]_vars /\ Fairness

----------------------------------------------------------------------------
(* Types, with the bound on the queue.                                     *)
TypeOK ==
  /\ active \in 0 .. ActiveRequests
  /\ held \subseteq Requests
  /\ waiting \subseteq Requests
  /\ queued \in [1 .. Len(queued) -> Requests] /\ Len(queued) \in 0 .. QueuedRequests
  /\ phase \in [Requests -> Phases]

(* No slot is lost and none is freed twice, although every request is      *)
(* released by two hooks: the count is the number of holders, and the      *)
(* holders are the requests that are handled for a client that is there.   *)
SlotsAccounted ==
  /\ active = Cardinality(held)
  /\ held = {r \in Requests : phase[r] = "handled"}

(* A waiter is in the queue once, and nobody else is.                      *)
QueueIsWaiters ==
  /\ waiting = {queued[i] : i \in DOMAIN queued}
  /\ waiting = {r \in Requests : phase[r] = "waiting"}
  /\ \A i, j \in DOMAIN queued : queued[i] = queued[j] => i = j

(* Nobody waits while a slot is free.                                      *)
WorkConserving == queued # <<>> => active = ActiveRequests

(* A request that gets a slot is the oldest waiter, or nobody waited.      *)
FirstComeFirstServed ==
  [][\A r \in held' \ held : IF r \in waiting THEN queued[1] = r ELSE queued = <<>>]_vars

(* A waiter leaves the queue in the end, whatever clients do, and even if  *)
(* no timer fires: every handler that ends moves the queue on.             *)
NobodyWaitsForever == \A r \in Requests : r \in waiting ~> r \notin waiting

(* At most activeRequests handlers run (docs/LOAD_TEST.md).                *)
HandlersBounded ==
  Cardinality({r \in Requests : phase[r] \in {"handled", "orphaned"}}) <= ActiveRequests
=============================================================================
