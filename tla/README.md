# OpenVote (vidkrytyi-holos): a verification project

TLA+ modules of the OpenVote services, TLC configurations that check them on
small instances, and TLAPS proofs of the properties that matter most for every
value of the constants. All source paths below are relative to the repository.

    cd tla
    tlc -workers 2 -config BallotBox.cfg MCBallotService
    tlc -workers 2 -config RequestGate.cfg RequestGate
    tlc -workers 2 -config Publication.cfg MCPublication
    tlc -workers 2 -config Demand.cfg MCDemand
    tlc -workers 2 -config Provisioning.cfg MCProvisioning
    tlc -workers 2 -config Auditors.cfg MCAuditors
    tlc -workers 2 -config Runtime.cfg MCRuntime
    tlapm BallotServiceProofs.tla
    tlapm RequestGateProofs.tla
    tlapm SequenceLemmas.tla
    tlapm PublicationProofs.tla
    tlapm DemandProofs.tla
    tlapm ProvisioningProofs.tla
    tlapm AuditorsProofs.tla
    tlapm RuntimeProofs.tla

## 1. Inventory: the system

OpenVote runs advisory polls with encrypted ballots. Three Fastify services
share a PostgreSQL server but no schema; each has its own process, pool and
credentials, and they call one another over HTTP on the loopback interface. The
Belenios 3.3.0 tools do the cryptography behind a bridge process.

| Component (source) | State it keeps | Operations | Talks to |
|---|---|---|---|
| Ballot service (`apps/api/src/ballot.ts`) | tables elections (state, archive, final archive, result), ballots, shares, checkpoints | register, vote, tracker, close, final, share, tally, exceptional state, audit | core bridge; called by voters, management, trustees, observers |
| Checkpoints (`packages/domain/src/checkpoints.ts`, `observer.ts`) | the signed, hash-chained history of one election | verifyChain, verifyFinal, observerChain, verifyPublicAudit | written by the ballot service, verified by trustees and observers |
| Management service (`apps/api/src/management.ts`) | tables polls (a JSON document), events, appeals | drafts, edit, submit, review (approve or reject), close, demo-tally, appeals, incident | identity, ballot service, core ceremony, the tally script |
| Provisioning (`apps/api/src/provisioning.ts`) | write-once files under `.runtime/provisioning`, trustee key files | provision, writeOnce | core ceremony; used by an approval |
| Identity service (`apps/api/src/identity.ts`, `provider.ts`, `identity-provider.ts`) | authentication transactions, persons, sessions, rosters, voting credentials | start, finish, logout, introspect, roster, register-roster, credentials | identity provider |
| Request gate (`apps/api/src/common.ts`) | active slots, a queue with timers | acquire, release, promote, remove | in front of every route of every service |
| Demand polls (`apps/api/src/demand.ts`, `demand-chat-provider.ts`) | responses, one per participant; chat limits | snapshot, respond, chat | chat provider |
| Trustee client, tally (`scripts/trustee-client.ts`, `trustee.ts`, `tally.ts`) | `final.sha256` and `share.jsons` on the trustee's disk | verify, bind, decrypt, send | ballot service, core |
| Observer, recovery (`scripts/observer*.ts`, `recovery-verify.ts`) | the last observation on disk | inspect, compare, verify a restored database | the public routes |
| Runtime (`scripts/render-start.ts`, `runtime-config.ts`, `migrate.ts`) | the files of secrets, an initialisation marker, schema_migrations, child processes | initialise, supervise | everything |
| Web client (`apps/web/src`) | the voter's saved receipt | fetch the manifest, encrypt, post, check the receipt | ballot, management and identity services |
| Core bridge (`tools/bridge.py`, `tools/reference.py`) | none; a temporary directory per request | setup, verify, accept, close, verify-share, finalize | Belenios |

### What is hard

* **Long calls inside transactions.** A handler of the ballot service locks the
  row of the election, calls the core for up to 90 seconds and commits. The
  clock and other requests go on meanwhile. Only `SELECT ... FOR UPDATE` keeps
  the archive that is written from being older than the one that is replaced.
* **Reads without a transaction.** `/internal/final` and `/audit` read the row
  and then the checkpoints. Trustees and observers act on the pair.
* **Two databases, one fact.** Management changes its document after the ballot
  service has committed, with no transaction over both, and writes back a
  document it read before the call (`/close`, `/demo-tally`, `/incident`).
  A lost answer, a crash or a concurrent request between the two leaves them
  apart.
* **Retries of what was done already.** Ballots, shares, registrations,
  approvals, responses and withdrawals are all sent again after a lost answer.
* **Write-once files.** Provisioning, trustees and the runtime write files once
  and read them back after a crash, which may have left a part of one.
* **Requests without their sender.** A page or a program gives up after a time
  limit; its request goes on in the service, beside the one that is sent next.
* **Lost data.** A database may be restored from an old backup, a disk may be
  lost, a container started over databases that are not its own.
* **Limits.** The request gate, the publication quotas, the chat limits.

### What makes each component correct

* Ballot service: the table and the archive agree; one ballot per credential; a
  receipt is never orphaned; the closed set never changes; nothing is decrypted
  before the deadline or below the threshold; one result; a public history that
  every observer accepts.
* Checkpoints: what a trustee or an observer accepts is unique.
* Management: the public document and the election never contradict each other
  for good; a withdrawn poll stays withdrawn; a removed poll stays removed.
* Provisioning: an approval that failed half way can be completed; no two
  manifests for one poll.
* Identity: one person, one credential per poll; revocation is final; the roster
  of a poll is what was approved.
* Request gate: never more than eight at work and sixteen waiting; every
  request that waits is answered; no slot is lost.
* Demand polls: the first response of a participant is final.
* Trustee: one key decrypts at most one final set, also across crashes.
* Observer: a rollback, a fork or a split view is detected.

The file `PROJECT.json` lists every component with its status, every hazard at
its source line with the properties that cover it, and for each definition the
lines it stands for.

## 2. Structure

A module is written to be proved about as well as checked: parameters are
CONSTANTS with named assumptions, one action per operation, no RECURSIVE
operator.

| Module | Component | Runs | Proofs |
|---|---|---|---|
| Checkpoints | chain and its four verifiers (pure operators) | through those that use it | |
| Election | abstract specification of the ballot service | as a property of BallotService | BallotServiceProofs (`Implementation`) |
| BallotService | ballot service | ballot_box, ballot_publication, ballot_repeated_withdrawal | BallotServiceProofs |
| RequestGate | request gate | request_gate, request_gate_handlers | RequestGateProofs |
| Publication | management service, with Election as its remote party | publication, publication_removal, publication_completion | PublicationProofs |
| Demand | demand poll, its page, chat limiter | demand | DemandProofs, SequenceLemmas |
| Identity | identity service, providers, signing-in page | through Provisioning | ProvisioningProofs |
| Provisioning | the ceremony of an approval, over Identity | provisioning | ProvisioningProofs |
| Hosting | one election on its host, with backups, over Election and Checkpoints | through Auditors | AuditorsProofs |
| Trustee | the trustee's program, over Hosting | through Auditors | AuditorsProofs |
| Observer | the observer's programs, over Hosting | through Auditors | AuditorsProofs |
| Auditors | composition of Hosting, Trustee and Observer | auditors | AuditorsProofs |
| Runtime | initialisation, migrations, supervision | runtime | RuntimeProofs |

`Election` is the joint. BallotService is shown to implement it, by TLC and by
proof; Publication and Hosting take it as their remote party, by INSTANCE and by
EXTENDS, so what they show of management, trustees and observers rests on the
promises of the service and not on its details. Provisioning extends Identity:
the approval changes the tables people sign in against.

What could follow: the quotas of the management service over several polls of
one author, and the voter's page with its saved receipt as a client of
BallotService.

## 3. What the modules say

### The ballot service

`BallotService` models one election. Elections share no row and no lock, so one
is enough. `setup`, `state`, `archive`, `finalArchive` and `result` are the
columns of its row; `ballots`, `shares` and `checkpoints` are the other tables;
`pc`, `arg` and `row` are, per request in progress, where it waits, what it was
sent and the row it read. `acked`, `finals` and `audits` record what clients
have received: no action reads them, the properties do.

* A handler that calls the core is two actions: `PostBallot`, `Close`, `Share`,
  `Tally` take the row (`RowFree` is the lock) and make the handler's checks;
  `AcceptCommit`, `CloseCommit`, `ShareCommit`, `TallyCommit` use the core's
  answer and commit, with the checkpoint written in the same transaction.
* `Register` is the core's verification, outside the transaction;
  `RegisterCommit` and `RegisterAgain` are the two outcomes of the transaction.
* `Cancel` and `Invalidate` are `/internal/state`, one action each: there is no
  call inside the transaction.
* `ReadFinal`/`ReturnFinal` and `ReadAudit`/`ReturnAudit` are the two queries of
  the unlocked readers.
* `ReplayBallot` and `Tracker` answer with a recorded receipt.
* `Abort` ends any request without an effect: a refusal or a timeout of the
  core, a failed statement, a lost connection, a dead process. PostgreSQL rolls
  the transaction back and releases the row.
* The answer to a voter may be lost: `AcceptCommit` leaves `acked` as it is or
  adds the ballot.

Abstractions: a ballot is a value with a credential; an archive is the set of
its ballots and its stage; a digest is a free constructor; a signature is "the
service wrote it"; the result is the number of votes (the counts of the three
answers are the core's). The core's refusals of malformed input are an `Abort`.

`Election` says what a client may rely on: a lifecycle, a set of ballots that
grows until the close, and one announcement per change of the lifecycle. The
refinement mapping reads the phase from `state`, the history from the
checkpoints and the outcome from `result`; requests in progress, the archive and
the shares are invisible. So is the registered setup: that a second registration
never replaces it is part of `RecordsOnlyGrow`.

### The request gate

`RequestGate` models `requestGate()` and the three hooks that call it. `active`,
`held`, `queued` and `waiting` are the closure's variables of the same names;
`phase` says where each request is. JavaScript runs one callback at a time, so an
action is a callback together with the promise continuation it resolves: a
promoted request enters its handler before the next callback. `Arrive` is the
onRequest hook with the three outcomes of `acquire` (`Enter`, `Wait`,
`Overflow`); `RejectOrigin` is its refusal before the gate; `Timeout` the timer
of a waiter; `Respond` the onResponse hook; `Disconnect` the 'close' event, which
follows a response or comes alone; `FinishOrphan` the end of a handler whose
client is gone. Both `Respond` and `Disconnect` call `Release`. The wall-clock
length of the wait is left out: a timer may fire whenever a waiter exists.

### Management and the election

`Publication` models one poll. `doc` is the JSON document in the polls table,
abstracted to its state, the version of its content, the version its election
was made for (`linked`: cryptoId and manifestRaw) and whether it is a tombstone.
`provisioned` is the content that the write-once files of the key ceremony
belong to, `registered` the content of the registered manifest. `pc`, `read` and `out` are, per moderator request, where it is, the
document it found and the one it is about to store. The election is the module
`Election`, by INSTANCE: management sees the ballot service only through its
answers, and `BallotServiceProofs` proves that the service's steps are those.

* `Edit`, `Submit`, `Reject`, `Reopen` are one transaction each.
* An approval is `Approve` (the checks and the ceremony, holding the row),
  `ApproveRegister` (the ballot service's registration, idempotent) and
  `ApproveCommit`, then `ApproveClean`, which removes the ceremony's files after
  the commit; `ApproveAgain` is a repeated approval. `ApproveTimeout` gives up waiting while the registration may
  still arrive.
* `CloseFind`, `CloseCall`, `Store` are `/close`; `TallyFind`, `TallyMark`,
  `TallyScript`, `TallyCall`, `Store` are `/demo-tally`; `IncidentFind`,
  `IncidentCall`, `Store` are `/incident`. No lock is held between them, and
  `Store` writes the whole document that was found.
* `Current` is `currentPoll`: the state the clock implies, which the handlers
  store back.
* `Abort` is every early end: a refusal, an answer lost, a dead process. Nothing
  stored so far is undone, since these handlers have no transaction around
  their calls.

### The demand poll

`Demand` models `demand.ts` with its page. `responses` is the table,
`asked`, `askedAll` and `active` are the process's own lists and counter, which a
restart empties; `jar` is the cookie of each browser, `tab` what each page shows;
`req` holds the requests in progress, which a page may leave (`GiveUp`,
`Reload`): its `tab` is then `Nil` and its effect the same. `Load`, `ServeLoad`,
`ReceiveLoad` are a GET; `Submit`, then `Insert` and `Commit`, or `Confirm`, or
`Refuse`, then `ReceiveReceipt` or `ReceiveError` are a POST. Insert and Commit
are two actions, because the counts the POST answers with are read between them;
the primary key makes a second insert of the credential wait. `ClearCookie` lets a
browser come back under another credential with its tabs still open. `Ask` and
`AskRefused` are the admission of the chat, one callback each, and `Answered` is
its end. A credential is not stored before an answer is, so `issued` is history.
Times are ticks of a clock.

### Signing in and provisioning

`Identity` models `/v1/auth/start`, `/v1/auth/finish`, the session, the
credentials and the two synthetic providers, and the page that calls them.
`finish` is `AskProvider`, `Attest`, then one of `Mint`, `FinishAgain`,
`Conflict`, `Expired`, then `SignIn`: the attempt is read, the provider asked
outside any transaction, and the attempt read again under its lock. `Control`
changes what a provider does in between. The page keeps an attempt over its
retries and drops it when another person is chosen; `Orphaned` leaves a request
whose page is gone.

`Provisioning` adds one poll's approval, a sequence of steps in four places:
`Approve` (the roster), `WriteInput` and `Create` or `Reuse` (the ceremony's
files), `HandOver` (each trustee's files), `RegisterRoster`, `RegisterBallot`,
`Publish`, `RemoveFiles`. `Abandon` ends it anywhere and may leave a file half
written; `ApproveAgain` is the review of a poll that is approved already. The row
of the poll is held throughout, so there is one approval at a time.

### The host, its trustees and its observers

`Hosting` is `Election` on a host that may lose its database: `Backup` and
`Restore` move the whole database (phase, ballots, history, shares), `Show` and
`Hide` are what management shows of it. The signing key survives, so a restored service
signs a valid history, perhaps another one than before. A signature is
deterministic, so a history stands for its envelopes, and `Envelopes`, `FinalSet`
and `Audit` make what the verifiers of `Checkpoints` read. Only whole transactions
of the ballot service matter here, which is what `Implementation` allows.

`Trustee` is one run of `trustee.ts`: fetch, read `final.sha256`, verify, bind,
read or make the share, store, deliver. The final set is fetched as
`/internal/final` reads it, the row (`Fetch`) and then the checkpoints
(`FetchCheckpoints`), with no transaction, so a run may hold a set of two states
(`Fetched`), which `verifyFinal` refuses in `Verify`. Both files are created empty
and filled in a second step; `Stop` kills the run between any two.

`Observer` is the five programs over `observePublic()`. Each reads its
configuration first and once (`ReadConfig`, in `Start` or `Configure`); init and
check then take the lock (`Lock`), check and recovery-verify read the observation
file (`ReadFile`), and others may have saved in between, with a configuration of
more receipts. They read the chain, the poll, each receipt's tracker, the two
halves of `/audit` and the result in separate steps (`ReadChain`, `ReadPoll`,
`AskTracker`, `ReadAudit`, `ReadAuditCheckpoints`, `ReadResult`), compare in
`Passes` and `Alarm`, and write in `SaveCheck`, `SaveInit`, `Approve` or
`SaveCopy`. `Forked` and `Removed` are what they hold against their file: its
history, and its receipts (`OBSERVED_RECEIPT_REMOVED_FROM_CONFIG`), which the
configuration may have lost since (`Forget`) or may not have had yet when it was
read. A lost receipt is a refusal and not an alarm of the service. `locked` is the
lock directory, which a killed program leaves behind.

### The runtime

`Runtime` is `render-start.ts`. `Create`, `WriteFile`, `CreateTable`, `Apply`,
`AlreadyApplied`, `Migrated`, `WriteMarker` are a first initialisation, `Reuse`
with the migrations a later one, `Refuse` all others; then `StartStage`,
`Listen`, `Healthy` start the children stage by stage, and `Unready`, `Signal`,
`UnexpectedExit`, `Stop`, `ExpectedExit`, `Stopped` stop them together. `Kill`
ends the container anywhere. `Serve` is the reason for it all: a running service
writes rows that only its own keys open or sign. Between two starts the operator
deploys another image, rebinds a role, loses the disk or databases. A database
that the operator restores with rows of other keys is left out: the code has no
means to see that, and the documents leave it to the operator. SIGTERM before the gateway is healthy
is not handled by the program, and as PID 1 it ignores it; that is why `Signal`
needs `Running`.

## 4. Runs

| Run | What it asks | Bounds |
|---|---|---|
| ballot_box | Is the box of ballots consistent and final under concurrent requests, and does the service implement `Election`? | 3 requests, 4 ballots of 3 credentials, 2 setups, 1 share value, threshold 3, window [1, 2), 3 checkpoints before withdrawals stop |
| ballot_publication | Are the final set, the audit package and the result unique, honest and never early, with readers between the commits? | 2 requests, 3 ballots, 2 setups, 2 share values per trustee, 5 checkpoints |
| ballot_repeated_withdrawal | Does every observer accept every history the service writes? No (expected violation). | as above, 1 share value |
| request_gate | Are the slots accounted for, given in order of arrival, and does the queue always move on? | 5 requests, 2 slots, 2 waiters |
| request_gate_handlers | Do at most `activeRequests` handlers run? No (expected violation). | as above |
| publication | Is the public document backed by the election, and does only an overlapped request break its lifecycle? | 2 requests, 2 voters, threshold 2, window [1, 2), 2 versions, 4 announcements |
| publication_removal | Does a removed poll stay removed? No (expected violation). | as above |
| publication_completion | Does a published result reach the public document? Not if one answer is lost (expected violation). | as above, 1 request |
| demand | Are answers final, messages and counts true, and the chat's limits kept, with lost, late and repeated replies? | 2 tabs of one browser, 2 requests, 2 credentials, 2 answers; 2 questions of one credential in 2 ticks, 3 of all in 3, 1 at a time, clock to 3 |
| provisioning | Does a failing approval end in one complete election, and a sign-in in one session of the right person? | 2 persons, 1 provider, 1 page, 2 requests, 2 attempts, tokens, polls and trustees, 2 tries, clock to 1 |
| auditors | Is one final set tallied, is every alarm true, every approval sound and nothing an observer has seen lost, when backups are restored, programs overlap and configurations change? | 2 ballots, 1 trustee with 2 runs and 2 salts, 1 observer with 2 programs, 1 restore |
| runtime | Does what serves serve its own data, and do the children live and end together? | 2 database roles, 3 files, 3 stages of 4 children, 2 clusters, 3 images, 3 faults of the operator |

Why these are enough.

* Ballot service: `b1x` shares the credential of `b1`, so a second vote of one
  person races the first; three ballots and threshold 3 make both the suppressed
  and the publishable outcome reachable, one apart; the clock reaches the opening
  and the deadline while requests are under way; two setups let two registrations
  compete, in both runs; four trustees are the system's own number; two share values let a
  trustee send a different share; with five checkpoints a published election can
  be invalidated and withdrawn. `Horizon` stops the clock once nothing depends on
  it any more, and `MaxCheckpoints` only stops withdrawals, the one operation
  that can be repeated for ever.
* Request gate: five requests fill two slots and two waiters and leave one to be
  refused; a request that has left may arrive again, without end.
* Publication: two requests are what an overlap takes; two versions let a
  reopened draft differ from the content its ceremony was made for; with two
  voters and threshold 2 both outcomes of the close occur; four announcements
  are schedule, close, publication, invalidation, or withdrawals in any order.
* Demand: two requests race for one credential, from two tabs or from one that
  gave up; two credentials because a cookie can be replaced while a tab is open;
  the chat's windows both end, and its three limits are all reached. The
  constraint `OneConcern` keeps the poll and the chat apart, which share only the
  cookie and the restarts.
* Provisioning: two polls are two ceremonies, of which the second must never be
  made; two trustees let a ceremony stop between them; two requests are one that
  was given up and the next; two attempts of one page, two sessions. `OneConcern`
  lets the second request in only while the identity service is alone.
* Auditors: trustees share nothing but the service, and two quorums have a
  trustee in common, so one trustee is where two tallies would have to meet (the
  proofs are for all quorums). Two runs of it and two programs of the observer
  overlap. One restore already gives a service two histories. `OneConcern` runs
  trustees and observers one after the other, since they write nothing in common,
  and ends a behaviour at the first alarm. `Observing` bounds the observer: only
  init and check share a file, so only they overlap, and before the host is
  restored; exports are made where nothing else was, which is all they depend on;
  one ballot is enough for the host, its backup, the configuration and the file to
  differ. A configuration gains and loses its receipt while a program that has
  read it waits for the lock, so that one which started with fewer receipts than
  the file comes to hold does meet that file. There is one observer in TLC, so
  `Compare` never has two different files there: that observers of one host, who
  compare what they saved at different times, raise no false alarm is the theorem
  `AlarmsAreTrue`.
* Runtime: two roles let one database be old and the other new; three files let a
  start die between them; of the three images one adds a migration and one
  changes a migration; three faults are, for instance, a lost disk, another
  database and another image.

Requests, and the voters of `Publication`, are interchangeable and form symmetry
sets, except in the runs with a liveness property.

Fairness. The ballot service needs none: all its properties are safety. In the
gate only `Respond` is weakly fair: a handler ends, because every call it makes
has a time limit (90 seconds for another service, a statement timeout for the
database); clients and timers owe nothing. `FairSpec` of `Publication` is
generous on purpose, so that its violation cannot be blamed on laziness: a
moderator tallies again and again, and each step of that handler that is
possible infinitely often is taken (strong fairness), while `Abort` is weakly
fair, since a handler that can do nothing else ends with an error.
`Runtime` assumes that the program goes on (`Initialise`, `Supervise`). Its
queries and its waits for a child are limited in time; `nginx -t` and the first
connection of `pg.Client` are not, and that they return is assumed. It assumes
that a child told to end by SIGTERM does (`ExpectedExit`);
nothing is assumed of children that start, of those that serve, or of the
operator.

Deadlock is checked for the gate, the demand poll, the ceremony, the auditors and
the runtime. The instances of the ballot service and of `Publication` stop when
the clock has reached its bound and no operation is possible.

## 5. Where the code and its documents disagree

**A second withdrawal breaks the public history** (`HistoryVerifiable`). `/internal/state` refuses a
cancellation only for a published election, so a repeated cancellation, or a
cancellation after an invalidation, appends a checkpoint that `observerChain`
rejects for ever. Nothing in the service's own tables is damaged.
`HistoryVerifiableIfWithdrawnOnce` shows that this is the only way: as long as an
election is withdrawn at most once, the chain always verifies.

**More handlers than slots** (`HandlersBounded`). `docs/LOAD_TEST.md` and
`docs/DECISIONS.md` bound the requests at work; the 'close' listener frees the
slot of a client that went away while its handler goes on. The count of slots
itself is right (`SlotsAccounted`, proved).

**A removed poll comes back** (`RemovedStaysRemoved`). `docs/OBSERVER.md` says
that a removal replaces the public document by a tombstone. `/incident`,
`/close` and `/demo-tally` store the document they found before their calls, so
a request that overlaps the removal stores the content again.
`LifecycleUnlessStale` shows that overlapping is the only way: a handler that
stores a document nobody else has changed meanwhile never does that, nor any
other step outside the lifecycle.

**A published result that is never shown** (`PublicationCompletes`). When the answer to
`/internal/tally` is lost, every retry of `/demo-tally` fails in the tally
script, because `/internal/final` refuses a published election. With
`TallyScript` also enabled for a published election the property holds on the
same instance: the refusal is the whole cause.

## 6. Proofs

All theorems are of the form `Spec => []Invariant`, `Spec => ActionProperty` or
`Spec => AbstractSpec` (one of the last kind, `UnrestoredHostIsElection`, under
the condition that nothing is ever restored), for every value of the constants
that satisfies the assumptions named in the modules: numbers are numbers, sets
that are counted are finite, `Nil` and its like are none of the data values,
quorums intersect. Each module proves that its inductive invariant holds
initially and is kept by every action. TLC checked each of these invariants on
the small instance of its run as well.

**BallotServiceProofs.** `TypeCorrect`, `BallotBoxConsistent`,
`AcknowledgedBallotsAnnounced`, `NoEarlyDecryption`, `PublishedResultHonest`,
`FinalSetNeverChanges`, `RecordsNeverLost` and `Implementation` (every behaviour
of the service is one of `Election`). None of these is inductive: a commit writes
what was computed from a row that was read long before. `IInv` adds what makes
the commit right. `RowHeld`: at most one request is past its lock, and the row it
read is still the row. `ChecksHold`: what the handler checked before the core
call still holds at the commit (the state, the opening time, the quorum), except
`now < ClosesAt`, which may have become false, and which therefore no property
relies on. `RowConsistent`: what the columns of the row and the checkpoints say
to each other in each part of the lifecycle. `FinalSetAnnounced`: every
checkpoint but the genesis announces the final set. `OutcomeConsistent`: shares
and results exist only in the states that allow them. `TableSteps` shows that
only seven actions change a table, so the action properties and the refinement
are proved about those seven.

`ObserversAccept`, `TrusteesAcceptOneSet` and `PublicAcceptsOneAudit` are about
what the service shows to those who do not trust it. `HistoryInv` adds to `IInv`
that the chain is linked, that it follows the lifecycle but for a withdrawal
after an end (`Follows`), that "Closed" and "Published" are announced at most
once (`Once`), and that every answer holds a prefix of the chain (`Prefixes`). Two
answers that verify end with the one announcement of that kind, so they are the
same prefix.

**RequestGateProofs.** `LimitsRespected`, `NoSlotLost`, `QueueHoldsTheWaiters`,
`NoIdleSlot`, `ServedInOrder`. The invariants are inductive together: that a
release finds the slot it frees needs the queue to hold no holder, and that the
queue is never overtaken needs that nobody waits while a slot is free.

**PublicationProofs.** `PublicationTypeCorrect`, `OutcomesAreBacked`,
`ApprovedContentIsFrozen`, `LifecycleIsKept`. The outcomes of `OutcomesAreBacked`
are suppressed results, a published result, a cancellation and an invalidation; a
document is closed by the clock (`currentPoll`), which says nothing of the ballot
service. A request may store a document it
found long before, so what holds of the stored document must hold of every
document a request carries (`SoundDoc`, `RequestSound`). It goes on holding
because an election is registered once and its history only grows.
`ResultsAreCounted` relates the two services: a poll that is shown as published,
or as invalidated, was closed in time, and its result counts all its ballots and
reaches the publication threshold. It rests on `PublicationElects` (the requests
move the election by its own steps only) and on an invariant about the history,
`Counted`, which no stale document can disturb.

**DemandProofs.** `ResponsesAreFinal`, `PagesTellTheTruth`,
`PagesShowRealResults`, `ChatIsLimited` and `DemandTypeCorrect`. `PollInv` says
what each request and each page has in hand: rows that are still there, or the
row its own transaction is about to commit under a key nobody else has inserted.
That a count read before the commit is never too high afterwards needs that rows
are only added (`CountGrows`).

The chat's limit is about every window of time that has been, but the process
keeps two lists which it prunes at each question, with another window each, and
which a restart empties. `ChatInv` ties them to the history of admitted
questions: of those that are still in a window, now or at any later time, the
lists hold as many as the history (`AllCount`, `EachCounts`), so the length the
code compares with its limit is the number the property counts
(`WindowsLimited`). A restart forgets the history with the lists, which is why the
limit is one of each run of the process.

**SequenceLemmas.** Counting in sequences, for the pruning above. `Recent` is a
recursive function over the list. What it returns is proved by an induction
written out: the library's theorem that a well-founded relation has minimal
elements (`WFMin`) takes a set, not an operator, and gives `Least`, from which
`Climb` follows: a set of numbers that has 0 and with each number the next has
all up to a bound. A recursive function is unfolded in the same way: a function
that satisfies its equation is shown to exist by `Climb`, and then it is the one
`CHOOSE` means.

**ProvisioningProofs.** `AttemptOpensOneSession`, `PageSignedInAsChosen`,
`ApprovalMakesOneElection`, `CommittedApprovalIsComplete` and the types. In
Identity, sessions and completed attempts name each other, and a request belongs
to at most one page, which waits for nothing else. In the ceremony, what is
registered before the commit is registered under the ceremony on the disk, which
stays there until the commit (`UnderCeremony`).

**AuditorsProofs.** `OneTallyEver`, `TrusteeSharesBound`, `AlarmsAreTrue`,
`ApprovalsAreSound`, `SeenIsKept` and the types, for all quorums that intersect
and any number of restores. A trustee's files are written once, so what the
service or a backup has recorded of it is the one share on its disk; a published
tally has the shares of a quorum for its archive, and two quorums meet. For the
observers: what a program has read is a prefix of the history as long as nothing
was restored since it began, and only the holder of the lock writes the file. It
has read the file under that lock, so the file is still what it compares with
when it saves; its configuration is older than the lock, and only the comparison
`Removed` keeps the receipts of the file. `SeenIsKept` needs both.

Those theorems say that what is accepted is right. `HonestFinalSetsVerify` and
`HonestAuditsVerify` say that what is right is accepted. What the service holds of
a closed poll passes `verifyFinal`, and so does every set that a run has fetched
of one state, before and after a restore. Sets of two states exist, because
`/internal/final` makes two reads, and are refused: `FetchInv` says that no run
goes past its verification with one, and that without a restore the checkpoints of
such a set already show the publication or the withdrawal that came between the
reads, so the refusal keeps nobody from anything that was still possible. What a
published poll serves and every exported copy passes `verifyPublicAudit`, and the
chain of checkpoints `observerChain`, under the condition that it was not withdrawn
twice (section 5). `HonestInv` says that every history anybody holds is
`Genuine`: it opens once, follows the lifecycle, announces one set of ballots from
the close on, closes only in time and at the threshold, and publishes only what
was tallied; and that the database and its backup agree with theirs (`Truthful`).
That the envelopes made of such a history pass the verifiers needs the recursion
of `Envelopes` unfolded (`EnvelopesAre`). `PublicCopiesAgree` follows from both
halves: whatever was restored between two exports, they count the same ballots.
`UnrestoredHostIsElection` closes the circle with `BallotServiceProofs`.

**RuntimeProofs.** `RuntimeServesItsOwnData`, `DatabasesKeepOneSetOfKeys`,
`RowsKeepTheirKeys` and the types. A database without
its table has no rows (`Untouched`); from the first migration on the files are
whole, of one set of keys, and bound to the databases in use (`Prepared`); the
migrations fit one role after another (`Progress`, `Fitted`); a marked disk keeps
all this while nothing runs (`MaterialSound`). From there follows what
`ServesItsOwnData` says of the databases in use for all of them, those that were
exchanged and may be bound again included: the rows of each were written under
one set of keys, and no step changes it while there are rows (`StepSeals`).

Only model-checked:

* `NobodyWaitsForever` and `AllOrNothing`: liveness under fairness is out of the
  prover's reach. Every other property of a passing run is a theorem;
* the four expected violations of section 5.

## 7. Not modelled

The cryptography of Belenios (a ballot either verifies or aborts the request);
authorisation headers; the wording and layout of results, exports and pages;
sealing, signing and JSON shapes, which no property is about.

* The quotas of the management service (`management.ts:93`, `141`): a count over
  all polls of an author under an advisory lock; `Publication` has one poll. The
  event journal, which nothing reads back, and the read routes.
* `PollPage.tsx` and `crypto.ts`: what the voter's page does to the ballot
  service (send, lose the answer, send again, ask the tracker) are actions of
  `BallotService`; the rest is rendering and encryption.
* `demand-start.ts`, which migrates and listens, and the development scripts
  `dev.mjs`, `bootstrap.mjs`, `demand-dev.ts`.
* The release, load and test tooling (`reproducible-release.ts`, `load-test.ts`,
  `seed.ts`, `release.ts`, `result-exports.ts`): file formats and tools without a
  state worth exploring.
* The production identity providers: only the two synthetic ones are in the code.
* Restoring the management and identity databases: the auditors see only what
  the ballot service announces.
