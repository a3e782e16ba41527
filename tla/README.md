# ACTI: a verification project

ACTI registers documents of an organization: a FastAPI/PostgreSQL backend
(`src/backend`), a React frontend (`src/frontend`) and *ACTI Sync*
(`src/clients/acti-sync`), a Windows service that keeps a working copy of a
document open in Word, uploads what Word saves and executes commands given in
the browser. This directory holds TLA+ models of the parts in which order,
concurrency and failure decide whether documents and numbers are kept right,
the TLC runs that check them, and TLAPS proofs of the central results.

```
tlc -workers 2 -config MCOfficeServer.cfg MCOfficeServer.tla
tlapm OfficeServerProofs.tla
```

`PROJECT.json` holds what machines read: runs and their properties, which
mutation each property detects, the source lines behind every definition,
findings, hazards and theorems.

## 1. The system

Every HTTP handler of the backend runs in one database transaction
(`api/dependencies.py`, `db_session`): committed when the handler returns,
rolled back when it raises. The level is READ COMMITTED; handlers that must
not interleave take row locks (`FOR UPDATE`) and repeat their checks behind
them. So a handler is one atomic step of a model except for what it read before
its locks, and that exception is modelled wherever the code has it.

| Component | State it keeps | Operations | What is hard about it | What makes it correct |
|---|---|---|---|---|
| Office edit sessions (`registry/office_sync_api.py`) | original and its revisions, edit sessions (ticket, token, lease), save receipts | launch, exchange, heartbeat, renew, resume, save, finish, recover, manual upload | concurrent requests waiting for locks, expiry, retries of a save, several editors | one editor at a time; a receipt is truthful; a stale credential does nothing; no save lost or applied twice |
| ACTI Sync engine (`SyncEngine.cs`, `LeaseResumption.cs`) | durable `SessionState` with a queue of at most two snapshots, the working copy | launch/adopt, download, capture, save, resume, finish | crashes between durable writes, lost and late answers, Word saving at any time | no save of the user lost, none laid over unseen work, the queue drains or the user is told |
| Agent relay and recovery (`AgentRelay.cs`, `SessionRecovery.cs`, agent endpoints) | command rows; `Pending`, `Started`, `Completed`, `Results` on disk; the recovery copy | issue, heartbeat, start, report, recover, reveal | redelivery, three processes, crashes, two clocks | nothing uncertain is done again; success shown is success; a recovery keeps the bytes and completes |
| Outbox and event feed (`platform/outbox.py`, `jobs/worker.py`, `service_api/events.py`) | event rows, ordinals, cursors | enqueue, batch, retry, page | commit order against ordinal order, failing events, readers while workers run | exactly-once effect, a feed no reader misses an event of, nothing stuck |
| Numbering (`numbering/service.py`, `registry/card_numbers.py`) | series counters, entries, claims, card fields | reserve, assign, void, cancel, sync a card, change scope | competing reservations, manual numbers, replays | a registration number has one owner for ever |
| Document cards (`registry/document_api.py`, `documents.py`) | cards with a revision, publication | create, update, publish, delete, attach | optimistic concurrency, coupling to numbers | no lost update; a published card keeps its number |
| Content extraction (`content/worker.py`, `indexing.py`) | extraction rows with lease and attempts, chunks | queue, claim, finish, retry | a claim overtaken by its lease, late results | a result belongs to the current attempt; every file ends completed or failed |
| Execution (`execution/`) | process instances, steps, checklists | start, advance, return, suspend, cancel | long legal sequences, routing | one current step, closed instances stay closed |
| Process definitions, knowledge, relations | versioned drafts | edit, publish, review | mostly sequential | published versions do not change |
| Identity, policy, configuration, search, parsers, service tokens, storage | accounts, grants, schemas, indexes, files | login, checks, queries | little state over time | - |
| Frontend, updater, installers, user process, deployment, `legacy/` | - | - | outside the core | - |

How they meet: browsers call the backend; `launch` hands the Sync service a
one-time ticket through the user process; the service saves under its
session's token and lease; every handler that changes something enqueues an
event in its own transaction; workers turn events into the search index and
give them their place in the feed that outside services page through;
publication of a card goes through numbering under the registry lock; an
execution pins a published process version and reads its results from cards.

## 2. Modules

| Module | Models |
|---|---|
| `VersionedOriginal` | abstract: an original is a list of revisions, receipts acknowledge them |
| `OfficeServer` | the edit-session handlers in detail; implements `VersionedOriginal` |
| `SyncClient` | the client's queue and session life against a server reduced to the same original and one lease |
| `AgentRelay` | browser commands and recovery from server to service to user process and back |
| `EventLog` | abstract: what the feed promises its readers |
| `OutboxFeed` | producers, batches, retries, cursors; implements `EventLog` |
| `Extraction` | metadata index, extraction queue, claims and late results of documents and their files |
| `ContentPipeline` | composes `OutboxFeed` and `Extraction` into the worker process; its fairness |
| `NumberRegister` | abstract: a number has at most one owner, for ever |
| `Numbering` | number book, occupancy ledger, triggers and the numbers of cards; implements `NumberRegister` |
| `ProcessVersions` | drafts of a process, their graphs, validation and publication; routing |
| `Execution` | instances and attempts; extends `ProcessVersions` |
| `VersionedOriginalProofs`, `OfficeServerProofs`, `SyncClientProofs`, `AgentRelayProofs`, `OutboxFeedProofs`, `ContentPipelineProofs`, `NumberingProofs`, `ExecutionProofs` | theorems and proofs about the module of that name |
| `MC*` | instances for TLC |

Definitions marked *Slip* are plausible mistakes: none is part of a
specification. Each stands next to the definition it is a variant of, and
shows which property would notice it.

### OfficeServer

`row[s]` is a row of `office_edit_sessions`: `phase` folds `exchanged_at` and
`finished_at`, `token` counts rotations of the token hash. `client_context`
and `exchange` read `now` and the credential, then queue for the document,
original and session locks, then compare. A request is therefore `Arrive`
(clock and credential are taken) and one of `Exchange`, `Heartbeat`, `Renew`,
`Resume`, `Save`, `Finish`, `Refuse`; any number of other steps, ticks
included, may fit in between. `Launch` reads its clock behind the locks and is
one step. `Save` is `commit_save` with its replay branch (same key, same bytes:
the old receipt is answered), `ManualSave` the browser's upload. A refusal, for
whatever reason, is a rollback. `late` is a history variable: sessions whose
lease was extended on a reading that another request had overtaken.

### SyncClient

`doc` is the durable `SessionState`; `doc.queue` is `Pending` followed by
`NextPending`; `call` is the request the session gate is held for, `stray` the
requests it no longer waits for and the server may still process. The steps of
one poll tick are separate actions, because a backoff, a transport failure or a
refusal ends a tick after any of them. `Adopt`
and `CrashInAdopt` are a relaunch that takes over the prior session's working
copy and queue in two durable writes. The launch chose that session before it
waited for its gate, so `Finished` may leave a finished session to be taken over.
Heartbeats go out whatever the queue holds; those for a changed presence or a
lease alone do the same. The server side is `OfficeServer` with
time made abstract: `Expire` and `Revoke` end a lease or a credential, `Lapse`
is the client's own reading of its lease, which may be wrong either way. Two
history variables: `base`, the newest revision the working copy descends from,
and `rebased`, the sessions that took over a working copy with a revision it
does not descend from.

### AgentRelay

`state[c]` is a command row; `agent` is the durable `AgentState`; `local` the
recovery fields of `SessionState`. `gate` says which request holds the session
gate and how far it got, so that `Restart` falls between any two durable
writes of `Recover` (copy, binding, giving up the earlier command, local
finish, receipt). `beat` is the heartbeat: results are copied when it is sent,
and its answer is merged into whatever the agent has become since. The minute a
command lives passes on the server's and the client's clock independently.
`user` is the user process. A pulse is answered without the session gate with
the commands nobody has started (`Pulse`), and the answer may be used late
(`TakePulse`): `user.offered` becomes `user.asking`. `CommandStart` lets it act
(`told`), also on a command that is completed successfully, since `FindCommand`
finds those too and the stored receipt reads like a permission; a report follows
or is lost. `expired` says that the edit session's own token has run out, which
`client_context` compares with a clock read before the locks (`Admitted`).

The bearer token of the connection is `agent.token` on the client and
`connection` on the server, a count of the tokens issued. `SendHeartbeat` copies
it with the results and may renew it first (`RenewArrives`, `TakeRenewal`);
`Connect` to `SaveAgent` is the exchange of a ticket by connect or launch, whose
request may arrive after the client gave it up; `ConnectionLapses` is the
passing of `expires_at`. An answer is used only under the token that was sent
with the call, and a refusal of that token sets `paused`
(`AuthorizationRequired`), under which nothing is sent or accepted. `mislaid` is
a history variable: the answer with the newest token was lost.

### OutboxFeed

`row` is the committed `outbox_events` table; `batch[w]` is the open
transaction of `process_batch` (the events still to do, taken oldest first, and
the rows and effects as it will leave them), invisible until `Commit`, lost on
`Abort`;
`ordinals` is the sequence, which survives an abort. A failing event rolls
back to its savepoint only. A cursor is a bookmark; `seen` is a history
variable: the events scanned on the way to it. `log` and `bookmarks` of
`EventLog` are computed from `row` and `cursors`.

### Extraction and ContentPipeline

`doc` is the part of a document the worker looks at, `index` the revision its
metadata fragments are of, `extraction` its row of `content_extractions`
(`due` and `leased` stand for the clock against `next_attempt_at` and
`lease_until`), `blocks` the attempt whose text is stored. A worker's `job` is
the claim it parses for outside any transaction: `TakeClaim` is `_claim` with
the requeueing of abandoned rows, `Finish` the second transaction, in which the
row must still be running the same attempt; a parser's failure is one of four
outcomes. A lease may run out under a worker that is only slow. `AskRetry` and
`WriteRetry` are the two ends of `POST files/{id}/extract`, which reads the row
without a lock; `overtaken` is a history variable: the documents on which such
a write fell on a later attempt than the one that was read. The transactions of
two `_claim`s are disjoint (`SKIP LOCKED`), so each is a step.

`ContentPipeline` is `main`: the event of a change commits with the change, a
committed batch has indexed the documents of its handled events and queued
their files (`HandledNow`; the documents stay locked until the batch commits,
so it is the state at commit that is indexed), and a worker does one thing at a
time. What a failed event leaves undone, the backlog does.

### Numbering

Handlers hold the locks of their document and registry to the end, so each is a
step, and everything a handler calls is part of it: `CreateDocument` and
`UpdateDocument` contain `sync_card_number` (`Sync`), which cancels the draft's
superseded reservations, keeps, takes or makes a reservation, and writes it
through `write_entry_number` (`WriteNumber`), whose last part is what the
triggers of migration 0019 do to the ledger (`MovedClaim`, `FlushCard`). One
difference is kept apart on purpose: the ledger is written by triggers, from
two tables, and refuses by a unique key; the handlers decide from entries and
cards. The properties relate the three.

One registry. All series render an ordinal as itself, which is the case in
which series, periods and typed numbers compete; normalisation of numbers
(`acti_number_key`) is taken as done. A batch reservation is repeated
`Reserve`. Stale revisions, replays of an idempotency key, rights, archived
registries and blocked series only refuse requests. `Periods` lets
`current_period` be set back, so that a counter restarts below occupied
numbers.

### ProcessVersions and Execution

`versions` are the versions of one process; a graph is chosen from `Graph`,
which the instance fills with well-formed and ill-formed ones. `Valid` is
`validate_graph`: one start, exits that are complete, no cycle, all reachable.
`instances[i].graph` is the pinned snapshot, `attempts[i]` the step executions
with checklist and result, `path` the completed attempts the present step was
reached by. `mutation` locks the instance, so handlers are steps, but for two:
`ReadVersion`/`StartInstance` (the version is read without a lock, its graph
later) and `SelectRoute`/`Advance` (the result's card is read without a lock).
A result names the card revision it was read from; `card` keeps all of them.

## 3. Runs

| Run | Question | Instance |
|---|---|---|
| `office_server` | are receipts truthful, stale credentials inert, `saved` backed by a receipt; does the server implement the abstract original; is the lease exclusive except for late requests | two sessions, two waiting requests, one key per session, clock to 2, three revisions, two rotations; sessions are symmetric |
| `office_overlap` | *violated*: two sessions are never active at once | the same |
| `sync_client` | is the acknowledged base real, does nothing leave the queue unacknowledged, does finishing lose nothing, when can unseen bytes be overwritten | two sessions, two snapshots, four revisions, one rotation, one timeout or crash |
| `sync_live` | does a queued save end acknowledged or with the user told | one session, two rotations, one timeout or crash |
| `sync_overwrite` | *violated*: a save is laid only on the revision its working copy descends from | two sessions |
| `sync_crash` | *violated*: a pending upload survives a crash during a relaunch | two sessions |
| `agent_relay` | is anything done again but what is recorded as done, is success real, does an outcome stand | an `open` and one of `finish` and `retry` in a behaviour, two pending at once, one crash, any number of late pulses |
| `agent_recovery` | can crossing renewals, connects and refusals lock the agent out; does a recovery keep the copy, get audited once and complete on both sides | three tokens, one lapse each, the session's token expiring over a request instead; one `recover`, two crashes, any losses |
| `agent_recovery_twice` | *violated*: a client retries the recovery the server committed | two `recover` commands |
| `outbox_feed` | does the feed implement the log, skip nothing, handle each event once, settle every event; is stored text that of the last claim, does every document end up indexed and extracted | three events, two workers, batches of two, two attempts, two cursors, one abort, one administrative retry; one document with two revisions, two tries, two retries by hand |
| `numbering` | has a number one owner for ever, do entries, ledger and cards agree, does a handler run into a trigger | a card with a series on its form and one without, two entries, two numbers, two periods, two scopes; entries and periods are symmetric |
| `execution` | is the path the route the results select, is there one open attempt, does a handler run into a trigger | one instance, two versions, two graphs (branching and straight), two users, four attempts, two card revisions; users are symmetric |

Why these bounds are enough to be of interest: a lease is taken over by a
second session, so two sessions; a request is overtaken by another, so two
workers; a clock of two ticks lets a lease be granted, expire and be granted
again, while every limit (ticket, lease, token, browser session) is reached;
three revisions are the first, the client's and a competitor's, and a fourth in
`sync_client` lets a competitor pass through the client's bytes back to the
first ones, so that the same bytes stand under different revisions; the client's
queue holds two snapshots, so two captures fill it and one overflow of the
coalescing is a third edit into the same slot; two tokens show one rotation
with the old one still on the wire. A batch of two out of three events leaves
an event to a later batch, and two attempts separate "retry" from "failed".
A reservation, a typed number and the other card's number
compete as soon as there are two of each, and two scopes let an unscoped
reservation move. Four attempts let a branch be walked, gone back over and
walked again the other way. An `ASSUME` of `MCExecution` lists drafts that
`Valid` must refuse, one for every clause.

`MCOutboxFeed.cfg` has an action constraint, `Narrow`: once the document
exists, nobody reads the feed, no administrator retries and one event fewer is
produced. It cuts off only steps no fairness asks for, so a behaviour of the
restricted model is one of the full model, and a liveness property it violates
is violated; what is given up is the product of page reading with parsing,
which share no state but the events.

`MCAgentRecovery.cfg` has one too, `NarrowRecovery`: tokens are replaced before
the command exists, over crashes, lost answers and refusals in every order;
afterwards the connection may lapse and calls be refused, but nobody connects
again. A pulse is answered at once (late pulses are the subject of `agent_relay`:
they bring no second recovery, which is executed only if it was not started).
The token of the edit session expires while a request of the session is under
way; before that its expiry changes nothing; and it does not expire where the
connection has lapsed: either is where `RecoveryCompletes` asks for nothing more,
and the run's safety properties are proved without the constraint. All this
cuts off only steps no fairness asks for. Receipts and tokens share no condition but `paused`, which
needs no replacement to be reached. Three tokens let a renewal be overtaken by a
connect, both answered.

`NarrowCommands` of `MCAgentRelay.cfg` lets the browser ask to finish or to
retry in one behaviour, not both, and the session's token expire over a request.
`open` competes with either. `AgentRelayProofs` proves the run's four properties
without these limits.

The bounds `MaxClock`, `MaxRevision`, `MaxToken(s)`, `MaxSnapshots`,
`MaxLosses`, `MaxCrashes`, `MaxPending`, `MaxEvent`, `MaxCursors`, `MaxDrops`,
`MaxRetries`, `MaxAsked`, `MaxTries`, `MaxEdits`, `MaxNumber`, `MaxVersion` and
`MaxAttempt` stand in guards; `MaxPending`, `MaxCursors`, `MaxTries` and
`MaxNumber` are limits of the code (20, 2000, 3 and 10^15), the others only make TLC finite. Deadlock is not
checked, because at its bounds an instance stops.

### Fairness

* `SyncClient!FairSpec`: the service polls every four seconds, HTTP calls are
  bounded by a timeout, so a request is served and its answer received (weak
  fairness of `Serve`, `Receive`), and a resumption is sent as long as one is
  due. `SendSave` is strongly fair: the tick that resumed the lease goes on to
  the save, so a lease that lapses again and again does not keep it unsent.
  Nothing is assumed of Word, the browser, other users or the network's losses,
  which are bounded by `MaxLosses`.
* `AgentRelay!FairSpec`: the poll loop enters a pending recovery again and
  again, and each of its steps (the file can be read, the request arrives while
  it is waited for, the answer is understood) does not fail every time. These
  are strong because a failure disables the step until the next tick; a Word
  that never closes the file would defeat the liveness, as it does the code.
* `ContentPipeline!Fairness`: `main` runs `process_batch`, the backlog and one
  extraction every two seconds and survives what they raise; parsers are killed
  after a time limit, so a job ends; backoffs and leases end. It is asked of the
  workers together that a batch begins, the backlog is taken and a claim is
  made, of each one that it ends what it began. That presumes that database and
  Redis answer again in the end (`main` pings Redis between the three), and
  that indexing a stored document succeeds.

## 4. Proofs

TLC checks the instances of section 3; `tlapm` proves the following of
`Init /\ [][Next]_vars`, without fairness, for all values of the constants that
satisfy the assumptions below. Each proof has the same shape: an inductive
invariant that implies the property, one lemma per action (or per group of
actions that write the same rows), one theorem per property.

**VersionedOriginal.** `TypeCorrect`, `ReceiptsCorrect`. The invariant is
strengthened by: the history is never empty. Without it the last revision,
which `Commit` compares with, need not exist. A new receipt either names an
existing revision with the same bytes or the appended one, whose number no
older receipt can have.

**OfficeServer.** `ImplementsOriginal` (`Spec => OriginalSpec`): each handler
leaves history and receipts alone or is a `Commit`; only `Save` and
`ManualSave` are the latter. By the refinement the receipt guarantees of the
abstract original hold of the server (`ServerReceiptsCorrect`, `KeysCommitOnce`;
`SamePromise` states that the two instances of the abstract module are about the
same formulas).
`OverlapIsAlwaysLate`: two sessions are active together only if one was
extended on an overtaken reading. The invariant is `LeaseInv`: `RequestInv` (a
waiting request's reading is not ahead of the clock, and its browser session was
alive at that reading) gives that an extension on a current reading extends an
active session; `TicketInv` (until the exchange, the credential lasts as long as
the ticket, unless the browser session ends before it) that a session exchanged
in time was active before.
`SavedIsEarned` and `StaleRequestsDoNothing` rest on `CredentialInv`: a waiting
request carries no token its row has not issued yet, so a request whose token
was replaced can never compare equal again.

**SyncClient.** Three invariants, each proved over the one before. `TypeInv`,
whose part `Prepared` says that the session has not moved on while the gate is
held for a request and its answer: what is received is about the
document it was asked for. `ClientsShareTheOriginal` (`Spec => Original!Spec`)
is the refinement of `OfficeServer` seen from the client: late and repeated
requests included, a step of the server side is a commit or none, so receipts
are truthful by the theorem of `VersionedOriginalProofs`. `ClientInv`: revision
and hash of a launch and of every answer in flight are a revision of the
original (for an acknowledgement, through its receipt). It gives `BaseIsReal`,
`SavedIsDrained`, `PendingIsNeverDropped` and `NothingLostAtFinish`. `BaseInv`:
a key is never taken twice; what is queued, and what is on the wire of a
snapshot still queued, expects no revision beyond `base`, unless the session is
in `rebased`; the receipt of a snapshot still queued is not beyond `base`. It
gives `OnlyRebasedOverwrite`. Requests and receipts belong to the invariant
because an upload given up in a timeout may be committed later, while its
snapshot is still in the queue.
The proof corrected the model: `Adopt` took `base` from the answer of the
exchange even when the working copy had moved past it, so that a history
variable went back, which takes three snapshots to matter.

**AgentRelay.** Four invariants, each proved over the one before. `TypeInv`.
`TokenInv`: the tokens of heartbeat, agent, exchange and server are ordered as
they were issued, a paused agent calls nobody, and only the token still in use
can be renewed into the newest one. From this `NeverLockedOut`: without the
order a late answer could carry an older token over a newer one.
`ClientInv`: a command is pending or completed, one way only; the holder of the
gate and a retried recovery are started commands, and of each command the user
process was told to act on, or acted on, it is known where it stands (`Told`):
before the first act it is started or completed, after it only a success can let
it act again, and only if the answer of a pulse from before the start is still
out, of which there is one at a time. It gives `UncertainNeverReplayed`
(`OnlySuccessRepeats`) and `OutcomesNeverRevised`. `SessionInv`: how
far a recovery is with its copy, what a receipt and a succeeded row stand for,
and that at most one recovery succeeded. It gives `SuccessesHappened`,
`FinishedAfterTheServer` and `AuditedOnce`.

**OutboxFeed.** `TypeCorrect`, `EventsHandledOnce`, `CursorsSkipNothing`. A
batch is a transaction over copies of rows, so the invariant speaks of both:
`RowsAgree` of the committed rows, `BatchesAgree` of the copies (state, attempts,
ordinal and effects of an event fit together; what the batch has published is
numbered above every published event and every bookmark). The last part is what
a commit between two pages needs. That only the holder of the advisory lock has
a batch open is part of `TypeOK`; `BeginUnserialized` shows that `SKIP LOCKED`
alone would not do.

**ContentPipeline.** `PipelineRunsTheFeed`: composed with indexing and parsing,
the feed still behaves as `OutboxFeed`, so its theorems carry over.
`LastClaimAlwaysDecides` rests on `ContentInv`: claims count attempts the row
has counted, no two workers hold the same one, and a retry that read a row
failed finds it failed or queued as long as its attempts are what they were.
The exception `overtaken` is exactly where the last part is lost.

**Numbering.** The invariant is `Book`, three tables against each other: an
entry has the claim of its slot and that claim its document, a claim that names
an entry is the claim of that entry's slot, a card has the claim of its number,
linked entries are borne as their state says. It gives `NumbersHeldOnce` (two
bearers would need the same claim), `ReservationsAreBorne` and
`OfficialsAreBorne`. A handler's intermediate states (superseded reservations
cancelled, a number reserved but not written) satisfy `Book` as well, which is
how `sync_card_number` is proved part by part. `Kept` collects what each handler
keeps; `TriggerNeverRefuses` and `ImplementsRegister` (`Spec => RegisterSpec`:
a taken slot stays taken and with its document, a published card keeps its
number) follow from it step by step.

**Execution.** The invariant says of each instance that exists: it pins a
published version as it stands; each result has the value its card revision
has; the current attempt is the only open one; the path is walked along the
pinned graph by the results of its attempts; and the route an uncommitted
`advance` has selected is still the one the current attempt selects. The last
part is what makes two steps of `advance` safe. `PathIsAlwaysTheRoute`,
`AlwaysOneOpenAttempt` and `TriggersNeverRefuse` follow. Every handler is shown
to leave an `Outcome`; `OutcomeKeeps` states once why an outcome keeps the
invariant and is accepted by the triggers. That `Route` ends at a step of a valid
graph (`RouteIsAStep`) needs that a nonempty set of naturals has a minimum, which
comes from the well-foundedness of `<`. What "valid" adds beyond edges between
existing steps and one start (no cycle, complete exits, all reachable) is not
needed for safety.

Assumptions are the named `ASSUME`s of the modules, which TLC evaluates in the
passing runs: bounds are naturals (where they must be, positive), time limits are ordered as in the code
(ticket <= lease <= token: 60, 90 and 900 seconds), sentinels differ from what
they stand beside (`None`, `NoWorker`, `NoDoc`, `"free"`, the session of manual
uploads), the first content is a content and a missing file is none, parsers are the workers, and the edges
of a graph are a sequence, as its table orders them. `MaxNumber`, `MaxAttempt`
and the like are arbitrary: nothing is proved from their being small.

Only model-checked:

* Liveness (`QueueDrainsOrStops`, `RecoveryCompletes`, `EventsSettle`,
  `ContentSettles`): the prover has no rules for fairness and `ENABLED`.
* `LogSpec`, the refinement of `EventLog` by `OutboxFeed`: the log is the
  published events sorted by ordinal, a `CHOOSE` whose existence needs induction
  over the events. What it says of readers is contained in
  `CursorsSkipNothing`.
* The four runs that expect a violation: their counterexamples are the result.

## 5. What the models disagree with

1. **The lease admits two sessions** (`office_overlap`).
   `docs/architecture/ACTI_SYNC_001.md` promises one active session per
   original. `client_context` (`office_sync_api.py:239`) and `exchange`
   (`:319`) take the time before they queue for locks. A heartbeat that waited
   while its lease expired and another session was launched is admitted on its
   old reading and extends the expired lease. `OverlapIsAlwaysLate` proves that
   this is the only way, and `OriginalSpec` that revisions stay consistent all
   the same: `If-Match` still decides.
2. **A relaunch in conflict can overwrite unseen work** (`sync_overwrite`).
   `Adopt` keeps the old working copy but takes revision and hash of the
   server; once the conflict state is left (a resumed lease, a failed opening
   followed by retry, another relaunch), the old bytes are saved over a
   revision their author never saw. `OverwriteNeedsRebase` shows that nothing
   else does this.
3. **A crash during a relaunch strands the queue** (`sync_crash`): the prior
   session is finished on disk before the new one exists.
4. **A second recovery command strands a committed recovery**
   (`agent_recovery_twice`): it replaces the command whose acknowledgement was
   lost, the server refuses it because the session is finished, and the client
   retries it for ever; launches of that file are refused meanwhile.

What else the models showed, where no document of the repository says
otherwise:

* **One lost answer with a token ends the relay.** The server forgets the old
  token when it issues the next. If the answer of a renewal or an exchange is
  lost, or an exchange the client gave up arrives late, the agent keeps a dead
  token, is refused, and pauses until the user connects again.
  `CredentialIsKept` shows that nothing else does this, no race between
  renewal, connect and launch in particular.
* **A committed recovery can stay unfinished.** Its replay is refused once the
  connection has expired, until the user connects again, and for good once the
  edit session's own token has (`office_sync_api.py:261`): while a recovery is
  pending nothing renews that token (`SyncEngine.cs:223-227`), a blocked session
  stopped renewing before (`:252`), and launches of the file are refused
  (`:127`). `RecoveryCompletes` holds up to these two.
* **A late pulse opens Word twice.** `command_start` for a command completed
  successfully is answered with its receipt and the session
  (`AgentRelay.cs:62`, `SyncEngine.cs:79-83`), which `HeadlessContext.cs:88`
  takes as permission. A pulse computed before the start, whose answer is used
  after the first run was reported, makes the user process act again.
  `AgentChecks.cs:52` ("duplicate native command is not dispatched twice") tests
  the time before the report, where it is right. `OnlySuccessRepeats` shows that
  no failed or uncertain command is repeated, and none more than once.

* **A retry can strand a file.** `queue_file(retry=True)` checks a failed row it
  has not locked (`content/indexing.py:120`). Two requests read it failed after
  two of three attempts; the first queues it, a worker claims it (attempt
  three), the second writes `pending` over the running row. It now has all its
  attempts: `_claim` passes over it, the reclaiming of abandoned rows as well,
  and a retry does nothing, because it is not failed. `LastClaimDecides` and
  `ContentSettles` hold for all documents but those in `overtaken`; without that
  exception both are violated by this behaviour.
* **A card may be edited while it is routed on.** `route` compares the revision
  of the result's card without a lock, so `advance` can commit after the card
  moved on. `PathIsTheRoute` holds all the same, because a result keeps the
  values it confirmed.
* **A withdrawn number holds its draft.** `existing` in `_sync_card_number` does
  not look at the entry's state. A draft that bears the number of a reservation
  which was cancelled or expired in the number book meets it in every later
  save ("reservation not available") until the number field is changed.
* **Suspended before it was opened.** `suspend` and `resume` at a step not yet
  opened turn an active instance into a pending one, whose step must be opened
  before it can be returned.

## 6. Not modelled

* Rights, login and policy: a refusal is possible at any time instead. For the
  replay of a recovery they are taken as lasting: a logout or a withdrawn right
  refuses it like an expired token.
* Bytes: content is a value compared for equality, a hash is its content.
  ZIP and DOCX checks, conversion of older Word formats, disk quotas.
* In `AgentRelay`: client version gates, the backoff of the relay, a full disk,
  the 512-entry cap on receipts, the server's limit of 20 results per heartbeat. The working file does not change
  after its recovery copy exists; if it does, the code stops and reports.
* In `SyncClient`: recovery (see `AgentRelay`) and more than one file.
* In `OutboxFeed`: what an event means to its readers; a read may omit any event.
* In `Extraction`: chunks and their versions, re-indexing after a change of
  form, reference or parser, several files of a document, `index_version`. They
  repeat the pattern of index and blocks.
* In `Numbering`: the configuration of series, templates of numbers, grants,
  archives, the import of old numbers.
* In `Execution` and `ProcessVersions`: deadlines, attachments, the event
  history, sources and templates of steps, copies into another process, and the
  access checks of each.
* Locks inside a handler. By reading, every numbering handler takes document,
  registry, series and entry rows in that order; no model contains lock queues
  but `OfficeServer`, where the order is document, original, session.
* The components of section 1 without a module: knowledge articles and
  relations (versions and decisions taken under one lock), configuration, search, parsers, storage, identity, frontend, updater and
  deployment, whose behaviour over time is slight, or lies in Windows, the
  database or the browser rather than in this repository.

## 7. Plan

The state space of the code that matters over time is covered by the modules
above, and the safety properties the passing runs check are proved but for
`LogSpec`. What is left:

1. A lock-order model of all handlers, as a further module.
2. The refinement of `EventLog`, for which the log would have to be a function
   of the ordinals rather than a sorted sequence.
