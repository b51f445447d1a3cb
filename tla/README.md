# PolyEdge in TLA+

A verification project kept beside the PolyEdge code base: TLA+ models of the
parts whose correctness depends on ordering, failure and retry, TLC runs that
check them on small instances, and TLAPS proofs of the properties that matter
most, for every instance. Paths are relative to `src/`, the repository's root;
`runtime.rs` is `crates/polyedge-api/src/runtime.rs`, "engine" is
`crates/polyedge-engine/src/lib.rs`, "storage" is
`crates/polyedge-storage/src/lib.rs`, `research.rs` and `run_bundle.rs` are those of
`crates/polyedge-reporting/src/`.

## 1. The system

PolyEdge quotes short-lived binary markets ("does the price end up or down?").
It runs in paper mode as one Rust service that consumes feeds, decides, executes
against a simulated book and writes every decision to an evidence journal. Node
programs under `venue-probe/` spend small amounts at the real venue under a chain
of immutable authorizations. A reporting crate evaluates the journal offline.

| Component | State it keeps | Operations | Talks to |
|---|---|---|---|
| Trading engine: `RiskManager`, `OrderManager`, `PaperExecutionClient`, `PaperFillEngine` (engine, `polyedge-execution`) | positions per market and total, open quotes per (market, token, side), resting orders, cached order count, next order id | evaluate and reconcile a batch, cancel all, fill by a book, clear a settled market | called by the runtime under its locks |
| Decision runtime (`runtime.rs`) | `RuntimeData` (markets, books, references, paused, kill switch, `decision_generation`), `RuntimeEngine` (the engine, its own generation, pending application, pending settlements), `decision_gate` | `evaluate_once`, the `handle_*` of the feeds, pause, resume, kill switch, discovery, settlement | engine, recorder, API |
| Recorder worker (`runtime.rs`, `runtime/recorder.rs`) | request queue, deferred request, pending and completed batch keys, buffers | best-effort event, durable batch with acknowledgment, timer flush, resume | runtime (channels), storage |
| Append blob client (storage) | known lengths, ambiguous handoff positions, blocks to retry | create, conditional append, handoff append, reconcile | Azure Append Blobs, shared with another revision |
| Strategy and regime (`engine`, `regime.rs`) | classifier with hysteresis in the adaptive mode | fair value, quotes, transform | decision runtime |
| Execution quality (`runtime/execution_quality.rs`) | queue estimates, markouts to observe | observe books, trades, fills | decision runtime, recorder |
| Execution intents (`runtime/execution_intent.rs`) | none; immutable blobs | publish an intent for a decision | venue side |
| Settlement and start capture (`runtime.rs`, `runtime/reference.rs`) | start references, frozen settlement journals, retained markets | capture, settle, retry | references, recorder, engine |
| Feeds and discovery (`polyedge-feeds`) | connections | websocket and HTTP input | decision runtime (one channel) |
| API, history, query, charts, views (`polyedge-api`) | caches | read-only, and the controls | runtime, blobs |
| Labs and jobs (`labs.rs`, `azure_jobs.rs`) | job records | start and follow cloud jobs | Azure |
| Funded ladder controller (`venue-probe/src/funded-ladder-controller*.mjs`) | immutable control blobs: consumptions, authorizations, progress, states, checkpoints, blocks | consume a grant, authorize one order, run its child, chain its evidence, publish a checkpoint | canary child, canonical manifest, blobs |
| Canary, probe, redemption (`venue-probe/src`) | risk reservations, a lease, evidence | one order at the real venue, cancel, reconcile, redeem | venue, blobs |
| Promotion ladder (`run_bundle.rs`, `research.rs`, `research/run_promotion_transition.sh`) | the canonical manifest `latest.json` with its ETag, the shadow manifest | initialize, advance, stop, expire; publish by compare-and-swap | controller, blobs |
| Rest of the reporting, CLI, frontend, infra, scripts | files | audit of the journal, statistics, presentation, deployment | journal |

What is hard, and what makes each part correct:

* **Engine.** Three ledgers of the same order are updated by separate reports. They
  have to agree after any sequence of cancel/replace, fills and settlements; an
  order must not fill twice or after it was closed; limits have to bound exposure.
* **Decision runtime.** A batch is prepared from copies outside the decision gate,
  and applied after an await on durable evidence. Books, fills, pauses and the kill
  switch run in between. A stale, unaudited or forbidden batch must not execute;
  what was executed must be recorded, once, or retained until it is.
* **Recorder.** Callers hold the decision gate while they wait, best-effort events
  share the worker with them, and a failed batch stays staged: acknowledged must mean
  durable, retries must not double lines, and nobody may wait for ever.
* **Append blob client.** An answer may be lost, a request may be acted on late, and
  during a deployment two revisions create and write the same blob.
* **Settlement.** The start price is captured by whichever of two tasks hears it, is
  recorded by either, and a settlement is frozen, journaled in parts, committed and
  marked with the gate released in between: a settled market has to stay flat, what is
  cleared has to be what is journaled, and an audit that reads only the journal has to
  find it consistent.
* **Venue side.** Real orders: an authorization, a reservation and an order each at
  most once, through crashes of two processes and ambiguous answers.
* **Stage and ladder.** A stage is a sequence of executions that are started by hand, may
  be killed anywhere and may overlap, over documents that are written once. The ladder
  above it is one blob that jobs and controller replace concurrently: no stage may
  spend without its grant, none may be repeated or skipped, and stopping is absorbing.

`PROJECT.json` lists the components and every hazard with its line.

## 2. Modules

| Module | What it is |
|---|---|
| `OrderLifecycle` | abstract: the life of one order |
| `PaperEngine` | the trading engine; implements `OrderLifecycle` |
| `PaperEngine_proofs` | its theorems |
| `MCPaperEngine` | two markets with different start times |
| `DecisionRuntime` | evaluator, feed loop, control API, decision gate, generations |
| `DecisionRuntime_proofs` | its theorems |
| `MCDecisionRuntime` | one and two markets |
| `DurableJournal` | abstract: a journal that only grows, holds everything acknowledged, and no line twice but for requests it is excused from knowing |
| `AppendBlob` | the client against the service; implements `DurableJournal` |
| `AppendBlob_proofs` | its theorems |
| `Recorder` | callers, worker, staging, crash; implements `DurableJournal` |
| `Recorder_proofs` | its theorems |
| `FundedOrder` | one authorized order at the real venue: canary child, lease, reservations, evidence, redemption |
| `FundedOrder_proofs`, `MCFundedOrder` | its theorems, its symmetry |
| `Settlement` | start capture, settlement journal, commit and mark of one market; feed task, discovery, evaluator, restart and the audit of the journal |
| `Settlement_proofs` | its theorems |
| `FundedCampaign` | abstract: one campaign on a ladder of stages, each granted before it spends |
| `PromotionLadder` | the canonical manifest and everyone who replaces it; implements `FundedCampaign` |
| `PromotionLadder_proofs`, `MCPromotionLadder` | its theorems, its symmetry |
| `FundedStage` | one stage: controller executions, children, documents, checkpoint |
| `FundedStage_proofs`, `MCFundedStage` | its theorems, its symmetry |

The modules divide the system along its interfaces. `Recorder` takes for granted
of the remote what `AppendBlob` establishes (a flush lands a prefix of the buffer,
every line once, all of it when it returns Ok), for as long as the service does not harm
the blob: what the journal promises is lost with a blob that is replaced. `DecisionRuntime` takes of the
recorder what `Recorder` establishes: an attempt is durable or it failed, and what
failed may be staged and become durable later. `PaperEngine` takes of the runtime
that a batch is applied to the state it was evaluated on, which is
`AppliesWhatItSaw` of `DecisionRuntime`. `Settlement` takes of the same property that a
batch which is no longer fresh is not applied, and of `PaperEngine` that a fill and a
batch of one market move its position and its orders and nothing else. `FundedStage`
takes of `FundedOrder` what a child leaves behind (an order sent once, and evidence that is
true), and of `PromotionLadder` only that the canonical manifest waits, is authorized or
has moved on; `PromotionLadder` in turn sees of a stage that it may leave a block or a
checkpoint that binds the manifest it ran under. `DurableJournal` is the common promise of
the two modules that write the journal.

### PaperEngine

`positions`, `totalPosition`, `openOrderCount`, `quotes`, `resting` are the fields of
the same names in the code; `batches` stands for `next_id`, because one batch places
at most one maker and one taker per outcome, so <<batch, outcome, kind>> names an
order. `accepted` and `fills` are histories. Prices, sizes and time are small
naturals: the properties compare them and add them up, and no more.

`Evaluate` is one market of `evaluate_once` from the risk check (`Allowed`, the code's
`assess_market`), over the filter (`Filtered`: clip, then project each order alone)
and `reconcile` (`Cancels`, `Places`, `NeedsCancel`) to the execution (`Execute`:
cancel-all, makers rest, takers fill, cached count refreshed). What the strategy asks
for is any choice of one maker and, when enabled, one taker per outcome. Inputs
outside the engine (kill switch, fresh books, live gates) are one boolean, `feedsOk`.
`Execute` reproduces a detail of the code that matters: `cancel_all` reports once per
cancelled order, so with nothing resting the order manager keeps its quotes.
`PaperFill`, `CancelActive` and `Settle` are `handle_paper_fills`,
`cancel_active_markets` for one market and the commit of a settlement.

### DecisionRuntime

`pc` holds the place of the evaluator, of the feed loop and of the pause request; a
step is what the code does between two points at which it lets another task run.
`gate = "evaluator"` while the evaluator holds `decision_gate` across the two awaits
on the recorder; every other holder acquires and releases it inside one step, which
is why all of them require `gate = "free"`. The trading state of a market is the
batch that rests there; the version numbers `inputs`, `dataGen` and `engineGen`
stand for the data and for both generations. `Persist` and `FailToPersist` are
`record_required_runtime_events` as its callers see it. `DropPause` is the request of a
client that has gone: the server drops the handler at an await, and the recorder may
still write what it was asked for.

### AppendBlob

One step per request and per answer. The service is external: `exists` and `blob` are
what it holds, `delayed` and `creations` the requests it has not acted on, and `Accepts` is
the append-position condition. `handoff` stands for the window after the start of a
revision, `known`, `ambiguous` and `expected` for the maps and the local of the code.
`GiveUp` returns an error; the buffer then retries the block, which is `BeginAppend`
again. At first there is no blob. Whoever finds none creates it (`CreateBlob`; the other
revision decides in `ForeignLooks`, and its request arrives in `DelayedCreation`), with a
`PUT` that carries no condition. What the service does with such a request for a blob that
exists is its own affair and left open (`Created`): it answers 409, as the code
expects, or it replaces the blob by an empty one, as it would a block blob. A length below the
one that is remembered is the error that the code returns ("append position moved
backwards"), and what is remembered stays.

`harm` is history, and names the two things that the service may do and the client cannot
see: `"overwritten"`, a creation replaced a blob that held blocks; `"late"`, an
unconditional append of the handoff was acted on after the client had asked for the length
of the blob. Until then the blob is a `DurableJournal`; that append_block
returns Ok only for a block that is there (`AcknowledgesWhatIsThere`) holds throughout;
`BlobIsJournal` is both.
`AppendsAll` allows for two ways in which the client may retry for ever: a blob that was
overwritten is shorter than it remembers, and one that has grown by more than `MaxRead` past
the place to look from (`TooFar`) is not searched.

### Recorder

`Handle` is one turn of the worker's loop: a durable request (`HandleDurable`, whose
five disjuncts are the returns of `persist_durable_recorder_request`) or a
best-effort event (`HandleEvent`, with the deferral behind a staged batch). `Tick` is
the timer. The callers follow `record_required_runtime_events`: three attempts, then
the batch is dropped or kept frozen for a later retry. `completed` is the queue of
remembered keys, of which `remember_completed` drops the oldest; `forgotten` is history,
the keys that were dropped, and `DurableJournal` is excused from knowing those
(`excused <- forgotten`). So the properties say what the code gives for every limit: a line is
written again only if its batch has been forgotten.

### FundedOrder

Paths of this part are under `venue-probe/src/`. A step of `child` is a request or a
write of `canary.mjs` (with `executeStrategyCanary` of `canary-lib.mjs`): the lease, three
preflights, the reservation, the consumed authorization, the order, its cancellation, the
reconciliation, and the evidence. `capturePreflight` is three steps (`ReadOpenOrders`,
`SettleReported`, `Preflight`), because other processes run between its reads.
`reservations` holds the state field of each reservation blob and whether it records a
matched notional; `Finalize` overwrites it unconditionally, as `finalizeProbeRisk` does.
A blob's name holds the date: a second index counts the dates on which one intent is
reserved, which is all that midnight changes. `Fail...` is any check, request or write
that throws, with the handler the code runs then; `Crash` kills a child without it.
`redeemer` and `control` are `redeem.mjs` and its control record, `relayed` a
transaction that the relayer may still mine after the worker has gone.

A cancel that the venue answers is done, whatever the answer says of the order
(`cancelOrderWithMetrics`): after `CancelOrder` the order may still be live, and fill while it
is reconciled, and only `Reconcile`, which wants it terminal and nothing open in the
account, gets past it.

The venue is external: an order that was sent may be accepted or rejected at any
later time, fill while it is live, and its market resolve either way. What is taken for
granted of it: a closed order does not fill any more, and the four sources that
`waitForStablePostCancelReconciliation` compares do not agree for five seconds on a wrong
matched size (when they do not agree, `ReconcileIncomplete`).

The properties do not rest on the lease alone. The first preflight counts every
unresolved reservation, the second every one but its own probe's, and a child writes its
reservation before it makes the second: of two children that both reserved, one sees
the other. So an order that leaves after its lease has lapsed is still the only one.

### Settlement

One market on one clock. `known`, `startPrice`, `heard`, `startRef`, `startEvent`,
`startDurable`, `frozen` and `settled` are the fields of `RuntimeData` and `RuntimeEngine`
named at their declaration, cut down to the market; `journal` is the set of its durable
rows and outlives `Restart`, which forgets all the rest. The feed task runs
`HandleReference`, `RetryStart`, `CaptureMarketStartPrices`, `RetryPendingSettlement`,
`MarkSettled`, `FinishedMarket`, `FreezeSettlement` in the order of `handle_reference`
and `settle_finished_markets`, a step from one release of the gate (or of a lock) to the
next; `HandlePaperFills` is an event of the same task. The discovery task
(`ReplaceMarkets`, `RecordDiscovered`) and the evaluator (`Snapshot`, `Prepare`, `Apply`)
run in between. A generation is what it protects: whether the batch under way is still
`fresh`. `Misses` leaves any part of the rows of a failed write behind.

The audit is the reporting crate's, translated from its code: `StartConflict`,
`InvalidSettlements`, `UnprovenBatches`, `JournalConflict` and `HalfWritten` are what
`observe_market_start`, `observe_paper_settlement`, `finalize_strategy_batch_parity`
and the two journal functions object to. So the run composes the writer of the
journal with its reader. `forgotten` is history, and says when a restart has lost what
the journal alone does not hold: a start that another process may then hear
differently, or a settlement of which half is written.

### PromotionLadder

`canonical` is `latest.json`; `Initialized`, `Advanced`, `BlockStopped`, `ExpiryStopped`
and `Authorized` are the pure transitions of `run_bundle.rs` and of the controller, as
sets: the empty set is the error a call returns, `validate` included. A job reads its
inputs, computes a result from one exact prior, reads the canonical blob, and swaps
(`CompareAndSwap`, which may lose its answer and be sent again). The controller's
`BeginStage` and `ConsumeGrant` come before the same swap. What the evidence says is a
choice (`Observations`); gates that are judged alike are one.

Two constants say how far a campaign can get, because the code as it is stops short:
`CanaryIsBound` (see `CompletedStageIsNotBlocked` below; without it the controller publishes no
checkpoint) and `OlderProgressCounts` (`validated_metrics` wants the target of the active
stage in every progress document, `ProgressFits`, and the controller writes its own stage's, so
no checkpoint after the second is accepted). The run sets both to TRUE, which admits every
behaviour of the code and those of a repaired one; the theorems hold for every value. With
`CanaryIsBound = FALSE` no manifest gets past target 5.

### FundedStage

`run[c]` is an execution of the controller: its step, what each of its three listings
returned (they run concurrently, `ListStage`), and its order. A document is its
presence under the name the code gives it, so a create-only write that finds its
name taken is the failure it is in the code. `guarded` is the `try` around the end of an
order whose `catch` blocks the stage (`Fail`). With `StoreMayFail` any read or write in that
`try` may fail (`StoreFails`), a last write that was carried out included (`Finish`), and the
stage is blocked whatever its documents already say. The last order of a stage is counted as
the code counts it, by the authorizations after a child and by the progress after a
settlement (`IsLastOrder`); the two differ when executions overlap. `Crash` kills an
execution with its child at any step, and `overlapped` records that two were ever under way
together: nothing in the code prevents it (the job has parallelism 1 and a manual trigger;
there is no lease), and the properties say which of them need it not to have happened.

## 3. Runs

| Run | Instance | Question |
|---|---|---|
| `paper_engine` | 2 markets, 2 outcomes, 2 prices, takers enabled, 2 batches, time 0..4, limits of 2 and 3 | do the ledgers agree, do limits bound exposure, does an order live as `OrderLifecycle` says |
| `decision_runtime` | 2 markets, 2 batches, 1 feed event, 2 controls, 1 recorder failure | no stale, unaudited or forbidden batch |
| `decision_runtime_fair` | 1 market, adaptive mode, 2 failures | retained work is recorded, a pause ends |
| `decision_runtime_lost` | 2 markets, 2 failures | refutes that an executed batch's application is kept |
| `append_blob` | 2 blocks, reads of 2, 2 foreign blocks, 4 faults, 1 creation under way, both modes of start | acknowledged only when there, and until the service does harm exactly once, in order, in the end all |
| `append_blob_created` | 2 blocks, 1 foreign block, no faults, 1 creation by the other revision | refutes that what was acknowledged stays |
| `recorder` | 2 callers, 2 keys of which 1 is remembered, 1 event, 3 faults, 1 crash | acknowledged is durable, what is asked for is remembered or forgotten for a newer key, nothing else is doubled, everybody answered |
| `settlement` | one market from 0 to 4, every window and age 1, clock to 6, one unit of position | a settled market is flat, one journal, a clean audit, and a frozen settlement is committed |
| `funded_order` | 2 children, 2 intents, 2 dates, 3 reservations, 1 lapse of a held lease | one order at risk, its reservation kept, sent once, truthful evidence |
| `funded_stage` | 2 executions, 3 decisions, a quota of 2, the canary bound, a store that fails | at most the quota, no replacement spending, an exact checkpoint |
| `funded_checkpoint` | 1 execution, the canary as `canary.mjs` writes it, a store that does not fail | refutes that a completed stage is not blocked |
| `promotion_ladder` | 2 jobs, all five targets, every verdict, both constants TRUE | one campaign, granted before it spends, through races for the manifest |

Why the bounds are enough. `paper_engine`: two batches reach a replace, a quote of a
market filled while its other rests, a second market bound by the total position and
order count of the first, expiry, and the final window; a third batch adds no new
relation because a batch sees only the state it finds. `decision_runtime`: one batch
in flight, another applied or retained before it, and one event of each other task
in every place between.
`append_blob`: a fault in each of the first append, its reconciliation and its retry,
and one more, with foreign blocks before and after; of two blocks one is acknowledged while
the other is in doubt. Two foreign blocks and one of the recorder's own exceed the two that a
read covers, so `TooFar` happens, and one creation under way is enough to race the
recorder's own. `recorder`: the same batch from two callers, or two batches, of which the
worker remembers one, so a completed key is dropped while its caller retries; three failures
to exhaust one caller's attempts, an event behind a staged batch, and a crash anywhere. `settlement`: two source times in each window, so two
different starts and two different finals exist; the clock passes the end, the final
window and the retention; restarts and failed writes are not bounded, and the proofs
lift the rest. `funded_order`: two children and the redemption worker are what
the lease may let overlap, and one lapse lets any two; kills are not bounded, and the
lease of a holder that is gone always lapses. Two intents are two orders, two dates a
reservation of the same intent after a resolved one. `funded_stage`: two orders are a
chain with a link, the third decision is the one too many; executions, kills and
restarts are not bounded. `promotion_ladder`: two swaps that race, the second of which may
be a retry; the ladder is whole. For the safety and action properties and the refinements
of every passing run the proofs of section 4 lift these bounds; they stand for the liveness
properties. Every other bound is a constant named `Max...`, or `Horizon`.
`CHECK_DEADLOCK FALSE` is set where the system stops: the engine at the end of its time,
a ladder that has stopped, a stage whose manifest has moved on.

What the refuting runs show:

* `ApplicationIsKept`: `evaluate_once` retries the retained application at its start
  only. When two markets of one pass both fail to record theirs, the second
  replaces the first (runtime.rs 1678), whose evidence and reports are gone, although
  its orders were executed.
* `AcknowledgedStays`: `ensure_append_blob` (storage 385-404) answers a `HEAD` of 404 with a
  `PUT` without `If-None-Match`, which `put_block_blob_if_absent` of the same file does send
  (1584-1595). Two revisions find the blob of a minute missing; one creates it, appends and is
  acknowledged; then the creation of the other arrives. With a service that replaces the blob, as
  a `PUT` without a condition may, the acknowledged block is gone, and with it the durability
  that `docs/profitability-promotion.md` 277-278 asks for before a decision acts. The first
  recorder then meets a blob shorter than it remembers, returns "append position moved
  backwards" (450-454, 597-601) and keeps what it remembers, so every retry of that blob fails.
  The run rests on that reading of the service: with one that answers 409 (line 396) there is no
  counterexample.
* `CompletedStageIsNotBlocked`: the canary of checkpoint 1 writes no funded-stage consumption
  (`canary.mjs` 195-196, both null), and the checkpoint of every later stage requires
  one of its first entry (`exactParentControlBinding`). So `publishStageCheckpoint` throws
  whenever it is called. After a last order without a fill that happens inside the `try`
  of the order, and the completed stage is blocked; after a last order that was filled
  nothing is written, and every later execution throws again. `funded_stage` is
  checked with a bound canary (`CanaryIsBound = TRUE`), to say what the rest of the code
  guarantees: `CheckpointIsExact` would hold vacuously otherwise. The refuting run sets
  `StoreMayFail = FALSE`, so that nothing but the missing binding can block the stage.

Observations that contradict no statement of the repository, or are a matter of reading it:

* Two makers rest and one is filled. The next batch wants both; the one that rests
  still matches, so `needs_cancel` is false and `reconcile` reports a hold for
  quotes "already resting" (engine 766-770). The missing quote comes back only when
  the other expires, moves or is cancelled.
* The final-window check is made when a batch is evaluated. The batch then waits for
  the gate and for its evidence; the comparison looks at generations, which time does not
  move, so an order is accepted inside the window (`docs/strategy.md` 455-461). What it
  could do to a settlement is excluded by `SettledStaysFlat`, under the assumption
  that the venue's clock is not ahead by more than the final window.
* A market without an exact reference within 15 s of its end is never settled: it keeps
  its position until a restart forgets both (runtime.rs 2246).
* A filled order that loses gets no terminal evidence, because redemption selects winners
  only: it stays in `pending-terminal/`, and its stage waits (`Redeem` in `FundedStage` may
  never be taken).
* `validated_metrics` (`run_bundle.rs` 2698-2703) requires of every progress document
  the target of the active stage, which the documents of earlier stages do not have
  (`funded-ladder-controller.mjs` 441), so the checkpoints of 25 and later are refused;
  `ProgressFits` is that test. Rust also writes `updated_at` without the milliseconds
  JavaScript writes, which the hash of a state includes; the model abstracts hashes and so
  takes the intended comparison.
* `stop_terminal` (`run_bundle.rs` 4203) leaves `queue_model_transition` as it is, and
  `validate` (4252-4276) wants one in every terminal state whose target is 100, so a
  campaign at that target could be stopped neither by its stage block nor by its expiry. In the
  code as it is no campaign gets to that target, for the reasons above: this is the next thing
  to meet once they are repaired, and no property states it.

### Fairness

* `decision_runtime_fair`: weak fairness of the evaluator (an endless loop with a
  one-second sleep), of a feed handler that has begun and of a pause request that has
  begun (tokio polls a task that can run). No fairness of events, controls or the
  recorder's recovery: `MaxFailures` bounds the outage.
* `append_blob`: weak fairness of the client, because the buffer retries a block as long
  as it fails. None of the service's delayed requests, of the other revision or of the
  end of the handoff. Faults are bounded: the property is about a service that recovers.
* `recorder`: weak fairness of the worker's two steps (it takes requests while there are
  any and runs its timer otherwise) and of a caller that has been answered.
* `settlement`: weak fairness of the feed task's steps (it takes its events one after the
  other), weak fairness of `HandleReference` (the streams reconnect for ever, so events
  keep coming, whatever their time) and strong fairness of a successful
  `RetryPendingSettlement` (an outage of the recorder may come again but does not
  last). None of discovery, evaluator, fills, the clock or restarts.

Assumptions that were varied. `funded_stage` without the disjunct `overlapped` fails both
properties that name it: two executions list the stage, and both authorize an order. `recorder`
with a limit of 1 and `forgotten` left out of `RememberedWhileAsked` and of the journal's excuse
fails both: a batch fails and stays staged, it is written before the next one, whose key
takes its place, and the retry of its caller writes the lines again. The code remembers
10,000 keys (runtime.rs 50), and nothing ties that number to how long a frozen batch may be
retried. In the same way `BlobIsJournal` without `harm` fails in two ways, by a block that is
appended twice and by one that is gone, and `AppendsAll` without `TooFar` or without
`"overwritten"` by a recorder that retries for ever. They are listed as hazards at their lines.

## 4. Proofs

`PaperEngine_proofs` proves, for any finite set of markets, any limits and any bounds:
`TypeCorrect`, `TrackedIsResting`, `ExposureIsBounded`, `KeepsOnlyWanted`, `LedgersAddUp` and
`ImplementsLifecycle`.
The inductive invariant adds to the checked ones: names of resting orders are unique
and none is from a batch to come (`NamesInv`), every resting order was clipped
(`SizesInv`), and the histories agree with the state (`HistoryInv`); without them a fill
or a cancellation in one market could take an order of another. The heart is
`ExecuteIInv`, one lemma for all callers of `Execute` under the precondition `Batch`
(what the filter and reconcile guarantee), with `EvaluateBatch` showing that
`Evaluate` establishes it: makers are placed only when the market's quotes were
cancelled or there were none, hence `ExposureBound`. `KeepsOnlyWanted` follows from the
tracking of resting orders. `LedgersAddUp` has an invariant of its own (`LedgerInv`: the
ledgers agree, the fills are finitely many, and a settled market is over, so nothing is
booked in it again) and needs what a sum over a finite set does when one summand changes
or one is added (`SumUpdate`, `SizeAdd`). The library defines sums by recursion on sets, and
its induction theorems cannot be used here, so the lemmas come from a least counterexample
(`LeastNatural`, `SubsetInduction`, `RecursionExists`).

`DecisionRuntime_proofs` proves, for any markets and any number of batches, events,
controls and failures: `TypeCorrect`, `NeverStale`, `AuditedFirst`, `ReportedDurably`,
`PausedStaysEmpty` and `StoppedPlacesNothing`. The invariant says that generations are
faithful: `SnapInv` and `PrepInv` (a generation that did not move stands for data that
did not change), `GateInv` (the gate is held across an await exactly where the
evaluator compares and applies) and `ComparedInv` (so nothing moves between the
comparison and the application). Each part is preserved by its own lemma, one case
per action.

`Settlement_proofs` proves, for any times, windows, ages and positions, and any number of
restarts and failed writes, every safety property of its run. The argument goes in one
direction: a start is captured once, and everything about to be recorded is that start
(`StartInv`); a settlement begins when nothing can be traded any more, because the venue's
clock is ahead by no more than the final window (`LateInv`); a batch that is still fresh
therefore excludes a frozen journal, so the position does not move under it
(`FlatInv`); so one journal is frozen and only it is written (`OnceInv`); so the audit
finds what it looks for (`AuditInv`).

`PromotionLadder_proofs` proves, for any number of jobs, that they implement
`FundedCampaign` and that spending is granted. The invariant says that every result a job
carries is one abstract step from the prior it was computed from (`Follows` in
`StoreInv`); the swap happens over that prior only, so it is that step. `GrantInv`
has one waiting manifest at every index, so a grant cannot be used for another; the grant is
consumed before the swap (`ConsumptionInv`), so every stage past the first is counted by
a consumption of its own (`StageInv`).

`FundedStage_proofs` proves, for any quota, any finite number of executions and
decisions: `QuotaIsKept`, `CheckpointsAreExact` and `NothingIsReplaced`. `DocumentInv` and
`OrderInv` say what the presence of a document, and the step of an execution, tell of an
order. `ChainInv` needs nothing else: a document is written once, and a chain is only
extended when there is one document of every length below it, so the last one is
unique, overlap or not. `SoloInv` is about stages without overlap: an execution that is
alone decides on listings that are still exact, so it authorizes an order only below the
quota and with nothing pending.

`AppendBlob_proofs` proves, for any number of blocks, faults, foreign blocks and creations and
any limit of a read, `TypeCorrect`, `OnlyWhatIsThere` and `WrittenOnce`, none of which has a
hypothesis on the service. `IInv` has two parts. One holds whatever the service does
(`ActiveInv`), and `OnlyWhatIsThere` follows from it step by step: Ok is returned where the
block was just appended or was read in the blob. The other holds until `harm`: the recorder's
own blocks are 1, 2, ... up to the block to append or the one before it (`OrderInv`), and the
block to append is in the blob only beyond the places that the client will look from, its known
length and its handoff position (`PlaceInv`, `PathInv` for what each step of the client knows),
so reconciliation finds it if it is there, and a retry happens only if it is not. A request that
may still be acted on is bound to a length the blob no longer has, or is the unconditional one
whose block has not been looked for (`DelayedInv`). A creation keeps all of it unless it replaces
a blob that holds blocks, which is harm.

`Recorder_proofs` proves, for any callers, batches, events, faults and any limit of remembered
keys: `TypeCorrect`, `AloneWhenStaged`, `AcknowledgedIsWritten` (the lines of an acknowledged batch
are in the journal), `Remembering` and `Durable`, without a hypothesis on how many batches there
are. That a line is in the journal once needs the memory, because the worker knows a batch by its
key: a batch with a line in journal or buffer and a caller that still asks is staged, completed or
forgotten (`OnceInv`), and what is staged is alone in the buffer (`StagedInv`), so a retry of a
batch that is not forgotten writes nothing that is already written.

`FundedOrder_proofs` proves, for any number of children, dates and lapses and any finite set of
intents: `TypeCorrect`, `OneAtRisk`, `CapitalReserved`, `TrueEvidence` and
`OneOrderPerAuthorization`. The blobs that are created once give a reservation and an
authorization one owner (`ReservationInv`, `OnceInv`). `SafeInv` is the heart: an order at
risk has an unresolved reservation which no child is about to give back as unused. A child about to
send passed its second preflight while its own reservation was written and saw no other; whoever
reserved later sees it. That, and not the lease, is why two intents are never exposed at once
(`OneInv`, where a child about to send counts as exposed).

The assumptions are the named ASSUMEs of the modules (constants are naturals, sets are
finite where they are counted, None is not a value, the order of the times of a market);
TLC evaluates them in the runs. No theorem has a hypothesis of its own: what the service or
a forgetful worker may do is in the statements (`harm`, `forgotten`), not assumed away.

Only model-checked: the liveness properties (`NothingWaitsForEver`, `AppendsAll`,
`NothingIsStuck`, `FrozenIsSettled`), which like ENABLED are out of the prover's reach. The
theorems of the library that take an operator (induction over naturals or sets) cannot be
instantiated; where a sum is needed the least counterexample takes their place, as above. No
module declares a RECURSIVE operator. What the refuting runs show is TLC's as well.

## 5. Not modelled, and why

* Decimal arithmetic of fair values, prices and fees; the regime classifier (one series,
  one task, its effect on a batch is a choice in `PaperEngine`); the statistics of the
  reports (loss diagnostics, regime out-of-sample, labs research), whose questions are
  numerical.
* The contents of evidence and its hashes (documents and batches are distinct values); block
  sizes, blob names, tokens; the local JSONL-only recorder.
* The publication of a daily bundle (`AtomicDailyRun`, `run_bundle.rs` 604-778) and its
  reader in the labs API (`labs.rs` 1681-1947): a manifest that is written after its artifacts,
  a pointer per date with its hash, and a global pointer that is compared by date before it is
  replaced. Planned.
* Execution quality observes and changes no order. Execution intents are immutable
  blobs, created once, for a consumer outside the runtime; what that may assume of their
  age is stated nowhere in the repository.
* Feeds as such (their events come in any order, with any gap), websocket reconnects of the
  canary (it trades on the reconciliation, not on the socket) and the older probe.
* Read paths: HTTP views, history, charts, the labs API with its job launcher (each call reads,
  shows and starts; the state is the cloud's), command line, frontend, deployment.

## 6. Plan

1. Done: the trading engine, the decision runtime, the journal's client and worker, and
   their proofs.
2. Done: the venue side, from one order (`FundedOrder`) to its stage (`FundedStage`) and
   to the ladder above it (`PromotionLadder`, `FundedCampaign`), the last two proved.
3. Done: `Settlement`, composed with the audit of the journal, proved.
4. Done: the proofs of `AppendBlob`, `Recorder` and `FundedOrder`, and of the ledgers of
   `PaperEngine`. Every safety property that a run checks has a theorem.
5. `DailyBundle`: writer, pointers and the verifying reader, with kills and with runs of two dates
   that end together.
6. Proofs next: lemmas that state the interfaces of section 2 (what a flush of `AppendBlob`
   gives `Recorder`, what an attempt of `Recorder` gives `DecisionRuntime`) as theorems of the module
   that keeps the promise; a bound on the batches that may come between a batch and its last
   retry, under which nothing is ever forgotten too early.
