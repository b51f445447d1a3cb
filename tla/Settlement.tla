----------------------------- MODULE Settlement -----------------------------
(* One market of the paper runtime (polyedge-api/src/runtime.rs) from its    *)
(* start price to its settlement: the feed task that hears references and    *)
(* fills orders, the discovery task that replaces the markets, the evaluator *)
(* that decides, the journal they write to and what the daily audit          *)
(* (polyedge-reporting/src/research.rs) reads out of it.  The process may    *)
(* die anywhere; positions, references and frozen journals are memory.       *)
(*                                                                          *)
(* Abstracted: time is counted in steps of the local clock; an exact         *)
(* reference is its source time (a price is a function of it), None one that *)
(* is stale, inexact or in neither of the market's two windows; the orders   *)
(* of the market are one.  What a generation protects is whether a batch is  *)
(* still fresh.  The journal is the set of its rows, for the audit drops the *)
(* repeated ones and joins the rest after the day; a settlement is two rows, *)
(* so a write may leave half of it.                                          *)
EXTENDS Integers, FiniteSets, FiniteSetsExt

CONSTANTS
  None, Described,        \* no price; the price that the description names
  Start, End,             \* of the market
  Grace,                  \* start_price_capture_grace_seconds
  Window,                 \* SETTLEMENT_WINDOW, 15 s
  FinalWindow,            \* final_no_trade_seconds
  Retention,              \* PENDING_SETTLEMENT_RETENTION_SECONDS
  MaxAge,                 \* max_reference_age_ms
  Skew,                   \* how far the venue's clock may be ahead of ours
  MaxPosition, Horizon    \* bounds of the model

ASSUME TimeAssumption ==
  /\ {Start, End, Grace, Window, FinalWindow, Retention, MaxAge, Skew, MaxPosition, Horizon} \subseteq Nat
  /\ Skew <= FinalWindow
  /\ Start + Grace + MaxAge + Skew < End

ASSUME PriceAssumption == None \notin Nat /\ Described \notin Nat /\ None # Described

VARIABLES
  now,                    \* the local clock
  known, startPrice,      \* data.markets: the market is listed; its start_price
  heard,                  \* exact_references of the market's first seconds
  startRef,               \* market_start_references
  startEvent,             \* pending_market_start_events
  startDurable,           \* market_start_evidence_durable
  frozen,                 \* pending_settlements
  settled,                \* settled_markets
  resting, position,      \* of the market: an order that rests, the position
  batch,                  \* the evaluator's: its step, its evidence, its freshness
  feed,                   \* the feed task: its step, its reference, its locals
  discovering,            \* the start event the discovery task records
  journal,                \* the rows that are durable
  forgotten               \* history: a restart forgot a start that may be heard
                          \* again, or a journal that is half written

data == <<known, startPrice, heard, startRef, startEvent, startDurable, settled>>
memory == <<data, frozen, resting, position>>
vars == <<now, memory, batch, feed, discovering, journal, forgotten>>

StartWindow == Start..(Start + Grace)
EndWindow == End..(End + Window)
Prices == StartWindow \cup {None, Described}

Row(kind, start, final, cleared) ==
  [kind |-> kind, start |-> start, final |-> final, cleared |-> cleared]

StartRow(s) == Row("market_start_price", s, None, 0)
BatchRow(s) == Row("strategy_decision_batch", s, None, 0)

\* finalize_settlement_journal: the markouts that are missing, then the settlement.
SettlementRows(j) ==
  {Row("missing_markout", j.start, j.final, j.cleared), Row("paper_settlement", j.start, j.final, j.cleared)}

(* The daily audit, over the rows of the market.                             *)

Starts      == {r \in journal : r.kind = "market_start_price"}
Batches     == {r \in journal : r.kind = "strategy_decision_batch"}
Journals    == {r \in journal : r.final # None}
Settlements == {r \in Journals : r.kind = "paper_settlement"}

\* observe_market_start: one start, and every event repeats it.
StartConflict == Cardinality({r.start : r \in Starts}) > 1

\* observe_settlement_journal_event: the name of a journal hashes both references.
JournalConflict == \E r, s \in Journals : r.start = s.start /\ r.final = s.final /\ r.cleared # s.cleared

\* finalize_settlement_journals: every index of a journal is there.
HalfWritten == {r \in Journals : ~ SettlementRows(r) \subseteq journal}

\* observe_paper_settlement: it repeats the start that is known.
InvalidSettlements == {r \in Settlements : \E s \in Starts : s.start # r.start}

\* finalize_strategy_batch_parity: the independent event of the same start.
UnprovenBatches == {r \in Batches : StartConflict \/ StartRow(r.start) \notin journal}

NoBatch == [pc |-> "idle", start |-> None, fresh |-> FALSE]
NoFeed == [pc |-> "idle", tick |-> None, writing |-> None, view |-> None]

Fresh ==                                  \* memory of a process that has just started
  /\ known = FALSE /\ startPrice = None /\ heard = {} /\ startRef = None /\ startEvent = None
  /\ startDurable = FALSE /\ settled = FALSE /\ frozen = None /\ resting = FALSE /\ position = 0
  /\ batch = NoBatch /\ feed = NoFeed /\ discovering = None

Init == now = 0 /\ journal = {} /\ forgotten = FALSE /\ Fresh

-----------------------------------------------------------------------------
(* What decision_generation does to the evaluator's batch: a change of the   *)
(* data spoils it from its snapshot on, one of the engine from the           *)
(* preparation on.                                                           *)

DataMoves   == batch' = [batch EXCEPT !.fresh = FALSE]
EngineMoves == batch' = IF batch.pc = "copied" THEN batch ELSE [batch EXCEPT !.fresh = FALSE]

(* record_required_runtime_events.  It fails after any part of the rows has  *)
(* been written.                                                             *)
Records(rows) == journal' = journal \cup rows
Misses(rows)  == \E part \in SUBSET rows : journal' = journal \cup part

(* retry_pending_market_start_events for the copy a task has taken: recorded,  *)
(* and acknowledged when it is still the one that waits.                       *)
StartRecorded(event) ==
  IF event = None THEN UNCHANGED <<journal, startEvent, startDurable, batch>>
  ELSE \/ Misses({StartRow(event)}) /\ UNCHANGED <<startEvent, startDurable, batch>>
       \/ /\ Records({StartRow(event)})
          /\ IF startEvent = event
             THEN startEvent' = None /\ startDurable' = TRUE /\ DataMoves
             ELSE UNCHANGED <<startEvent, startDurable, batch>>

-----------------------------------------------------------------------------
(* The feed task, one event after the other.                                 *)

At(pc) == feed.pc = pc
Goto(pc) == feed' = [feed EXCEPT !.pc = pc, !.writing = None]
Done == feed' = NoFeed

\* handle_reference, up to the release of the gate.  A reference that is dropped
\* because an application is retained is one that has not come.
HandleReference ==
  \E tick \in StartWindow \cup EndWindow \cup {None} :
    /\ At("idle")
    /\ tick # None => now - MaxAge <= tick /\ tick <= now + Skew
    /\ heard' = heard \cup ({tick} \cap StartWindow)
    /\ DataMoves
    /\ feed' = [NoFeed EXCEPT !.pc = "retry_start", !.tick = tick, !.writing = startEvent]
    /\ UNCHANGED <<now, known, startPrice, startRef, startEvent, startDurable, settled, frozen, resting,
                   position, discovering, journal, forgotten>>

RetryStart ==
  /\ feed.pc \in {"retry_start", "record_start"}
  /\ StartRecorded(feed.writing)
  /\ Goto(IF At("retry_start") THEN "capture" ELSE "retry_settlement")
  /\ UNCHANGED <<now, known, startPrice, heard, startRef, settled, frozen, resting, position, discovering,
                 forgotten>>

\* mutant: a start that still waits to be recorded is forgotten
CapturedIfDurable == startDurable

Captured == startDurable \/ startEvent # None

\* mutant: any exact reference after the start is the start price
CaptureAnyReference ==
  /\ At("capture")
  /\ IF feed.tick # None /\ known /\ ~Captured
     THEN /\ startPrice' = feed.tick /\ startRef' = feed.tick /\ startEvent' = feed.tick
          /\ DataMoves
     ELSE UNCHANGED <<startPrice, startRef, startEvent, batch>>
  /\ feed' = [feed EXCEPT !.pc = "record_start", !.writing = startEvent']
  /\ UNCHANGED <<now, known, heard, startDurable, settled, frozen, resting, position, discovering, journal,
                 forgotten>>

CaptureMarketStartPrices ==
  /\ At("capture")
  /\ IF feed.tick \in StartWindow /\ known /\ ~Captured
     THEN /\ startPrice' = feed.tick /\ startRef' = feed.tick /\ startEvent' = feed.tick
          /\ DataMoves
     ELSE UNCHANGED <<startPrice, startRef, startEvent, batch>>
  /\ feed' = [feed EXCEPT !.pc = "record_start", !.writing = startEvent']
  /\ UNCHANGED <<now, known, heard, startDurable, settled, frozen, resting, position, discovering, journal,
                 forgotten>>

\* The commit of retry_pending_settlement, up to the release of the gate.
Commit ==
  /\ resting' = FALSE /\ position' = 0 /\ frozen' = None
  /\ EngineMoves

\* mutant: a market whose journal is retained is looked at again
RetryAndLookAgain ==
  /\ feed.pc \in {"retry_settlement", "settle"}
  /\ \/ /\ frozen = None
        /\ Goto("market")
        /\ UNCHANGED <<frozen, resting, position, batch, journal>>
     \/ /\ frozen # None
        /\ Misses(SettlementRows(frozen))
        /\ IF At("settle") THEN Done ELSE Goto("market")
        /\ UNCHANGED <<frozen, resting, position, batch>>
     \/ /\ frozen # None
        /\ Records(SettlementRows(frozen))
        /\ Commit
        /\ Goto(IF At("settle") THEN "mark" ELSE "mark_retried")
  /\ UNCHANGED <<now, data, discovering, forgotten>>

\* mutant: the time of the reference is looked at before the retry
RetryInTime ==
  /\ feed.pc \in {"retry_settlement", "settle"}
  /\ \/ /\ frozen = None
        /\ Goto("market")
        /\ UNCHANGED <<frozen, resting, position, batch, journal>>
     \/ /\ frozen # None
        /\ Misses(SettlementRows(frozen))
        /\ Done
        /\ UNCHANGED <<frozen, resting, position, batch>>
     \/ /\ frozen # None /\ feed.tick \in EndWindow
        /\ Records(SettlementRows(frozen))
        /\ Commit
        /\ Goto(IF At("settle") THEN "mark" ELSE "mark_retried")
  /\ UNCHANGED <<now, data, discovering, forgotten>>

\* retry_pending_settlement, before and after the market has been looked at.
\* The gate is held over the record, so nobody sees its middle.
RetryPendingSettlement ==
  /\ feed.pc \in {"retry_settlement", "settle"}
  /\ \/ /\ frozen = None
        /\ Goto("market")
        /\ UNCHANGED <<frozen, resting, position, batch, journal>>
     \/ /\ frozen # None
        /\ Misses(SettlementRows(frozen))
        /\ Done
        /\ UNCHANGED <<frozen, resting, position, batch>>
     \/ /\ frozen # None
        /\ Records(SettlementRows(frozen))
        /\ Commit
        /\ Goto(IF At("settle") THEN "mark" ELSE "mark_retried")
  /\ UNCHANGED <<now, data, discovering, forgotten>>

\* The gate is free again when the market is marked.
MarkSettled ==
  /\ feed.pc \in {"mark", "mark_retried"}
  /\ settled' = TRUE
  /\ DataMoves
  /\ IF At("mark") THEN Done ELSE Goto("market")
  /\ UNCHANGED <<now, known, startPrice, heard, startRef, startEvent, startDurable, frozen, resting, position,
                 discovering, journal, forgotten>>

\* settle_finished_markets: the copy of the market, and its time.
FinishedMarket ==
  /\ At("market")
  /\ IF known /\ startPrice # None /\ feed.tick \in EndWindow
     THEN feed' = [feed EXCEPT !.pc = "freeze", !.view = startPrice]
     ELSE Done
  /\ UNCHANGED <<now, memory, batch, discovering, journal, forgotten>>

FreezeSettlement ==
  /\ At("freeze")
  /\ IF ~settled /\ startRef # None /\ feed.view = startRef
     THEN /\ frozen' = [start |-> startRef, final |-> feed.tick, cleared |-> position]
          /\ EngineMoves
          /\ Goto("settle")
     ELSE Done /\ UNCHANGED <<frozen, batch>>
  /\ UNCHANGED <<now, data, resting, position, discovering, journal, forgotten>>

\* mutant: the fill does not look at the market's times
FillAnyTime ==
  /\ At("idle") /\ known /\ resting /\ position < MaxPosition
  /\ resting' = FALSE /\ position' = position + 1
  /\ EngineMoves
  /\ UNCHANGED <<now, data, frozen, feed, discovering, journal, forgotten>>

Tradable == Start <= now /\ now < End /\ End - now > FinalWindow

\* handle_paper_fills: an event of the same task as the references.
HandlePaperFills ==
  /\ At("idle") /\ known /\ resting /\ position < MaxPosition /\ Tradable
  /\ resting' = FALSE /\ position' = position + 1
  /\ EngineMoves
  /\ UNCHANGED <<now, data, frozen, feed, discovering, journal, forgotten>>

-----------------------------------------------------------------------------
(* The discovery task.                                                       *)

\* What replace_markets makes of a description: its start price.
Discovered(described) ==
  IF startRef # None THEN startRef
  ELSE IF heard # {} THEN Min(heard)
  ELSE IF described = None /\ known THEN startPrice
  ELSE described

ReplaceMarkets ==
  /\ discovering = None
  /\ \/ \E described \in {None, Described} :
          /\ known' = TRUE /\ startPrice' = Discovered(described)
          /\ IF startRef = None /\ heard # {}
             THEN startRef' = Min(heard) /\ startEvent' = IF startEvent = None THEN Min(heard) ELSE startEvent
             ELSE UNCHANGED <<startRef, startEvent>>
     \/ /\ known' = (known /\ ~settled /\ now - End <= Retention)
        /\ startPrice' = IF known' THEN startPrice ELSE None
        /\ UNCHANGED <<startRef, startEvent>>
  /\ DataMoves
  /\ discovering' = startEvent'
  /\ UNCHANGED <<now, heard, startDurable, settled, frozen, resting, position, feed, journal, forgotten>>

RecordDiscovered ==
  /\ discovering # None
  /\ StartRecorded(discovering)
  /\ discovering' = None
  /\ UNCHANGED <<now, known, startPrice, heard, startRef, settled, frozen, resting, position, feed, forgotten>>

-----------------------------------------------------------------------------
(* The evaluator, as far as the market's evidence and its end go.            *)

\* mutant: the start event need not be durable
SnapshotUnproven ==
  /\ batch.pc = "idle"
  /\ known /\ Start <= now /\ now < End
  /\ startRef \in StartWindow /\ startPrice = startRef
  /\ batch' = [pc |-> "copied", start |-> startRef, fresh |-> TRUE]
  /\ UNCHANGED <<now, memory, feed, discovering, journal, forgotten>>

\* evaluate_once: the copies, without the gate.
Snapshot ==
  /\ batch.pc = "idle"
  /\ known /\ Start <= now /\ now < End
  /\ startDurable /\ startRef \in StartWindow /\ startPrice = startRef
  /\ batch' = [pc |-> "copied", start |-> startRef, fresh |-> TRUE]
  /\ UNCHANGED <<now, memory, feed, discovering, journal, forgotten>>

\* Under the gate: the batch is decided by the clock, and cancels or places.
Prepare ==
  /\ batch.pc = "copied"
  /\ batch' = IF ~batch.fresh THEN NoBatch
              ELSE [batch EXCEPT !.pc = IF Tradable THEN "prepared" ELSE "cancelling"]
  /\ UNCHANGED <<now, memory, feed, discovering, journal, forgotten>>

\* mutant: the generations are not compared
ApplyStale ==
  /\ batch.pc \in {"prepared", "cancelling"}
  /\ batch' = NoBatch
  /\ \/ Misses({BatchRow(batch.start)}) /\ UNCHANGED <<resting, position>>
     \/ /\ Records({BatchRow(batch.start)})
        /\ resting' \in {FALSE, batch.pc = "prepared"} /\ UNCHANGED position
  /\ UNCHANGED <<now, data, frozen, feed, discovering, forgotten>>

\* Under the gate: compare the generations, record, execute.
Apply ==
  /\ batch.pc \in {"prepared", "cancelling"}
  /\ batch' = NoBatch
  /\ \/ ~batch.fresh /\ UNCHANGED <<resting, position, journal>>
     \/ batch.fresh /\ Misses({BatchRow(batch.start)}) /\ UNCHANGED <<resting, position>>
     \/ /\ batch.fresh /\ Records({BatchRow(batch.start)})
        /\ \/ resting' \in {FALSE, batch.pc = "prepared"} /\ UNCHANGED position
           \/ /\ batch.pc = "prepared" /\ position < MaxPosition
              /\ position' = position + 1 /\ UNCHANGED resting
  /\ UNCHANGED <<now, data, frozen, feed, discovering, forgotten>>

-----------------------------------------------------------------------------

Clock ==
  /\ now < Horizon /\ now' = now + 1
  /\ UNCHANGED <<memory, batch, feed, discovering, journal, forgotten>>

\* The process dies and another one starts with nothing in its memory.
Restart ==
  /\ known' = FALSE /\ startPrice' = None /\ heard' = {} /\ startRef' = None /\ startEvent' = None
  /\ startDurable' = FALSE /\ settled' = FALSE /\ frozen' = None /\ resting' = FALSE /\ position' = 0
  /\ batch' = NoBatch /\ feed' = NoFeed /\ discovering' = None
  /\ forgotten' = (forgotten \/ now <= Start + Grace + MaxAge \/ HalfWritten # {})
  /\ UNCHANGED <<now, journal>>

FeedStep ==
  RetryStart \/ CaptureMarketStartPrices \/ RetryPendingSettlement \/ MarkSettled \/ FinishedMarket
  \/ FreezeSettlement

Next ==
  \/ HandleReference \/ FeedStep \/ HandlePaperFills
  \/ ReplaceMarkets \/ RecordDiscovered
  \/ Snapshot \/ Prepare \/ Apply
  \/ Clock \/ Restart

(* The feed task runs when it can, references keep coming (the streams       *)
(* reconnect for ever), and the recorder does not always fail.               *)
Fairness ==
  /\ WF_vars(FeedStep)
  /\ WF_vars(HandleReference)
  /\ SF_vars(RetryPendingSettlement /\ frozen # None /\ frozen' = None)

SafeSpec == Init /\ [][Next]_vars
Spec == SafeSpec /\ Fairness

-----------------------------------------------------------------------------

FeedSteps ==
  {"idle", "retry_start", "capture", "record_start", "retry_settlement", "market", "freeze", "settle", "mark",
   "mark_retried"}

FeedStates ==
  [pc : FeedSteps, tick : StartWindow \cup EndWindow \cup {None}, writing : StartWindow \cup {None}, view : Prices]

EvaluatorStates ==
  [pc : {"idle", "copied", "prepared", "cancelling"}, start : StartWindow \cup {None}, fresh : BOOLEAN]

MarketTypes ==
  /\ known \in BOOLEAN /\ startPrice \in Prices /\ heard \subseteq StartWindow
  /\ startRef \in StartWindow \cup {None} /\ startEvent \in StartWindow \cup {None}
  /\ startDurable \in BOOLEAN /\ settled \in BOOLEAN

EngineTypes ==
  /\ frozen # None => frozen.start \in StartWindow /\ frozen.final \in EndWindow /\ frozen.cleared \in 0..MaxPosition
  /\ resting \in BOOLEAN /\ position \in 0..MaxPosition

TaskTypes ==
  batch \in EvaluatorStates /\ feed \in FeedStates /\ discovering \in StartWindow \cup {None}

TypeOK == MarketTypes /\ EngineTypes /\ TaskTypes /\ now \in 0..Horizon /\ forgotten \in BOOLEAN

(* A market that is settled, or whose settlement is committed and not yet    *)
(* marked, has neither an order nor a position, whatever batch was under way *)
(* and however often it is discovered again.                                 *)
SettledStaysFlat ==
  settled \/ feed.pc \in {"mark", "mark_retried"} => position = 0 /\ ~resting

(* The decisions of a market follow its start: a batch is durable only after *)
(* the start event that binds the same reference is, restarts or not.        *)
BatchFollowsStart == \A r \in Batches : StartRow(r.start) \in journal

(* The audit finds nothing to object to in the rows of a market, whoever     *)
(* captured its start and whatever was written twice or in part, but for a   *)
(* journal that is about to be written again; unless a restart forgot that   *)
(* journal, or a start that another incarnation then captured differently.   *)
AuditPasses ==
  /\ StartConflict \/ JournalConflict \/ InvalidSettlements # {} \/ UnprovenBatches # {} => forgotten
  /\ HalfWritten # {} => frozen # None \/ forgotten

(* All that is durable of a market's settlement is one journal, with one     *)
(* final reference and one cleared position, through retries that write it   *)
(* in parts, late references and restarts.                                   *)
SettledOnce ==
  \A r, s \in Journals : r.final = s.final /\ r.start = s.start /\ r.cleared = s.cleared

(* What a settlement takes from the risk manager is what its journal says,   *)
(* and the journal is durable by then: no fill comes between.                *)
ClearedAsJournaled ==
  [][frozen # None /\ frozen' = None /\ ~Restart =>
       frozen.cleared = position /\ SettlementRows(frozen) \subseteq journal']_vars

(* A frozen journal is retried before the time of the reference is looked    *)
(* at, so a delay of the storage does not make a settlement disappear after  *)
(* its final-price window (only a restart does).                             *)
FrozenIsSettled == frozen # None ~> frozen = None
=============================================================================
