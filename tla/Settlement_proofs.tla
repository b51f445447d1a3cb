-------------------------- MODULE Settlement_proofs --------------------------
(* Proofs about Settlement, for all times, prices, windows and positions, in *)
(* the order of the argument: a start is captured once; a settlement begins  *)
(* when nothing can be traded any more; a fresh batch then excludes it; one   *)
(* journal is frozen and written; so the audit has nothing to find.          *)
EXTENDS Settlement, WellFoundedInduction, FiniteSetTheorems, TLAPS

Committed == settled \/ feed.pc \in {"mark", "mark_retried"}

\* too late for a fill or an order: the skew of the venue's clock is smaller than the
\* final window
Late == now + Skew >= End

\* no start will be captured any more by this process
StartIsOver ==
  /\ startRef = None /\ heard = {} /\ feed.tick \notin StartWindow
  /\ now > Start + Grace + MaxAge

\* there is one captured start, and what is about to be recorded is it
StartInv ==
  /\ startRef # None => Captured
  /\ \A event \in {startEvent, feed.writing, discovering} : event # None => event = startRef
  /\ startDurable => startRef # None /\ StartRow(startRef) \in journal
  /\ batch.pc # "idle" => StartRow(batch.start) \in journal
  /\ BatchFollowsStart

\* a settlement begins when nothing can be traded any more
LateInv ==
  /\ feed.pc = "freeze" => feed.tick \in EndWindow
  /\ feed.tick \in EndWindow => feed.tick <= now + Skew
  /\ frozen # None \/ Committed \/ feed.pc \in {"freeze", "settle"} => Late
  /\ Journals # {} => Late

FlatInv ==
  /\ batch.pc = "prepared" /\ batch.fresh => frozen = None /\ ~Committed
  /\ frozen # None => position = frozen.cleared
  /\ SettledStaysFlat

\* what is journaled is the one that is frozen, and then nothing more is frozen
OnceInv ==
  /\ frozen # None => Journals \subseteq SettlementRows(frozen)
  /\ feed.pc \in {"market", "freeze", "mark", "mark_retried"} => frozen = None
  /\ Journals # {} /\ frozen = None => Committed \/ StartIsOver
  /\ SettledOnce

AuditInv ==
  /\ \A r \in journal : r.start # None
  /\ frozen # None => frozen.start = startRef
  /\ HalfWritten # {} => frozen # None \/ forgotten
  /\ ~forgotten =>
       /\ \A r, s \in Starts \cup Settlements : r.start = s.start
       /\ \A r \in Starts \cup Settlements : r.start = startRef \/ StartIsOver

IInv == TypeOK /\ StartInv /\ LateInv /\ FlatInv /\ OnceInv /\ AuditInv

\* The constants are numbers, and a market is over before its venue can say so.
LEMMA Constants ==
  /\ Start \in Nat /\ End \in Nat /\ Grace \in Nat /\ Window \in Nat /\ FinalWindow \in Nat
  /\ Retention \in Nat /\ MaxAge \in Nat /\ Skew \in Nat /\ MaxPosition \in Nat /\ Horizon \in Nat
  /\ Skew <= FinalWindow /\ Start + Grace + MaxAge + Skew < End
BY TimeAssumption, Zenon

\* The earliest reference that was heard is one of them.
LEMMA EarliestReference ==
  ASSUME heard \subseteq StartWindow, heard # {}
  PROVE  Min(heard) \in heard
<1>1. heard \subseteq Nat
  BY Constants DEF StartWindow
<1>2. PICK x \in heard : \A y \in heard : ~(<<y, x>> \in OpToRel(<, Nat))
  BY <1>1, NatLessThanWellFounded, WFMin
<1>3. ASSUME NEW y \in heard PROVE x <= y
  <2>1. x \in Nat /\ y \in Nat
    BY <1>1
  <2>2. <<y, x>>[1] = y /\ <<y, x>>[2] = x /\ <<y, x>> \in Nat \X Nat
    BY <2>1
  <2>3. ~(y < x)
    BY <1>2, <2>2 DEF OpToRel
  <2> QED
    BY <2>1, <2>3
<1> QED
  BY <1>3 DEF Min

\* What a step of the feed task leaves of its locals.
LEMMA FeedMoves ==
  ASSUME TypeOK
  PROVE  /\ Done => feed' \in FeedStates /\ feed'.pc = "idle" /\ feed'.tick = None /\ feed'.writing = None
         /\ \A pc \in FeedSteps :
              Goto(pc) => feed' \in FeedStates /\ feed'.pc = pc /\ feed'.tick = feed.tick /\ feed'.writing = None
<1>1. ASSUME Done
      PROVE  feed' \in FeedStates /\ feed'.pc = "idle" /\ feed'.tick = None /\ feed'.writing = None
  BY <1>1 DEF Done, NoFeed, FeedStates, FeedSteps, Prices
<1>2. ASSUME NEW pc \in FeedSteps, Goto(pc)
      PROVE  feed' \in FeedStates /\ feed'.pc = pc /\ feed'.tick = feed.tick /\ feed'.writing = None
  BY <1>2 DEF Goto, TypeOK, TaskTypes, FeedStates
<1> QED
  BY <1>1, <1>2

\* What a generation that moves leaves of the evaluator's batch.
LEMMA BatchMoves ==
  ASSUME TypeOK
  PROVE  /\ DataMoves => batch' \in EvaluatorStates /\ batch'.pc = batch.pc /\ batch'.start = batch.start
                         /\ ~batch'.fresh
         /\ EngineMoves => batch' \in EvaluatorStates /\ batch'.pc = batch.pc /\ batch'.start = batch.start
                         /\ (batch'.pc = "copied" \/ ~batch'.fresh)
BY DEF DataMoves, EngineMoves, TypeOK, TaskTypes, EvaluatorStates

\* The step that looks at a finished market keeps the reference it was heard with.
LEMMA FinishedMoves ==
  ASSUME TypeOK, FinishedMarket
  PROVE  /\ feed' \in FeedStates
         /\ \/ Done
            \/ /\ feed'.pc = "freeze" /\ feed'.tick = feed.tick /\ feed'.writing = feed.writing
               /\ feed.tick \in EndWindow
         /\ feed.pc = "market" /\ UNCHANGED <<now, memory, batch, discovering, journal, forgotten>>
<1> USE DEF TypeOK, MarketTypes, TaskTypes
<1>1. CASE Done
  BY <1>1, FeedMoves DEF FinishedMarket, At
<1>2. CASE feed.tick \in EndWindow /\ feed' = [feed EXCEPT !.pc = "freeze", !.view = startPrice]
  <2>1. feed' = [pc |-> "freeze", tick |-> feed.tick, writing |-> feed.writing, view |-> startPrice]
    BY <1>2 DEF FeedStates
  <2>2. feed' \in FeedStates
    BY <2>1 DEF FeedStates, FeedSteps
  <2> QED
    BY <1>2, <2>1, <2>2 DEF FinishedMarket, At
<1> QED
  BY <1>1, <1>2 DEF FinishedMarket

\* Every step keeps the types.
LEMMA TypeNext ==
  ASSUME TypeOK, LateInv, [Next]_vars
  PROVE  TypeOK'
<1> USE Constants, FeedMoves, BatchMoves, PriceAssumption DEF data, memory, At,
      TypeOK, MarketTypes, EngineTypes, TaskTypes, Prices, FeedSteps
<1>1. ASSUME HandleReference
      PROVE  TypeOK'
  <2>1. MarketTypes'
    BY <1>1 DEF HandleReference, NoFeed, FeedStates
  <2>2. EngineTypes'
    <3>1. (frozen # None => frozen.start \in StartWindow /\ frozen.final \in EndWindow /\ frozen.cleared \in 0..MaxPosition)'
      BY <1>1 DEF HandleReference, NoFeed, FeedStates
    <3>2. (position \in 0..MaxPosition)'
      BY <1>1 DEF HandleReference, NoFeed, FeedStates
    <3>3. (resting \in BOOLEAN)'
      BY <1>1 DEF HandleReference, NoFeed, FeedStates
    <3> QED
      BY <3>1, <3>2, <3>3
  <2>3. TaskTypes'
    <3>1. PICK tick \in StartWindow \cup EndWindow \cup {None} :
            feed' = [NoFeed EXCEPT !.pc = "retry_start", !.tick = tick, !.writing = startEvent]
      BY <1>1 DEF HandleReference
    <3>2. feed' = [pc |-> "retry_start", tick |-> tick, writing |-> startEvent, view |-> None]
      BY <3>1 DEF NoFeed
    <3>3. feed' \in FeedStates
      BY <3>2 DEF FeedStates
    <3> QED
      BY <1>1, <3>3 DEF HandleReference
  <2>4. now' \in 0..Horizon /\ forgotten' \in BOOLEAN
    BY <1>1 DEF HandleReference
  <2> QED
    BY <2>1, <2>2, <2>3, <2>4
<1>2. ASSUME RetryStart
      PROVE  TypeOK'
  <2>1. MarketTypes'
    BY <1>2 DEF RetryStart, StartRecorded, Records, Misses
  <2>2. EngineTypes'
    <3>1. (frozen # None => frozen.start \in StartWindow /\ frozen.final \in EndWindow /\ frozen.cleared \in 0..MaxPosition)'
      BY <1>2 DEF RetryStart, StartRecorded, Records, Misses
    <3>2. (position \in 0..MaxPosition)'
      BY <1>2 DEF RetryStart, StartRecorded, Records, Misses
    <3>3. (resting \in BOOLEAN)'
      BY <1>2 DEF RetryStart, StartRecorded, Records, Misses
    <3> QED
      BY <3>1, <3>2, <3>3
  <2>3. TaskTypes'
    BY <1>2 DEF RetryStart, StartRecorded, Records, Misses
  <2>4. now' \in 0..Horizon /\ forgotten' \in BOOLEAN
    BY <1>2 DEF RetryStart, StartRecorded, Records, Misses
  <2> QED
    BY <2>1, <2>2, <2>3, <2>4
<1>3. ASSUME CaptureMarketStartPrices
      PROVE  TypeOK'
  <2>1. MarketTypes'
    BY <1>3 DEF CaptureMarketStartPrices, Captured, FeedStates
  <2>2. EngineTypes'
    <3>1. (frozen # None => frozen.start \in StartWindow /\ frozen.final \in EndWindow /\ frozen.cleared \in 0..MaxPosition)'
      BY <1>3 DEF CaptureMarketStartPrices, Captured, FeedStates
    <3>2. (position \in 0..MaxPosition)'
      BY <1>3 DEF CaptureMarketStartPrices, Captured, FeedStates
    <3>3. (resting \in BOOLEAN)'
      BY <1>3 DEF CaptureMarketStartPrices, Captured, FeedStates
    <3> QED
      BY <3>1, <3>2, <3>3
  <2>3. TaskTypes'
    BY <1>3 DEF CaptureMarketStartPrices, Captured, FeedStates
  <2>4. now' \in 0..Horizon /\ forgotten' \in BOOLEAN
    BY <1>3 DEF CaptureMarketStartPrices
  <2> QED
    BY <2>1, <2>2, <2>3, <2>4
<1>4. ASSUME RetryPendingSettlement
      PROVE  TypeOK'
  <2>1. MarketTypes'
    BY <1>4 DEF RetryPendingSettlement, Records, Misses, Commit
  <2>2. EngineTypes'
    <3>1. (frozen # None => frozen.start \in StartWindow /\ frozen.final \in EndWindow /\ frozen.cleared \in 0..MaxPosition)'
      BY <1>4 DEF RetryPendingSettlement, Records, Misses, Commit
    <3>2. (position \in 0..MaxPosition)'
      BY <1>4 DEF RetryPendingSettlement, Records, Misses, Commit
    <3>3. (resting \in BOOLEAN)'
      BY <1>4 DEF RetryPendingSettlement, Records, Misses, Commit
    <3> QED
      BY <3>1, <3>2, <3>3
  <2>3. TaskTypes'
    BY <1>4 DEF RetryPendingSettlement, Records, Misses, Commit
  <2>4. now' \in 0..Horizon /\ forgotten' \in BOOLEAN
    BY <1>4 DEF RetryPendingSettlement, Records, Misses, Commit
  <2> QED
    BY <2>1, <2>2, <2>3, <2>4
<1>5. ASSUME MarkSettled
      PROVE  TypeOK'
  BY <1>5 DEF MarkSettled
<1>6. ASSUME FinishedMarket
      PROVE  TypeOK'
  <2>1. feed' \in FeedStates /\ UNCHANGED <<now, memory, batch, discovering, journal, forgotten>>
    BY <1>6, FinishedMoves
  <2>2. MarketTypes' /\ EngineTypes'
    BY <2>1
  <2> QED
    BY <2>1, <2>2
<1>7. ASSUME FreezeSettlement
      PROVE  TypeOK'
  <2>1. MarketTypes'
    BY <1>7 DEF FreezeSettlement, LateInv
  <2>2. EngineTypes'
    <3>1. (frozen # None => frozen.start \in StartWindow /\ frozen.final \in EndWindow /\ frozen.cleared \in 0..MaxPosition)'
      BY <1>7 DEF FreezeSettlement, LateInv
    <3>2. (position \in 0..MaxPosition)'
      BY <1>7 DEF FreezeSettlement, LateInv
    <3>3. (resting \in BOOLEAN)'
      BY <1>7 DEF FreezeSettlement, LateInv
    <3> QED
      BY <3>1, <3>2, <3>3
  <2>3. TaskTypes'
    BY <1>7 DEF FreezeSettlement, LateInv
  <2>4. now' \in 0..Horizon /\ forgotten' \in BOOLEAN
    BY <1>7 DEF FreezeSettlement
  <2> QED
    BY <2>1, <2>2, <2>3, <2>4
<1>8. ASSUME HandlePaperFills
      PROVE  TypeOK'
  <2>1. MarketTypes'
    BY <1>8 DEF HandlePaperFills
  <2>2. EngineTypes'
    <3>1. (frozen # None => frozen.start \in StartWindow /\ frozen.final \in EndWindow /\ frozen.cleared \in 0..MaxPosition)'
      BY <1>8 DEF HandlePaperFills
    <3>2. (position \in 0..MaxPosition)'
      BY <1>8 DEF HandlePaperFills
    <3>3. (resting \in BOOLEAN)'
      BY <1>8 DEF HandlePaperFills
    <3> QED
      BY <3>1, <3>2, <3>3
  <2>3. TaskTypes'
    BY <1>8 DEF HandlePaperFills
  <2>4. now' \in 0..Horizon /\ forgotten' \in BOOLEAN
    BY <1>8 DEF HandlePaperFills
  <2> QED
    BY <2>1, <2>2, <2>3, <2>4
<1>9. ASSUME ReplaceMarkets
      PROVE  TypeOK'
  <2>1. heard # {} => Min(heard) \in heard
    BY EarliestReference
  <2> QED
    BY <1>9, <2>1 DEF ReplaceMarkets, Discovered
<1>10. ASSUME RecordDiscovered
      PROVE  TypeOK'
  BY <1>10 DEF RecordDiscovered, StartRecorded, Records, Misses
<1>11. ASSUME Snapshot
      PROVE  TypeOK'
  BY <1>11 DEF Snapshot, EvaluatorStates
<1>12. ASSUME Prepare
      PROVE  TypeOK'
  BY <1>12 DEF Prepare, EvaluatorStates, NoBatch
<1>13. ASSUME Apply
      PROVE  TypeOK'
  <2>1. MarketTypes'
    BY <1>13 DEF Apply, Records, Misses, EvaluatorStates, NoBatch
  <2>2. EngineTypes'
    <3>1. (frozen # None => frozen.start \in StartWindow /\ frozen.final \in EndWindow /\ frozen.cleared \in 0..MaxPosition)'
      BY <1>13 DEF Apply, Records, Misses, EvaluatorStates, NoBatch
    <3>2. (position \in 0..MaxPosition)'
      <4>1. position' = position \/ (position < MaxPosition /\ position' = position + 1)
        BY <1>13 DEF Apply, Records, Misses
      <4> QED
        BY <4>1
    <3>3. (resting \in BOOLEAN)'
      BY <1>13 DEF Apply, Records, Misses, EvaluatorStates, NoBatch
    <3> QED
      BY <3>1, <3>2, <3>3
  <2>3. TaskTypes'
    BY <1>13 DEF Apply, Records, Misses, EvaluatorStates, NoBatch
  <2>4. now' \in 0..Horizon /\ forgotten' \in BOOLEAN
    BY <1>13 DEF Apply, Records, Misses
  <2> QED
    BY <2>1, <2>2, <2>3, <2>4
<1>14. ASSUME Clock
      PROVE  TypeOK'
  BY <1>14 DEF Clock
<1>15. ASSUME Restart
      PROVE  TypeOK'
  <2>1. MarketTypes'
    BY <1>15 DEF Restart, EvaluatorStates, NoBatch, FeedStates, NoFeed
  <2>2. EngineTypes'
    <3>1. (frozen # None => frozen.start \in StartWindow /\ frozen.final \in EndWindow /\ frozen.cleared \in 0..MaxPosition)'
      BY <1>15 DEF Restart, EvaluatorStates, NoBatch, FeedStates, NoFeed
    <3>2. (position \in 0..MaxPosition)'
      BY <1>15 DEF Restart, EvaluatorStates, NoBatch, FeedStates, NoFeed
    <3>3. (resting \in BOOLEAN)'
      BY <1>15 DEF Restart, EvaluatorStates, NoBatch, FeedStates, NoFeed
    <3> QED
      BY <3>1, <3>2, <3>3
  <2>3. TaskTypes'
    BY <1>15 DEF Restart, EvaluatorStates, NoBatch, FeedStates, NoFeed
  <2>4. now' \in 0..Horizon /\ forgotten' \in BOOLEAN
    BY <1>15 DEF Restart
  <2> QED
    BY <2>1, <2>2, <2>3, <2>4
<1>16. CASE UNCHANGED vars
  BY <1>16 DEF vars, memory
<1> QED
  BY <1>1, <1>2, <1>3, <1>4, <1>5, <1>6, <1>7, <1>8,
     <1>9, <1>10, <1>11, <1>12, <1>13, <1>14, <1>15, <1>16 DEF Next, FeedStep

\* What is recorded as the start is the start that was captured.
LEMMA StartNext ==
  ASSUME TypeOK, StartInv, [Next]_vars
  PROVE  StartInv'
<1> USE Constants, FeedMoves, BatchMoves, PriceAssumption DEF data, memory, At,
      TypeOK, MarketTypes, EngineTypes, TaskTypes, Prices, FeedSteps,
      StartInv, BatchFollowsStart, Batches, Captured, Row, StartRow, BatchRow, SettlementRows
<1>1. ASSUME HandleReference
      PROVE  StartInv'
  BY <1>1 DEF HandleReference, NoFeed
<1>2. ASSUME RetryStart
      PROVE  StartInv'
  BY <1>2 DEF RetryStart, StartRecorded, Records, Misses
<1>3. ASSUME CaptureMarketStartPrices
      PROVE  StartInv'
  BY <1>3 DEF CaptureMarketStartPrices, Captured, FeedStates
<1>4. ASSUME RetryPendingSettlement
      PROVE  StartInv'
  BY <1>4 DEF RetryPendingSettlement, Records, Misses, Commit
<1>5. ASSUME MarkSettled
      PROVE  StartInv'
  BY <1>5 DEF MarkSettled
<1>6. ASSUME FinishedMarket
      PROVE  StartInv'
  <2>1. \/ Done
        \/ feed'.pc = "freeze" /\ feed'.tick = feed.tick /\ feed'.writing = feed.writing /\ feed.tick \in EndWindow
    BY <1>6, FinishedMoves
  <2>2. feed.pc = "market" /\ UNCHANGED <<now, memory, batch, discovering, journal, forgotten>>
    BY <1>6, FinishedMoves
  <2> QED
    BY <2>1, <2>2
<1>7. ASSUME FreezeSettlement
      PROVE  StartInv'
  BY <1>7 DEF FreezeSettlement
<1>8. ASSUME HandlePaperFills
      PROVE  StartInv'
  BY <1>8 DEF HandlePaperFills
<1>9. ASSUME ReplaceMarkets
      PROVE  StartInv'
  <2>1. heard # {} => Min(heard) \in heard
    BY EarliestReference
  <2>2. UNCHANGED <<feed, journal, startDurable>> /\ discovering' = startEvent'
        /\ batch'.pc = batch.pc /\ batch'.start = batch.start
    BY <1>9 DEF ReplaceMarkets
  <2>3. \/ UNCHANGED <<startRef, startEvent>>
        \/ /\ startRef = None /\ startRef' = Min(heard) /\ heard # {}
           /\ startEvent' = IF startEvent = None THEN Min(heard) ELSE startEvent
    BY <1>9 DEF ReplaceMarkets
  <2>4. startRef = None =>
          startEvent = None /\ feed.writing = None /\ discovering = None /\ ~startDurable
    OBVIOUS
  <2>5. CASE UNCHANGED <<startRef, startEvent>>
    BY <2>2, <2>5
  <2>6. CASE startRef = None /\ startEvent' = startRef' /\ startRef' # None
    BY <2>2, <2>4, <2>6
  <2> QED
    BY <2>1, <2>3, <2>4, <2>5, <2>6
<1>10. ASSUME RecordDiscovered
      PROVE  StartInv'
  BY <1>10 DEF RecordDiscovered, StartRecorded, Records, Misses
<1>11. ASSUME Snapshot
      PROVE  StartInv'
  BY <1>11 DEF Snapshot
<1>12. ASSUME Prepare
      PROVE  StartInv'
  BY <1>12 DEF Prepare, NoBatch, EvaluatorStates
<1>13. ASSUME Apply
      PROVE  StartInv'
  <2>1. journal \subseteq journal' /\ journal' \subseteq journal \cup {BatchRow(batch.start)}
    BY <1>13 DEF Apply, Records, Misses
  <2>2. batch.pc # "idle" /\ batch'.pc = "idle" /\ UNCHANGED <<now, data, frozen, feed, discovering, forgotten>>
    BY <1>13 DEF Apply, NoBatch
  <2>3. BatchFollowsStart'
    BY <2>1, <2>2
  <2> QED
    BY <2>1, <2>2, <2>3
<1>14. ASSUME Clock
      PROVE  StartInv'
  BY <1>14 DEF Clock
<1>15. ASSUME Restart
      PROVE  StartInv'
  BY <1>15 DEF Restart, NoFeed, NoBatch
<1>16. CASE UNCHANGED vars
  BY <1>16 DEF vars, memory
<1> QED
  BY <1>1, <1>2, <1>3, <1>4, <1>5, <1>6, <1>7, <1>8,
     <1>9, <1>10, <1>11, <1>12, <1>13, <1>14, <1>15, <1>16 DEF Next, FeedStep

\* A settlement begins when it is too late to trade.
LEMMA LateNext ==
  ASSUME TypeOK, LateInv, [Next]_vars
  PROVE  LateInv'
<1> USE Constants, FeedMoves, BatchMoves, PriceAssumption DEF data, memory, At,
      TypeOK, MarketTypes, EngineTypes, TaskTypes, Prices, FeedSteps,
      LateInv, Late, Committed, Journals, Row, StartRow, BatchRow, SettlementRows, StartWindow, EndWindow
<1>1. ASSUME HandleReference
      PROVE  LateInv'
  BY <1>1 DEF HandleReference, NoFeed
<1>2. ASSUME RetryStart
      PROVE  LateInv'
  BY <1>2 DEF RetryStart, StartRecorded, Records, Misses
<1>3. ASSUME CaptureMarketStartPrices
      PROVE  LateInv'
  BY <1>3 DEF CaptureMarketStartPrices, Captured, FeedStates
<1>4. ASSUME RetryPendingSettlement
      PROVE  LateInv'
  BY <1>4 DEF RetryPendingSettlement, Records, Misses, Commit
<1>5. ASSUME MarkSettled
      PROVE  LateInv'
  BY <1>5 DEF MarkSettled
<1>6. ASSUME FinishedMarket
      PROVE  LateInv'
  <2>1. \/ Done
        \/ feed'.pc = "freeze" /\ feed'.tick = feed.tick /\ feed'.writing = feed.writing /\ feed.tick \in EndWindow
    BY <1>6, FinishedMoves
  <2>2. feed.pc = "market" /\ UNCHANGED <<now, memory, batch, discovering, journal, forgotten>>
    BY <1>6, FinishedMoves
  <2> QED
    BY <2>1, <2>2
<1>7. ASSUME FreezeSettlement
      PROVE  LateInv'
  BY <1>7 DEF FreezeSettlement
<1>8. ASSUME HandlePaperFills
      PROVE  LateInv'
  BY <1>8 DEF HandlePaperFills
<1>9. ASSUME ReplaceMarkets
      PROVE  LateInv'
  BY <1>9 DEF ReplaceMarkets, Discovered
<1>10. ASSUME RecordDiscovered
      PROVE  LateInv'
  BY <1>10 DEF RecordDiscovered, StartRecorded, Records, Misses
<1>11. ASSUME Snapshot
      PROVE  LateInv'
  BY <1>11 DEF Snapshot
<1>12. ASSUME Prepare
      PROVE  LateInv'
  BY <1>12 DEF Prepare
<1>13. ASSUME Apply
      PROVE  LateInv'
  <2>1. journal \subseteq journal' /\ journal' \subseteq journal \cup {BatchRow(batch.start)}
    BY <1>13 DEF Apply, Records, Misses
  <2>2. batch.pc # "idle" /\ batch'.pc = "idle" /\ UNCHANGED <<now, data, frozen, feed, discovering, forgotten>>
    BY <1>13 DEF Apply, NoBatch
  <2>3. Journals' = Journals
    BY <2>1
  <2> QED
    BY <2>2, <2>3
<1>14. ASSUME Clock
      PROVE  LateInv'
  BY <1>14 DEF Clock
<1>15. ASSUME Restart
      PROVE  LateInv'
  BY <1>15 DEF Restart, NoFeed, NoBatch
<1>16. CASE UNCHANGED vars
  BY <1>16 DEF vars, memory
<1> QED
  BY <1>1, <1>2, <1>3, <1>4, <1>5, <1>6, <1>7, <1>8,
     <1>9, <1>10, <1>11, <1>12, <1>13, <1>14, <1>15, <1>16 DEF Next, FeedStep

\* A settled market stays flat.
LEMMA FlatNext ==
  ASSUME TypeOK, LateInv, FlatInv, [Next]_vars
  PROVE  FlatInv'
<1> USE Constants, FeedMoves, BatchMoves, PriceAssumption DEF data, memory, At,
      TypeOK, MarketTypes, EngineTypes, TaskTypes, Prices, FeedSteps,
      FlatInv, LateInv, Late, Committed, SettledStaysFlat, Tradable
<1>1. ASSUME HandleReference
      PROVE  FlatInv'
  BY <1>1 DEF HandleReference, NoFeed
<1>2. ASSUME RetryStart
      PROVE  FlatInv'
  BY <1>2 DEF RetryStart, StartRecorded, Records, Misses
<1>3. ASSUME CaptureMarketStartPrices
      PROVE  FlatInv'
  BY <1>3 DEF CaptureMarketStartPrices, Captured, FeedStates
<1>4. ASSUME RetryPendingSettlement
      PROVE  FlatInv'
  BY <1>4 DEF RetryPendingSettlement, Records, Misses, Commit
<1>5. ASSUME MarkSettled
      PROVE  FlatInv'
  BY <1>5 DEF MarkSettled
<1>6. ASSUME FinishedMarket
      PROVE  FlatInv'
  <2>1. \/ Done
        \/ feed'.pc = "freeze" /\ feed'.tick = feed.tick /\ feed'.writing = feed.writing /\ feed.tick \in EndWindow
    BY <1>6, FinishedMoves
  <2>2. feed.pc = "market" /\ UNCHANGED <<now, memory, batch, discovering, journal, forgotten>>
    BY <1>6, FinishedMoves
  <2> QED
    BY <2>1, <2>2
<1>7. ASSUME FreezeSettlement
      PROVE  FlatInv'
  BY <1>7 DEF FreezeSettlement
<1>8. ASSUME HandlePaperFills
      PROVE  FlatInv'
  BY <1>8 DEF HandlePaperFills
<1>9. ASSUME ReplaceMarkets
      PROVE  FlatInv'
  BY <1>9 DEF ReplaceMarkets, Discovered
<1>10. ASSUME RecordDiscovered
      PROVE  FlatInv'
  BY <1>10 DEF RecordDiscovered, StartRecorded, Records, Misses
<1>11. ASSUME Snapshot
      PROVE  FlatInv'
  BY <1>11 DEF Snapshot, EvaluatorStates
<1>12. ASSUME Prepare
      PROVE  FlatInv'
  BY <1>12 DEF Prepare, NoBatch, EvaluatorStates
<1>13. ASSUME Apply
      PROVE  FlatInv'
  <2>1. journal \subseteq journal' /\ journal' \subseteq journal \cup {BatchRow(batch.start)}
    BY <1>13 DEF Apply, Records, Misses
  <2>2. batch.pc # "idle" /\ batch'.pc = "idle" /\ UNCHANGED <<now, data, frozen, feed, discovering, forgotten>>
    BY <1>13 DEF Apply, NoBatch
  <2>3. CASE batch.pc = "prepared" /\ batch.fresh
    BY <1>13, <2>2, <2>3 DEF Apply, Records, Misses
  <2>4. CASE ~(batch.pc = "prepared" /\ batch.fresh)
    <3>1. position' = position
      BY <1>13, <2>4 DEF Apply
    <3>2. ~resting => ~resting'
      BY <1>13, <2>4, Zenon DEF Apply
    <3> QED
      BY <2>2, <3>1, <3>2
  <2> QED
    BY <2>3, <2>4
<1>14. ASSUME Clock
      PROVE  FlatInv'
  BY <1>14 DEF Clock
<1>15. ASSUME Restart
      PROVE  FlatInv'
  BY <1>15 DEF Restart, NoFeed, NoBatch
<1>16. CASE UNCHANGED vars
  BY <1>16 DEF vars, memory
<1> QED
  BY <1>1, <1>2, <1>3, <1>4, <1>5, <1>6, <1>7, <1>8,
     <1>9, <1>10, <1>11, <1>12, <1>13, <1>14, <1>15, <1>16 DEF Next, FeedStep

\* One journal is written.
LEMMA OnceNext ==
  ASSUME TypeOK, LateInv, OnceInv, [Next]_vars
  PROVE  OnceInv'
<1> USE Constants, FeedMoves, BatchMoves, PriceAssumption DEF data, memory, At,
      TypeOK, MarketTypes, EngineTypes, TaskTypes, Prices, FeedSteps,
      OnceInv, LateInv, Late, Committed, StartIsOver, SettledOnce, Journals, Row, StartRow, BatchRow, SettlementRows, StartWindow
<1>1. ASSUME HandleReference
      PROVE  OnceInv'
  BY <1>1 DEF HandleReference, NoFeed
<1>2. ASSUME RetryStart
      PROVE  OnceInv'
  BY <1>2 DEF RetryStart, StartRecorded, Records, Misses
<1>3. ASSUME CaptureMarketStartPrices
      PROVE  OnceInv'
  BY <1>3 DEF CaptureMarketStartPrices, Captured, FeedStates
<1>4. ASSUME RetryPendingSettlement
      PROVE  OnceInv'
  BY <1>4 DEF RetryPendingSettlement, Records, Misses, Commit
<1>5. ASSUME MarkSettled
      PROVE  OnceInv'
  BY <1>5 DEF MarkSettled
<1>6. ASSUME FinishedMarket
      PROVE  OnceInv'
  <2>1. \/ Done
        \/ feed'.pc = "freeze" /\ feed'.tick = feed.tick /\ feed'.writing = feed.writing /\ feed.tick \in EndWindow
    BY <1>6, FinishedMoves
  <2>2. feed.pc = "market" /\ UNCHANGED <<now, memory, batch, discovering, journal, forgotten>>
    BY <1>6, FinishedMoves
  <2> QED
    BY <2>1, <2>2
<1>7. ASSUME FreezeSettlement
      PROVE  OnceInv'
  BY <1>7 DEF FreezeSettlement
<1>8. ASSUME HandlePaperFills
      PROVE  OnceInv'
  BY <1>8 DEF HandlePaperFills
<1>9. ASSUME ReplaceMarkets
      PROVE  OnceInv'
  BY <1>9 DEF ReplaceMarkets, Discovered
<1>10. ASSUME RecordDiscovered
      PROVE  OnceInv'
  BY <1>10 DEF RecordDiscovered, StartRecorded, Records, Misses
<1>11. ASSUME Snapshot
      PROVE  OnceInv'
  BY <1>11 DEF Snapshot
<1>12. ASSUME Prepare
      PROVE  OnceInv'
  BY <1>12 DEF Prepare
<1>13. ASSUME Apply
      PROVE  OnceInv'
  <2>1. journal \subseteq journal' /\ journal' \subseteq journal \cup {BatchRow(batch.start)}
    BY <1>13 DEF Apply, Records, Misses
  <2>2. batch.pc # "idle" /\ batch'.pc = "idle" /\ UNCHANGED <<now, data, frozen, feed, discovering, forgotten>>
    BY <1>13 DEF Apply, NoBatch
  <2>3. Journals' = Journals
    BY <2>1
  <2> QED
    BY <2>2, <2>3
<1>14. ASSUME Clock
      PROVE  OnceInv'
  BY <1>14 DEF Clock
<1>15. ASSUME Restart
      PROVE  OnceInv'
  BY <1>15 DEF Restart, NoFeed
<1>16. CASE UNCHANGED vars
  BY <1>16 DEF vars, memory
<1> QED
  BY <1>1, <1>2, <1>3, <1>4, <1>5, <1>6, <1>7, <1>8,
     <1>9, <1>10, <1>11, <1>12, <1>13, <1>14, <1>15, <1>16 DEF Next, FeedStep

\* A step that at most captures a start and records it gives the audit nothing to find.
LEMMA AuditKept ==
  ASSUME TypeOK, StartInv, AuditInv,
         journal \subseteq journal', journal' \subseteq journal \cup {StartRow(s) : s \in {startRef} \ {None}},
         startRef' = startRef \/ (startRef = None /\ ~StartIsOver),
         startRef' = startRef /\ StartIsOver => StartIsOver',
         UNCHANGED <<frozen, forgotten>>
  PROVE  AuditInv'
<1> USE DEF Starts, Settlements, Journals, Row, StartRow, SettlementRows
<1>1. \A r \in journal' \ journal : r = StartRow(startRef) /\ startRef # None
  OBVIOUS
<1>2. Journals' = Journals /\ Settlements' = Settlements
  BY <1>1
<1>3. (\A r \in journal : r.start # None) /\ (frozen # None => frozen.start = startRef)
      /\ (HalfWritten # {} => frozen # None \/ forgotten)
  BY DEF AuditInv
<1>4. (\A r \in journal : r.start # None)'
  BY <1>1, <1>3
<1>5. (frozen # None => frozen.start = startRef)'
  BY <1>3, PriceAssumption, Constants DEF TypeOK, EngineTypes, StartWindow
<1>6. (HalfWritten # {} => frozen # None \/ forgotten)'
  BY <1>2, <1>3 DEF HalfWritten
<1>7. ASSUME ~forgotten
      PROVE  /\ \A r, s \in (Starts \cup Settlements)' : r.start = s.start
             /\ \A r \in (Starts \cup Settlements)' : r.start = startRef' \/ StartIsOver'
  <2>1. \A r \in Starts \cup Settlements : r.start = startRef \/ StartIsOver
    BY <1>7 DEF AuditInv
  <2>2. \A r, s \in Starts \cup Settlements : r.start = s.start
    BY <1>7 DEF AuditInv
  <2>3. CASE startRef' = startRef
    <3>1. CASE journal' = journal
      BY <2>1, <2>2, <2>3, <3>1
    <3>2. CASE startRef # None
      <4>1. ~StartIsOver
        BY <3>2 DEF StartIsOver
      <4>2. \A r \in (Starts \cup Settlements)' : r.start = startRef
        BY <1>1, <1>2, <2>1, <4>1
      <4> QED
        BY <2>3, <4>2
    <3> QED
      BY <1>1, <3>1, <3>2
  <2>4. CASE startRef = None /\ ~StartIsOver
    <3>1. Starts \cup Settlements = {} /\ journal' = journal
      BY <1>1, <1>3, <2>1, <2>4
    <3> QED
      BY <3>1
  <2> QED
    BY <2>3, <2>4
<1> QED
  BY <1>4, <1>5, <1>6, <1>7 DEF AuditInv

\* The audit goes on finding nothing.
LEMMA AuditNext ==
  ASSUME TypeOK, StartInv, LateInv, OnceInv, AuditInv, [Next]_vars
  PROVE  AuditInv'
<1> USE Constants, FeedMoves, BatchMoves, PriceAssumption DEF data, memory, At,
      TypeOK, MarketTypes, EngineTypes, TaskTypes, Prices, FeedSteps,
      AuditInv, StartInv, LateInv, OnceInv, Late, Committed, Captured, StartIsOver, Starts, Settlements, Journals, HalfWritten,
      Row, StartRow, BatchRow, SettlementRows, StartWindow
<1>1. ASSUME HandleReference
      PROVE  AuditInv'
  <2>1. journal \subseteq journal' /\ journal' \subseteq journal \cup {StartRow(s) : s \in {startRef} \ {None}}
    BY <1>1 DEF HandleReference
  <2>2. startRef' = startRef \/ (startRef = None /\ ~StartIsOver)
    BY <1>1 DEF HandleReference
  <2>3. startRef' = startRef /\ StartIsOver => StartIsOver'
    BY <1>1 DEF HandleReference, NoFeed
  <2>4. UNCHANGED <<frozen, forgotten>>
    BY <1>1 DEF HandleReference
  <2> QED
    BY <2>1, <2>2, <2>3, <2>4, AuditKept
<1>2. ASSUME RetryStart
      PROVE  AuditInv'
  <2>1. journal \subseteq journal' /\ journal' \subseteq journal \cup {StartRow(s) : s \in {startRef} \ {None}}
    BY <1>2 DEF RetryStart, StartRecorded, Records, Misses
  <2>2. startRef' = startRef \/ (startRef = None /\ ~StartIsOver)
    BY <1>2 DEF RetryStart
  <2>3. startRef' = startRef /\ StartIsOver => StartIsOver'
    BY <1>2 DEF RetryStart
  <2>4. UNCHANGED <<frozen, forgotten>>
    BY <1>2 DEF RetryStart
  <2> QED
    BY <2>1, <2>2, <2>3, <2>4, AuditKept
<1>3. ASSUME CaptureMarketStartPrices
      PROVE  AuditInv'
  <2>1. journal \subseteq journal' /\ journal' \subseteq journal \cup {StartRow(s) : s \in {startRef} \ {None}}
    BY <1>3 DEF CaptureMarketStartPrices
  <2>2. startRef' = startRef \/ (startRef = None /\ ~StartIsOver)
    BY <1>3 DEF CaptureMarketStartPrices
  <2>3. startRef' = startRef /\ StartIsOver => StartIsOver'
    BY <1>3 DEF CaptureMarketStartPrices, FeedStates
  <2>4. UNCHANGED <<frozen, forgotten>>
    BY <1>3 DEF CaptureMarketStartPrices
  <2> QED
    BY <2>1, <2>2, <2>3, <2>4, AuditKept
<1>4. ASSUME RetryPendingSettlement
      PROVE  AuditInv'
  <2>1. UNCHANGED <<now, startRef, heard, forgotten>> /\ feed'.tick \in {feed.tick, None}
    BY <1>4 DEF RetryPendingSettlement
  <2>2. journal \subseteq journal'
        /\ (journal' = journal \/ (frozen # None /\ journal' \subseteq journal \cup SettlementRows(frozen)))
    BY <1>4 DEF RetryPendingSettlement, Records, Misses, Commit
  <2>3. frozen' = frozen \/ (frozen # None /\ frozen' = None /\ SettlementRows(frozen) \subseteq journal')
    BY <1>4 DEF RetryPendingSettlement, Records, Misses, Commit
  <2>4. (HalfWritten # {} => frozen # None \/ forgotten)'
    <3>1. CASE frozen = None
      BY <2>1, <2>2, <2>3, <3>1
    <3>2. ASSUME frozen # None, frozen' = None
          PROVE  HalfWritten' = {}
      <4>1. \A r \in Journals' : r \in SettlementRows(frozen)
        BY <2>2, <3>2
      <4>2. \A r \in SettlementRows(frozen) : SettlementRows(r) = SettlementRows(frozen)
        OBVIOUS
      <4> QED
        BY <2>3, <3>2, <4>1, <4>2
    <3> QED
      BY <2>3, <3>1, <3>2
  <2>5. \A r \in journal' \ journal : r.start = startRef /\ startRef # None
    BY <2>2
  <2>6. (\A r \in journal : r.start # None) /\ (frozen # None => frozen.start = startRef)
    OBVIOUS
  <2>7. (\A r \in journal : r.start # None)' /\ (frozen # None => frozen.start = startRef)'
    BY <2>1, <2>3, <2>5, <2>6
  <2>8. \A r \in (Starts \cup Settlements)' : r \in Starts \cup Settlements \/ r \in journal' \ journal
    OBVIOUS
  <2>9. StartIsOver => startRef = None /\ StartIsOver'
    BY <2>1
  <2>10. (~forgotten => /\ \A r, s \in Starts \cup Settlements : r.start = s.start
                       /\ \A r \in Starts \cup Settlements : r.start = startRef \/ StartIsOver)'
    BY <2>1, <2>5, <2>8, <2>9 DEF AuditInv
  <2> QED
    BY <2>4, <2>7, <2>10
<1>5. ASSUME MarkSettled
      PROVE  AuditInv'
  BY <1>5 DEF MarkSettled
<1>6. ASSUME FinishedMarket
      PROVE  AuditInv'
  <2>1. \/ Done
        \/ feed'.pc = "freeze" /\ feed'.tick = feed.tick /\ feed'.writing = feed.writing /\ feed.tick \in EndWindow
    BY <1>6, FinishedMoves
  <2>2. feed.pc = "market" /\ UNCHANGED <<now, memory, batch, discovering, journal, forgotten>>
    BY <1>6, FinishedMoves
  <2> QED
    BY <2>1, <2>2
<1>7. ASSUME FreezeSettlement
      PROVE  AuditInv'
  BY <1>7 DEF FreezeSettlement
<1>8. ASSUME HandlePaperFills
      PROVE  AuditInv'
  BY <1>8 DEF HandlePaperFills
<1>9. ASSUME ReplaceMarkets
      PROVE  AuditInv'
  <2>1. journal \subseteq journal' /\ journal' \subseteq journal \cup {StartRow(s) : s \in {startRef} \ {None}}
    BY <1>9 DEF ReplaceMarkets
  <2>2. startRef' = startRef \/ (startRef = None /\ ~StartIsOver)
    BY <1>9 DEF ReplaceMarkets
  <2>3. startRef' = startRef /\ StartIsOver => StartIsOver'
    BY <1>9 DEF ReplaceMarkets
  <2>4. UNCHANGED <<frozen, forgotten>>
    BY <1>9 DEF ReplaceMarkets
  <2> QED
    BY <2>1, <2>2, <2>3, <2>4, AuditKept
<1>10. ASSUME RecordDiscovered
      PROVE  AuditInv'
  <2>1. journal \subseteq journal' /\ journal' \subseteq journal \cup {StartRow(s) : s \in {startRef} \ {None}}
    BY <1>10 DEF RecordDiscovered, StartRecorded, Records, Misses
  <2>2. startRef' = startRef \/ (startRef = None /\ ~StartIsOver)
    BY <1>10 DEF RecordDiscovered
  <2>3. startRef' = startRef /\ StartIsOver => StartIsOver'
    BY <1>10 DEF RecordDiscovered
  <2>4. UNCHANGED <<frozen, forgotten>>
    BY <1>10 DEF RecordDiscovered
  <2> QED
    BY <2>1, <2>2, <2>3, <2>4, AuditKept
<1>11. ASSUME Snapshot
      PROVE  AuditInv'
  BY <1>11 DEF Snapshot
<1>12. ASSUME Prepare
      PROVE  AuditInv'
  BY <1>12 DEF Prepare
<1>13. ASSUME Apply
      PROVE  AuditInv'
  <2>1. journal \subseteq journal' /\ journal' \subseteq journal \cup {BatchRow(batch.start)}
    BY <1>13 DEF Apply, Records, Misses
  <2>2. batch.pc # "idle" /\ batch'.pc = "idle" /\ UNCHANGED <<now, data, frozen, feed, discovering, forgotten>>
    BY <1>13 DEF Apply, NoBatch
  <2>3. Journals' = Journals /\ Starts' = Starts
    BY <2>1
  <2> QED
    BY <2>1, <2>2, <2>3
<1>14. ASSUME Clock
      PROVE  AuditInv'
  BY <1>14 DEF Clock
<1>15. ASSUME Restart
      PROVE  AuditInv'
  <2>1. forgotten' = (forgotten \/ now <= Start + Grace + MaxAge \/ HalfWritten # {})
    BY <1>15, Zenon DEF Restart
  <2>2. UNCHANGED <<now, journal>> /\ frozen' = None /\ startRef' = None /\ heard' = {} /\ feed'.tick = None
    BY <1>15 DEF Restart, NoFeed
  <2>3. HalfWritten # {} => forgotten'
    BY <2>1, Zenon
  <2>4. ~forgotten' => ~forgotten /\ ~(now <= Start + Grace + MaxAge)
    BY <2>1, Zenon
  <2>5. ~(now <= Start + Grace + MaxAge) => now > Start + Grace + MaxAge
    OBVIOUS
  <2>6. \A r, s \in Starts \cup Settlements : forgotten \/ r.start = s.start
    OBVIOUS
  <2>7. \A r \in journal : r.start # None
    OBVIOUS
  <2>8. (Starts \cup Settlements)' = Starts \cup Settlements /\ HalfWritten' = HalfWritten
    BY <2>2
  <2>9. ~forgotten' => StartIsOver'
    BY <2>2, <2>4, <2>5
  <2> QED
    BY ONLY <2>2, <2>3, <2>4, <2>6, <2>7, <2>8, <2>9 DEF AuditInv
<1>16. CASE UNCHANGED vars
  BY <1>16 DEF vars, memory
<1> QED
  BY <1>1, <1>2, <1>3, <1>4, <1>5, <1>6, <1>7, <1>8,
     <1>9, <1>10, <1>11, <1>12, <1>13, <1>14, <1>15, <1>16 DEF Next, FeedStep

----------------------------------------------------------------------------
(* The theorems *)

\* The invariant holds at the start.
LEMMA InitIInv == Init => IInv
<1> SUFFICES ASSUME Init PROVE IInv
  OBVIOUS
<1> USE Constants, PriceAssumption DEF Init, Fresh, NoBatch, NoFeed
<1>1. TypeOK
  <2>1. batch \in EvaluatorStates
    BY DEF EvaluatorStates
  <2>2. feed \in FeedStates
    BY DEF FeedStates, FeedSteps, Prices
  <2>3. MarketTypes
    BY DEF MarketTypes, Prices
  <2>4. EngineTypes
    <3>1. position \in 0..MaxPosition
      OBVIOUS
    <3>2. frozen = None /\ resting \in BOOLEAN
      OBVIOUS
    <3> QED
      BY <3>1, <3>2 DEF EngineTypes
  <2>5. now \in 0..Horizon
    OBVIOUS
  <2>6. forgotten \in BOOLEAN /\ discovering = None
    OBVIOUS
  <2> QED
    BY <2>1, <2>2, <2>3, <2>4, <2>5, <2>6 DEF TypeOK, TaskTypes
<1>2. StartInv
  BY DEF StartInv, BatchFollowsStart, Batches, Captured
<1>3. LateInv /\ FlatInv /\ OnceInv
  BY DEF LateInv, FlatInv, OnceInv, Committed, Journals, SettledStaysFlat, SettledOnce, EndWindow
<1>4. AuditInv
  BY DEF AuditInv, HalfWritten, Starts, Settlements, Journals
<1> QED
  BY <1>1, <1>2, <1>3, <1>4 DEF IInv

\* The strengthened invariant holds in every reachable state.
THEOREM Invariance == SafeSpec => []IInv
<1>1. IInv /\ [Next]_vars => IInv'
  BY TypeNext, StartNext, LateNext, FlatNext, OnceNext, AuditNext DEF IInv
<1> QED
  BY InitIInv, <1>1, PTL DEF SafeSpec

\* Every step keeps the types, for any times and any prices.
THEOREM TypeCorrect == SafeSpec => []TypeOK
BY Invariance, PTL DEF IInv

\* settle_finished_markets and retry_pending_settlement: a settled market keeps neither an
\* order nor a position, whatever batch was under way.
THEOREM SettledIsFlat == SafeSpec => []SettledStaysFlat
<1>1. IInv => SettledStaysFlat
  BY DEF IInv, FlatInv
<1> QED
  BY <1>1, Invariance, PTL

\* evaluate_once refuses a market whose start evidence is not durable: a durable batch
\* has its start event before it.
THEOREM StartComesFirst == SafeSpec => []BatchFollowsStart
<1>1. IInv => BatchFollowsStart
  BY DEF IInv, StartInv
<1> QED
  BY <1>1, Invariance, PTL

\* However often a settlement is retried, one journal becomes durable.
THEOREM OneSettlement == SafeSpec => []SettledOnce
<1>1. IInv => SettledOnce
  BY DEF IInv, OnceInv
<1> QED
  BY <1>1, Invariance, PTL

\* The daily audit passes, unless a restart forgot what it needs.
THEOREM Audited == SafeSpec => []AuditPasses
<1>1. ASSUME IInv, ~forgotten
      PROVE  ~StartConflict /\ InvalidSettlements = {} /\ UnprovenBatches = {} /\ ~JournalConflict
  <2>1. \A r, s \in Starts \cup Settlements : r.start = s.start
    BY <1>1 DEF IInv, AuditInv
  <2>2. ~StartConflict
    <3>1. CASE Starts = {}
      <4>1. {r.start : r \in Starts} = {}
        BY <3>1
      <4> QED
        BY <4>1, FS_EmptySet DEF StartConflict
    <3>2. ASSUME NEW s \in Starts
          PROVE  ~StartConflict
      <4>1. {r.start : r \in Starts} = {s.start}
        BY <2>1, <3>2
      <4>2. Cardinality({s.start}) = 1
        BY FS_Singleton
      <4> QED
        BY <4>1, <4>2 DEF StartConflict
    <3> QED
      BY <3>1, <3>2
  <2>3. InvalidSettlements = {}
    BY <2>1 DEF InvalidSettlements
  <2>4. UnprovenBatches = {}
    BY <1>1, <2>2 DEF IInv, StartInv, BatchFollowsStart, UnprovenBatches
  <2>5. ~JournalConflict
    BY <1>1 DEF IInv, OnceInv, SettledOnce, JournalConflict
  <2> QED
    BY <2>2, <2>3, <2>4, <2>5
<1>2. IInv => AuditPasses
  BY <1>1 DEF IInv, AuditInv, AuditPasses
<1> QED
  BY <1>2, Invariance, PTL

\* What retry_pending_settlement takes from the risk manager is what its durable journal
\* says was cleared.
THEOREM ClearsWhatItJournals == SafeSpec => ClearedAsJournaled
<1> DEFINE Cleared == frozen # None /\ frozen' = None /\ ~Restart
                      => frozen.cleared = position /\ SettlementRows(frozen) \subseteq journal'
<1>1. ASSUME IInv, Next, frozen # None, frozen' = None, ~Restart
      PROVE  RetryPendingSettlement
  <2>1. ~FreezeSettlement
    BY <1>1 DEF IInv, OnceInv, FreezeSettlement, At
  <2>2. ~HandleReference /\ ~RetryStart /\ ~CaptureMarketStartPrices
    BY <1>1 DEF HandleReference, RetryStart, CaptureMarketStartPrices
  <2>3. ~MarkSettled /\ ~FinishedMarket /\ ~HandlePaperFills
    BY <1>1 DEF MarkSettled, FinishedMarket, HandlePaperFills, memory
  <2>4. ~ReplaceMarkets /\ ~RecordDiscovered
    BY <1>1 DEF ReplaceMarkets, RecordDiscovered
  <2>5. ~Snapshot /\ ~Prepare /\ ~Apply /\ ~Clock
    BY <1>1 DEF Snapshot, Prepare, Apply, Clock, memory
  <2> QED
    BY <1>1, <2>1, <2>2, <2>3, <2>4, <2>5 DEF Next, FeedStep
<1>2. ASSUME IInv, RetryPendingSettlement, frozen # None, frozen' = None
      PROVE  frozen.cleared = position /\ SettlementRows(frozen) \subseteq journal'
  BY <1>2 DEF IInv, FlatInv, RetryPendingSettlement, Records, Commit
<1>3. IInv /\ [Next]_vars => [Cleared]_vars
  BY <1>1, <1>2 DEF vars
<1> QED
  BY <1>3, Invariance, PTL DEF SafeSpec, ClearedAsJournaled

=============================================================================
