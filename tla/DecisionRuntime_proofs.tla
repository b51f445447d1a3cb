----------------------- MODULE DecisionRuntime_proofs -----------------------
(* Proofs about DecisionRuntime, for every number of markets, batches, feed *)
(* events, controls and recorder failures.                                  *)
EXTENDS DecisionRuntime, TLAPS

(* The inductive invariant *)

Deciding == pc["evaluator"] \in {"prepared", "record", "apply", "journal"}

\* the prepared batch is the latest one
NumberInv == prep.batch = batches /\ (Deciding => batches > 0)

\* the gate is held across an await exactly by an evaluator that compares and applies
GateInv ==
  gate = "evaluator" <=> pc["evaluator"] \in {"record", "apply", "journal"}

\* a generation that did not move stands for data that did not change
SnapInv ==
  /\ snap.dataGen <= dataGen /\ ~snap.paused
  /\ snap.dataGen = dataGen =>
       /\ snap.paused = paused /\ snap.killSwitch = killSwitch
       /\ snap.inputs = inputs

PrepInv ==
  /\ prep.dataGen <= dataGen /\ prep.engineGen <= engineGen
  /\ prep.dataGen = dataGen =>
       /\ prep.view.paused = paused /\ prep.view.killSwitch = killSwitch
       /\ prep.view.inputs = inputs
  /\ prep.engineGen = engineGen => prep.view.resting = resting
  /\ prep.output = "place" => ~prep.view.paused /\ ~prep.view.killSwitch

\* nothing moves a generation while the gate is held before the batch is applied
ComparedInv ==
  pc["evaluator"] \in {"record", "apply"} =>
    prep.dataGen = dataGen /\ prep.engineGen = engineGen

StaleInv == GateInv /\ SnapInv /\ PrepInv /\ ComparedInv

\* the evidence of the batch that is applied is durable; a resume forgets what the
\* pause has cancelled
RecordedInv ==
  /\ pc["evaluator"] \in {"apply", "journal"} => <<"batch", prep.batch>> \in durable
  /\ EvidenceBeforeEffect

StopInv == (~paused => swept = {}) /\ PausedMarketsStayEmpty

\* a batch whose reports were or are about to be accepted
Reported(b) == b \in reported \/ \E t \in Tasks : b \in reports[t]

ReportInv ==
  /\ ReportsAreDurable
  /\ ~Reported(pending)
  /\ \A b \in Batches : Reported(b) \/ b = pending => b <= batches
  /\ Deciding => ~Reported(batches) /\ pending # batches

\* a step that lets nothing new rest
PlacesNothing == \A m \in Markets : resting'[m] \in {resting[m], NoBatch}

IInv == TypeOK /\ NumberInv /\ StaleInv /\ RecordedInv /\ StopInv /\ ReportInv

\* Every step keeps the types.
LEMMA TypeNext ==
  ASSUME TypeOK, NumberInv, [Next]_vars
  PROVE  TypeOK'
<1> USE RuntimeAssumption DEF gates, data, engine, local, recorder, counts, history, Goto, At,
      TypeOK, Prepared, Views, View, Batches, Evidence, Tasks, Outputs, NumberInv, Deciding
<1>1. ASSUME EvaluateStarts
      PROVE  TypeOK'
  BY <1>1 DEF EvaluateStarts, Retry, Persist, FailToPersist
<1>2. ASSUME NEW markets \in SUBSET Markets, Snapshot(markets)
      PROVE  TypeOK'
  BY <1>2 DEF Snapshot
<1>3. ASSUME NEW m \in Markets, NEW output \in Outputs, Prepare(m, output)
      PROVE  TypeOK'
  BY <1>3 DEF Prepare, PossibleOutputs
<1>4. ASSUME NEW m \in Markets, SkipMarket(m)
      PROVE  TypeOK'
  BY <1>4 DEF SkipMarket
<1>5. ASSUME EvaluateEnds
      PROVE  TypeOK'
  BY <1>5 DEF EvaluateEnds
<1>6. ASSUME Compare
      PROVE  TypeOK'
  BY <1>6 DEF Compare, Stale
<1>7. ASSUME RecordBatch
      PROVE  TypeOK'
  BY <1>7 DEF RecordBatch, Persist, FailToPersist
<1>8. ASSUME Apply
      PROVE  TypeOK'
  <2>1. prep.market \in Markets /\ prep.batch \in Batches
    BY <1>8 DEF Apply
  <2>2. RestsAfter \in Batches \cup {NoBatch}
    BY <2>1 DEF RestsAfter
  <2>3. resting' \in [Markets -> Batches \cup {NoBatch}]
    BY <1>8, <2>2 DEF Apply
  <2>4. applied' \subseteq Batches
    BY <1>8, <2>1 DEF Apply
  <2> QED
    BY <1>8, <2>3, <2>4 DEF Apply
<1>9. ASSUME RecordApplication
      PROVE  TypeOK'
  BY <1>9 DEF RecordApplication, Persist, FailToPersist
<1>10. ASSUME NEW t \in Tasks, AcceptReports(t)
      PROVE  TypeOK'
  <2>1. reported' \subseteq Batches
    BY <1>10 DEF AcceptReports
  <2>2. reports' \in [Tasks -> SUBSET Batches]
    BY <1>10 DEF AcceptReports
  <2> QED
    BY <1>10, <2>1, <2>2 DEF AcceptReports
<1>11. ASSUME HandleBook
      PROVE  TypeOK'
  BY <1>11 DEF HandleBook
<1>12. ASSUME HandleReference
      PROVE  TypeOK'
  BY <1>12 DEF HandleReference
<1>13. ASSUME HandleRawMarketEvent
      PROVE  TypeOK'
  BY <1>13 DEF HandleRawMarketEvent
<1>14. ASSUME NEW m \in Markets, HandlePaperFills(m)
      PROVE  TypeOK'
  BY <1>14 DEF HandlePaperFills
<1>15. ASSUME NothingToFill
      PROVE  TypeOK'
  BY <1>15 DEF NothingToFill
<1>16. ASSUME NEW t \in {"feed", "control"}, RecordReport(t)
      PROVE  TypeOK'
  BY <1>16 DEF RecordReport
<1>17. ASSUME CancelStarts
      PROVE  TypeOK'
  BY <1>17 DEF CancelStarts, Retry, Persist, FailToPersist
<1>18. ASSUME NEW m \in Markets, CancelMarket(m)
      PROVE  TypeOK'
  BY <1>18 DEF CancelMarket
<1>19. ASSUME CancelEnds
      PROVE  TypeOK'
  BY <1>19 DEF CancelEnds
<1>20. ASSUME FeedArrives
      PROVE  TypeOK'
  BY <1>20 DEF FeedArrives, Retry, Persist, FailToPersist
<1>21. ASSUME Pause
      PROVE  TypeOK'
  BY <1>21 DEF Pause
<1>22. ASSUME Resume
      PROVE  TypeOK'
  <2>1. swept' = {} /\ dataGen' \in Nat /\ controls' \in 0..MaxControls /\ paused' = FALSE
    BY <1>22 DEF Resume
  <2>2. UNCHANGED <<gate, pc, killSwitch, inputs, resting, engineGen, pending, snap, todo,
                    sweep, prep, reports, batches, durable, staged, applied, reported,
                    feeds, failures>>
    BY <1>22 DEF Resume
  <2> QED
    BY <2>1, <2>2
<1>23. ASSUME NEW enabled \in BOOLEAN, SetKillSwitch(enabled)
      PROVE  TypeOK'
  BY <1>23 DEF SetKillSwitch
<1>24. ASSUME RecorderResumes
      PROVE  TypeOK'
  BY <1>24 DEF RecorderResumes
<1>26. ASSUME DropPause
      PROVE  TypeOK'
  BY <1>26 DEF DropPause, Persist
<1>25. CASE UNCHANGED vars
  BY <1>25 DEF vars
<1> QED
  BY <1>1, <1>2, <1>3, <1>4, <1>5, <1>6, <1>7, <1>8, <1>9, <1>10, <1>11, <1>12, <1>13,
     <1>14, <1>15, <1>16, <1>17, <1>18, <1>19, <1>20, <1>21, <1>22, <1>23, <1>24, <1>25, <1>26
  DEF Next, Evaluator, FeedHandler, PauseHandler, Tasks

\* Every step keeps the prepared batch the latest one.
LEMMA NumberNext ==
  ASSUME TypeOK, NumberInv, [Next]_vars
  PROVE  NumberInv'
<1> USE RuntimeAssumption DEF gates, data, engine, local, recorder, counts, history, Goto, At,
      NumberInv, Deciding, Tasks, TypeOK
<1>1. ASSUME EvaluateStarts
      PROVE  NumberInv'
  BY <1>1 DEF EvaluateStarts, Retry, Persist, FailToPersist
<1>2. ASSUME NEW markets \in SUBSET Markets, Snapshot(markets)
      PROVE  NumberInv'
  BY <1>2 DEF Snapshot
<1>3. ASSUME NEW m \in Markets, NEW output \in Outputs, Prepare(m, output)
      PROVE  NumberInv'
  BY <1>3 DEF Prepare, PossibleOutputs
<1>4. ASSUME NEW m \in Markets, SkipMarket(m)
      PROVE  NumberInv'
  BY <1>4 DEF SkipMarket
<1>5. ASSUME EvaluateEnds
      PROVE  NumberInv'
  BY <1>5 DEF EvaluateEnds
<1>6. ASSUME Compare
      PROVE  NumberInv'
  BY <1>6 DEF Compare, Stale
<1>7. ASSUME RecordBatch
      PROVE  NumberInv'
  BY <1>7 DEF RecordBatch, Persist, FailToPersist
<1>8. ASSUME Apply
      PROVE  NumberInv'
  BY <1>8 DEF Apply, RestsAfter
<1>9. ASSUME RecordApplication
      PROVE  NumberInv'
  BY <1>9 DEF RecordApplication, Persist, FailToPersist
<1>10. ASSUME NEW t \in Tasks, AcceptReports(t)
      PROVE  NumberInv'
  BY <1>10 DEF AcceptReports
<1>11. ASSUME HandleBook
      PROVE  NumberInv'
  BY <1>11 DEF HandleBook
<1>12. ASSUME HandleReference
      PROVE  NumberInv'
  BY <1>12 DEF HandleReference
<1>13. ASSUME HandleRawMarketEvent
      PROVE  NumberInv'
  BY <1>13 DEF HandleRawMarketEvent
<1>14. ASSUME NEW m \in Markets, HandlePaperFills(m)
      PROVE  NumberInv'
  BY <1>14 DEF HandlePaperFills
<1>15. ASSUME NothingToFill
      PROVE  NumberInv'
  BY <1>15 DEF NothingToFill
<1>16. ASSUME NEW t \in {"feed", "control"}, RecordReport(t)
      PROVE  NumberInv'
  BY <1>16 DEF RecordReport
<1>17. ASSUME CancelStarts
      PROVE  NumberInv'
  BY <1>17 DEF CancelStarts, Retry, Persist, FailToPersist
<1>18. ASSUME NEW m \in Markets, CancelMarket(m)
      PROVE  NumberInv'
  BY <1>18 DEF CancelMarket
<1>19. ASSUME CancelEnds
      PROVE  NumberInv'
  BY <1>19 DEF CancelEnds
<1>20. ASSUME FeedArrives
      PROVE  NumberInv'
  BY <1>20 DEF FeedArrives, Retry, Persist, FailToPersist
<1>21. ASSUME Pause
      PROVE  NumberInv'
  BY <1>21 DEF Pause
<1>22. ASSUME Resume
      PROVE  NumberInv'
  BY <1>22 DEF Resume
<1>23. ASSUME NEW enabled \in BOOLEAN, SetKillSwitch(enabled)
      PROVE  NumberInv'
  BY <1>23 DEF SetKillSwitch
<1>24. ASSUME RecorderResumes
      PROVE  NumberInv'
  BY <1>24 DEF RecorderResumes
<1>26. ASSUME DropPause
      PROVE  NumberInv'
  BY <1>26 DEF DropPause, Persist
<1>25. CASE UNCHANGED vars
  BY <1>25 DEF vars
<1> QED
  BY <1>1, <1>2, <1>3, <1>4, <1>5, <1>6, <1>7, <1>8, <1>9, <1>10, <1>11, <1>12, <1>13,
     <1>14, <1>15, <1>16, <1>17, <1>18, <1>19, <1>20, <1>21, <1>22, <1>23, <1>24, <1>25, <1>26
  DEF Next, Evaluator, FeedHandler, PauseHandler, Tasks

\* Whatever changes what a decision depends on moves a generation.
LEMMA StaleNext ==
  ASSUME TypeOK, StaleInv, [Next]_vars
  PROVE  StaleInv'
<1> USE RuntimeAssumption DEF gates, data, engine, local, recorder, counts, history, Goto, At,
      StaleInv, GateInv, SnapInv, PrepInv, ComparedInv, TypeOK, Prepared, Views, Tasks
<1>1. ASSUME EvaluateStarts
      PROVE  StaleInv'
  BY <1>1 DEF EvaluateStarts, Retry, Persist, FailToPersist
<1>2. ASSUME NEW markets \in SUBSET Markets, Snapshot(markets)
      PROVE  StaleInv'
  BY <1>2 DEF Snapshot
<1>3. ASSUME NEW m \in Markets, NEW output \in Outputs, Prepare(m, output)
      PROVE  StaleInv'
  BY <1>3 DEF Prepare, PossibleOutputs
<1>4. ASSUME NEW m \in Markets, SkipMarket(m)
      PROVE  StaleInv'
  BY <1>4 DEF SkipMarket
<1>5. ASSUME EvaluateEnds
      PROVE  StaleInv'
  BY <1>5 DEF EvaluateEnds
<1>6. ASSUME Compare
      PROVE  StaleInv'
  BY <1>6 DEF Compare, Stale
<1>7. ASSUME RecordBatch
      PROVE  StaleInv'
  BY <1>7 DEF RecordBatch, Persist, FailToPersist
<1>8. ASSUME Apply
      PROVE  StaleInv'
  BY <1>8 DEF Apply, RestsAfter
<1>9. ASSUME RecordApplication
      PROVE  StaleInv'
  BY <1>9 DEF RecordApplication, Persist, FailToPersist
<1>10. ASSUME NEW t \in Tasks, AcceptReports(t)
      PROVE  StaleInv'
  BY <1>10 DEF AcceptReports
<1>11. ASSUME HandleBook
      PROVE  StaleInv'
  BY <1>11 DEF HandleBook
<1>12. ASSUME HandleReference
      PROVE  StaleInv'
  BY <1>12 DEF HandleReference
<1>13. ASSUME HandleRawMarketEvent
      PROVE  StaleInv'
  BY <1>13 DEF HandleRawMarketEvent
<1>14. ASSUME NEW m \in Markets, HandlePaperFills(m)
      PROVE  StaleInv'
  BY <1>14 DEF HandlePaperFills
<1>15. ASSUME NothingToFill
      PROVE  StaleInv'
  BY <1>15 DEF NothingToFill
<1>16. ASSUME NEW t \in {"feed", "control"}, RecordReport(t)
      PROVE  StaleInv'
  BY <1>16 DEF RecordReport
<1>17. ASSUME CancelStarts
      PROVE  StaleInv'
  BY <1>17 DEF CancelStarts, Retry, Persist, FailToPersist
<1>18. ASSUME NEW m \in Markets, CancelMarket(m)
      PROVE  StaleInv'
  BY <1>18 DEF CancelMarket
<1>19. ASSUME CancelEnds
      PROVE  StaleInv'
  BY <1>19 DEF CancelEnds
<1>20. ASSUME FeedArrives
      PROVE  StaleInv'
  BY <1>20 DEF FeedArrives, Retry, Persist, FailToPersist
<1>21. ASSUME Pause
      PROVE  StaleInv'
  <2>1. UNCHANGED <<gate, snap, prep, engineGen, resting>> /\ dataGen' = dataGen + 1
    BY <1>21 DEF Pause
  <2>2. gate = "free" /\ pc'["evaluator"] = pc["evaluator"]
    BY <1>21 DEF Pause
  <2> QED
    BY <2>1, <2>2
<1>22. ASSUME Resume
      PROVE  StaleInv'
  BY <1>22 DEF Resume
<1>23. ASSUME NEW enabled \in BOOLEAN, SetKillSwitch(enabled)
      PROVE  StaleInv'
  BY <1>23 DEF SetKillSwitch
<1>24. ASSUME RecorderResumes
      PROVE  StaleInv'
  BY <1>24 DEF RecorderResumes
<1>26. ASSUME DropPause
      PROVE  StaleInv'
  BY <1>26 DEF DropPause, Persist
<1>25. CASE UNCHANGED vars
  BY <1>25 DEF vars
<1> QED
  BY <1>1, <1>2, <1>3, <1>4, <1>5, <1>6, <1>7, <1>8, <1>9, <1>10, <1>11, <1>12, <1>13,
     <1>14, <1>15, <1>16, <1>17, <1>18, <1>19, <1>20, <1>21, <1>22, <1>23, <1>24, <1>25, <1>26
  DEF Next, Evaluator, FeedHandler, PauseHandler, Tasks

\* What is applied was recorded first.
LEMMA RecordedNext ==
  ASSUME TypeOK, NumberInv, RecordedInv, [Next]_vars
  PROVE  RecordedInv'
<1> USE RuntimeAssumption DEF gates, data, engine, local, recorder, counts, history, Goto, At,
      RecordedInv, EvidenceBeforeEffect, TypeOK, Tasks
<1>1. ASSUME EvaluateStarts
      PROVE  RecordedInv'
  BY <1>1 DEF EvaluateStarts, Retry, Persist, FailToPersist
<1>2. ASSUME NEW markets \in SUBSET Markets, Snapshot(markets)
      PROVE  RecordedInv'
  BY <1>2 DEF Snapshot
<1>3. ASSUME NEW m \in Markets, NEW output \in Outputs, Prepare(m, output)
      PROVE  RecordedInv'
  BY <1>3 DEF Prepare, PossibleOutputs
<1>4. ASSUME NEW m \in Markets, SkipMarket(m)
      PROVE  RecordedInv'
  BY <1>4 DEF SkipMarket
<1>5. ASSUME EvaluateEnds
      PROVE  RecordedInv'
  BY <1>5 DEF EvaluateEnds
<1>6. ASSUME Compare
      PROVE  RecordedInv'
  BY <1>6 DEF Compare, Stale
<1>7. ASSUME RecordBatch
      PROVE  RecordedInv'
  BY <1>7 DEF RecordBatch, Persist, FailToPersist
<1>8. ASSUME Apply
      PROVE  RecordedInv'
  BY <1>8 DEF Apply, RestsAfter
<1>9. ASSUME RecordApplication
      PROVE  RecordedInv'
  BY <1>9 DEF RecordApplication, Persist, FailToPersist
<1>10. ASSUME NEW t \in Tasks, AcceptReports(t)
      PROVE  RecordedInv'
  BY <1>10 DEF AcceptReports
<1>11. ASSUME HandleBook
      PROVE  RecordedInv'
  BY <1>11 DEF HandleBook
<1>12. ASSUME HandleReference
      PROVE  RecordedInv'
  BY <1>12 DEF HandleReference
<1>13. ASSUME HandleRawMarketEvent
      PROVE  RecordedInv'
  BY <1>13 DEF HandleRawMarketEvent
<1>14. ASSUME NEW m \in Markets, HandlePaperFills(m)
      PROVE  RecordedInv'
  BY <1>14 DEF HandlePaperFills
<1>15. ASSUME NothingToFill
      PROVE  RecordedInv'
  BY <1>15 DEF NothingToFill
<1>16. ASSUME NEW t \in {"feed", "control"}, RecordReport(t)
      PROVE  RecordedInv'
  BY <1>16 DEF RecordReport
<1>17. ASSUME CancelStarts
      PROVE  RecordedInv'
  BY <1>17 DEF CancelStarts, Retry, Persist, FailToPersist
<1>18. ASSUME NEW m \in Markets, CancelMarket(m)
      PROVE  RecordedInv'
  BY <1>18 DEF CancelMarket
<1>19. ASSUME CancelEnds
      PROVE  RecordedInv'
  BY <1>19 DEF CancelEnds
<1>20. ASSUME FeedArrives
      PROVE  RecordedInv'
  BY <1>20 DEF FeedArrives, Retry, Persist, FailToPersist
<1>21. ASSUME Pause
      PROVE  RecordedInv'
  BY <1>21 DEF Pause
<1>22. ASSUME Resume
      PROVE  RecordedInv'
  BY <1>22 DEF Resume
<1>23. ASSUME NEW enabled \in BOOLEAN, SetKillSwitch(enabled)
      PROVE  RecordedInv'
  BY <1>23 DEF SetKillSwitch
<1>24. ASSUME RecorderResumes
      PROVE  RecordedInv'
  BY <1>24 DEF RecorderResumes
<1>26. ASSUME DropPause
      PROVE  RecordedInv'
  BY <1>26 DEF DropPause, Persist
<1>25. CASE UNCHANGED vars
  BY <1>25 DEF vars
<1> QED
  BY <1>1, <1>2, <1>3, <1>4, <1>5, <1>6, <1>7, <1>8, <1>9, <1>10, <1>11, <1>12, <1>13,
     <1>14, <1>15, <1>16, <1>17, <1>18, <1>19, <1>20, <1>21, <1>22, <1>23, <1>24, <1>25, <1>26
  DEF Next, Evaluator, FeedHandler, PauseHandler, Tasks

\* A market cancelled by a pause stays empty: Apply never places while paused.
LEMMA StopNext ==
  ASSUME TypeOK, StaleInv, StopInv, [Next]_vars
  PROVE  StopInv'
<1> USE RuntimeAssumption DEF gates, data, engine, local, recorder, counts, history, Goto, At,
      StopInv, PausedMarketsStayEmpty, StaleInv, GateInv, PrepInv, ComparedInv, TypeOK, Tasks
<1>1. ASSUME EvaluateStarts
      PROVE  StopInv'
  BY <1>1 DEF EvaluateStarts, Retry, Persist, FailToPersist
<1>2. ASSUME NEW markets \in SUBSET Markets, Snapshot(markets)
      PROVE  StopInv'
  BY <1>2 DEF Snapshot
<1>3. ASSUME NEW m \in Markets, NEW output \in Outputs, Prepare(m, output)
      PROVE  StopInv'
  BY <1>3 DEF Prepare, PossibleOutputs
<1>4. ASSUME NEW m \in Markets, SkipMarket(m)
      PROVE  StopInv'
  BY <1>4 DEF SkipMarket
<1>5. ASSUME EvaluateEnds
      PROVE  StopInv'
  BY <1>5 DEF EvaluateEnds
<1>6. ASSUME Compare
      PROVE  StopInv'
  BY <1>6 DEF Compare, Stale
<1>7. ASSUME RecordBatch
      PROVE  StopInv'
  BY <1>7 DEF RecordBatch, Persist, FailToPersist
<1>8. ASSUME Apply
      PROVE  StopInv'
  BY <1>8 DEF Apply, RestsAfter
<1>9. ASSUME RecordApplication
      PROVE  StopInv'
  BY <1>9 DEF RecordApplication, Persist, FailToPersist
<1>10. ASSUME NEW t \in Tasks, AcceptReports(t)
      PROVE  StopInv'
  BY <1>10 DEF AcceptReports
<1>11. ASSUME HandleBook
      PROVE  StopInv'
  BY <1>11 DEF HandleBook
<1>12. ASSUME HandleReference
      PROVE  StopInv'
  BY <1>12 DEF HandleReference
<1>13. ASSUME HandleRawMarketEvent
      PROVE  StopInv'
  BY <1>13 DEF HandleRawMarketEvent
<1>14. ASSUME NEW m \in Markets, HandlePaperFills(m)
      PROVE  StopInv'
  BY <1>14 DEF HandlePaperFills
<1>15. ASSUME NothingToFill
      PROVE  StopInv'
  BY <1>15 DEF NothingToFill
<1>16. ASSUME NEW t \in {"feed", "control"}, RecordReport(t)
      PROVE  StopInv'
  BY <1>16 DEF RecordReport
<1>17. ASSUME CancelStarts
      PROVE  StopInv'
  BY <1>17 DEF CancelStarts, Retry, Persist, FailToPersist
<1>18. ASSUME NEW m \in Markets, CancelMarket(m)
      PROVE  StopInv'
  BY <1>18 DEF CancelMarket
<1>19. ASSUME CancelEnds
      PROVE  StopInv'
  BY <1>19 DEF CancelEnds
<1>20. ASSUME FeedArrives
      PROVE  StopInv'
  BY <1>20 DEF FeedArrives, Retry, Persist, FailToPersist
<1>21. ASSUME Pause
      PROVE  StopInv'
  BY <1>21 DEF Pause
<1>22. ASSUME Resume
      PROVE  StopInv'
  BY <1>22 DEF Resume
<1>23. ASSUME NEW enabled \in BOOLEAN, SetKillSwitch(enabled)
      PROVE  StopInv'
  BY <1>23 DEF SetKillSwitch
<1>24. ASSUME RecorderResumes
      PROVE  StopInv'
  BY <1>24 DEF RecorderResumes
<1>26. ASSUME DropPause
      PROVE  StopInv'
  BY <1>26 DEF DropPause, Persist
<1>25. CASE UNCHANGED vars
  BY <1>25 DEF vars
<1> QED
  BY <1>1, <1>2, <1>3, <1>4, <1>5, <1>6, <1>7, <1>8, <1>9, <1>10, <1>11, <1>12, <1>13,
     <1>14, <1>15, <1>16, <1>17, <1>18, <1>19, <1>20, <1>21, <1>22, <1>23, <1>24, <1>25, <1>26
  DEF Next, Evaluator, FeedHandler, PauseHandler, Tasks

\* A retry hands the reports of the retained application to the task that made it.
LEMMA RetryReport ==
  ASSUME TypeOK, ReportInv, NEW t \in Tasks, NEW next, reports[t] = {},
         next \notin {"prepared", "record", "apply", "journal"},
         Retry(t, next), UNCHANGED <<batches, reported>>
  PROVE  ReportInv'
<1>1. Deciding' => Deciding
  BY DEF Retry, Goto, Deciding, Tasks, TypeOK
<1>2. CASE UNCHANGED <<pending, reports>> /\ durable \subseteq durable'
  BY <1>1, <1>2 DEF ReportInv, ReportsAreDurable, Reported, Deciding
<1>3. CASE /\ pending # NoBatch /\ pending' = NoBatch
           /\ Persist(<<"application", pending>>)
           /\ reports' = [reports EXCEPT ![t] = {pending}]
  <2>1. /\ pending \in Batches /\ pending' \notin Batches
        /\ reports[t] = {} /\ reports'[t] = {pending}
        /\ \A u \in Tasks \ {t} : reports'[u] = reports[u]
        /\ durable \subseteq durable' /\ <<"application", pending>> \in durable'
    BY <1>3, RuntimeAssumption DEF Persist, TypeOK, Batches
  <2>2. ReportsAreDurable'
    BY <2>1 DEF ReportInv, ReportsAreDurable, Reported
  <2>3. \A b : Reported(b)' <=> Reported(b) \/ b = pending
    BY <2>1 DEF Reported
  <2>4. ~Reported(pending)'
    BY <2>1, <2>3 DEF Reported, TypeOK
  <2>5. \A b \in Batches : (Reported(b) \/ b = pending)' => b <= batches'
    BY <2>1, <2>3 DEF ReportInv
  <2>6. Deciding' => ~Reported(batches)' /\ pending' # batches'
    <3>1. batches' = batches /\ pending' # batches
      BY <1>3, RuntimeAssumption DEF TypeOK
    <3>2. Reported(batches)' <=> Reported(batches) \/ batches = pending
      BY <2>3, <3>1 DEF Reported
    <3> QED
      BY <1>1, <3>1, <3>2 DEF ReportInv
  <2> QED
    BY <2>2, <2>4, <2>5, <2>6 DEF ReportInv
<1>4. CASE pending # NoBatch /\ FailToPersist(<<"application", pending>>)
             /\ UNCHANGED <<engine, reports>>
  BY <1>2, <1>4 DEF FailToPersist, engine
<1>5. CASE pending = NoBatch /\ UNCHANGED <<engine, reports, recorder>>
  BY <1>2, <1>5 DEF engine, recorder
<1> QED
  BY <1>3, <1>4, <1>5 DEF Retry

\* The reports of a batch have one owner, and an application in the journal.
LEMMA ReportNext ==
  ASSUME TypeOK, NumberInv, ReportInv, [Next]_vars
  PROVE  ReportInv'
<1> USE RuntimeAssumption DEF gates, data, engine, local, recorder, counts, history, Goto, At,
      ReportInv, ReportsAreDurable, Reported, NumberInv, Deciding, Batches, TypeOK, Tasks
<1>1. ASSUME EvaluateStarts
      PROVE  ReportInv'
  BY <1>1, RetryReport DEF EvaluateStarts
<1>2. ASSUME NEW markets \in SUBSET Markets, Snapshot(markets)
      PROVE  ReportInv'
  BY <1>2 DEF Snapshot
<1>3. ASSUME NEW m \in Markets, NEW output \in Outputs, Prepare(m, output)
      PROVE  ReportInv'
  BY <1>3 DEF Prepare, PossibleOutputs
<1>4. ASSUME NEW m \in Markets, SkipMarket(m)
      PROVE  ReportInv'
  BY <1>4 DEF SkipMarket
<1>5. ASSUME EvaluateEnds
      PROVE  ReportInv'
  BY <1>5 DEF EvaluateEnds
<1>6. ASSUME Compare
      PROVE  ReportInv'
  BY <1>6 DEF Compare, Stale
<1>7. ASSUME RecordBatch
      PROVE  ReportInv'
  BY <1>7 DEF RecordBatch, Persist, FailToPersist
<1>8. ASSUME Apply
      PROVE  ReportInv'
  BY <1>8 DEF Apply, RestsAfter
<1>9. ASSUME RecordApplication
      PROVE  ReportInv'
  <2>1. /\ pc["evaluator"] = "journal" /\ pc'["evaluator"] = "market"
        /\ UNCHANGED <<reported, batches>> /\ durable \subseteq durable'
        /\ batches \in Batches /\ prep.batch = batches
        /\ ~Reported(batches) /\ pending # batches
    BY <1>9 DEF RecordApplication, Persist, FailToPersist
  <2>2. CASE UNCHANGED reports /\ pending' = batches
    BY <2>1, <2>2
  <2>3. CASE /\ reports' = [reports EXCEPT !["evaluator"] = {batches}] /\ UNCHANGED pending
             /\ <<"application", batches>> \in durable'
    <3>1. ReportsAreDurable'
      BY <2>1, <2>3
    <3>2. \A b : Reported(b)' => Reported(b) \/ b = batches
      BY <2>1, <2>3
    <3> QED
      BY <2>1, <2>3, <3>1, <3>2
  <2> QED
    BY <1>9, <2>1, <2>2, <2>3 DEF RecordApplication, Persist, FailToPersist
<1>10. ASSUME NEW t \in Tasks, AcceptReports(t)
      PROVE  ReportInv'
  BY <1>10 DEF AcceptReports
<1>11. ASSUME HandleBook
      PROVE  ReportInv'
  BY <1>11 DEF HandleBook
<1>12. ASSUME HandleReference
      PROVE  ReportInv'
  BY <1>12 DEF HandleReference
<1>13. ASSUME HandleRawMarketEvent
      PROVE  ReportInv'
  BY <1>13 DEF HandleRawMarketEvent
<1>14. ASSUME NEW m \in Markets, HandlePaperFills(m)
      PROVE  ReportInv'
  BY <1>14 DEF HandlePaperFills
<1>15. ASSUME NothingToFill
      PROVE  ReportInv'
  BY <1>15 DEF NothingToFill
<1>16. ASSUME NEW t \in {"feed", "control"}, RecordReport(t)
      PROVE  ReportInv'
  BY <1>16 DEF RecordReport
<1>17. ASSUME CancelStarts
      PROVE  ReportInv'
  BY <1>17, RetryReport DEF CancelStarts
<1>18. ASSUME NEW m \in Markets, CancelMarket(m)
      PROVE  ReportInv'
  BY <1>18 DEF CancelMarket
<1>19. ASSUME CancelEnds
      PROVE  ReportInv'
  BY <1>19 DEF CancelEnds
<1>20. ASSUME FeedArrives
      PROVE  ReportInv'
  BY <1>20, RetryReport DEF FeedArrives
<1>21. ASSUME Pause
      PROVE  ReportInv'
  BY <1>21 DEF Pause
<1>22. ASSUME Resume
      PROVE  ReportInv'
  BY <1>22 DEF Resume
<1>23. ASSUME NEW enabled \in BOOLEAN, SetKillSwitch(enabled)
      PROVE  ReportInv'
  BY <1>23 DEF SetKillSwitch
<1>24. ASSUME RecorderResumes
      PROVE  ReportInv'
  BY <1>24 DEF RecorderResumes
<1>26. ASSUME DropPause
      PROVE  ReportInv'
  BY <1>26 DEF DropPause, Persist
<1>25. CASE UNCHANGED vars
  BY <1>25 DEF vars
<1> QED
  BY <1>1, <1>2, <1>3, <1>4, <1>5, <1>6, <1>7, <1>8, <1>9, <1>10, <1>11, <1>12, <1>13,
     <1>14, <1>15, <1>16, <1>17, <1>18, <1>19, <1>20, <1>21, <1>22, <1>23, <1>24, <1>25, <1>26
  DEF Next, Evaluator, FeedHandler, PauseHandler, Tasks

\* Only the application of a batch lets an order rest.
LEMMA OnlyApplyPlaces ==
  ASSUME TypeOK, [Next]_vars
  PROVE  Apply \/ PlacesNothing
<1> USE RuntimeAssumption DEF gates, data, engine, local, recorder, counts, history, Goto, At,
      TypeOK, PlacesNothing
<1>1. ASSUME EvaluateStarts
      PROVE  Apply \/ PlacesNothing
  BY <1>1 DEF EvaluateStarts, Retry, Persist, FailToPersist
<1>2. ASSUME NEW markets \in SUBSET Markets, Snapshot(markets)
      PROVE  Apply \/ PlacesNothing
  BY <1>2 DEF Snapshot
<1>3. ASSUME NEW m \in Markets, NEW output \in Outputs, Prepare(m, output)
      PROVE  Apply \/ PlacesNothing
  BY <1>3 DEF Prepare, PossibleOutputs
<1>4. ASSUME NEW m \in Markets, SkipMarket(m)
      PROVE  Apply \/ PlacesNothing
  BY <1>4 DEF SkipMarket
<1>5. ASSUME EvaluateEnds
      PROVE  Apply \/ PlacesNothing
  BY <1>5 DEF EvaluateEnds
<1>6. ASSUME Compare
      PROVE  Apply \/ PlacesNothing
  BY <1>6 DEF Compare, Stale
<1>7. ASSUME RecordBatch
      PROVE  Apply \/ PlacesNothing
  BY <1>7 DEF RecordBatch, Persist, FailToPersist
<1>8. ASSUME Apply
      PROVE  Apply \/ PlacesNothing
  BY <1>8 DEF Apply, RestsAfter
<1>9. ASSUME RecordApplication
      PROVE  Apply \/ PlacesNothing
  BY <1>9 DEF RecordApplication, Persist, FailToPersist
<1>10. ASSUME NEW t \in Tasks, AcceptReports(t)
      PROVE  Apply \/ PlacesNothing
  BY <1>10 DEF AcceptReports
<1>11. ASSUME HandleBook
      PROVE  Apply \/ PlacesNothing
  BY <1>11 DEF HandleBook
<1>12. ASSUME HandleReference
      PROVE  Apply \/ PlacesNothing
  BY <1>12 DEF HandleReference
<1>13. ASSUME HandleRawMarketEvent
      PROVE  Apply \/ PlacesNothing
  BY <1>13 DEF HandleRawMarketEvent
<1>14. ASSUME NEW m \in Markets, HandlePaperFills(m)
      PROVE  Apply \/ PlacesNothing
  BY <1>14 DEF HandlePaperFills
<1>15. ASSUME NothingToFill
      PROVE  Apply \/ PlacesNothing
  BY <1>15 DEF NothingToFill
<1>16. ASSUME NEW t \in {"feed", "control"}, RecordReport(t)
      PROVE  Apply \/ PlacesNothing
  BY <1>16 DEF RecordReport
<1>17. ASSUME CancelStarts
      PROVE  Apply \/ PlacesNothing
  BY <1>17 DEF CancelStarts, Retry, Persist, FailToPersist
<1>18. ASSUME NEW m \in Markets, CancelMarket(m)
      PROVE  Apply \/ PlacesNothing
  BY <1>18 DEF CancelMarket
<1>19. ASSUME CancelEnds
      PROVE  Apply \/ PlacesNothing
  BY <1>19 DEF CancelEnds
<1>20. ASSUME FeedArrives
      PROVE  Apply \/ PlacesNothing
  BY <1>20 DEF FeedArrives, Retry, Persist, FailToPersist
<1>21. ASSUME Pause
      PROVE  Apply \/ PlacesNothing
  BY <1>21 DEF Pause
<1>22. ASSUME Resume
      PROVE  Apply \/ PlacesNothing
  BY <1>22 DEF Resume
<1>23. ASSUME NEW enabled \in BOOLEAN, SetKillSwitch(enabled)
      PROVE  Apply \/ PlacesNothing
  BY <1>23 DEF SetKillSwitch
<1>24. ASSUME RecorderResumes
      PROVE  Apply \/ PlacesNothing
  BY <1>24 DEF RecorderResumes
<1>26. ASSUME DropPause
      PROVE  Apply \/ PlacesNothing
  BY <1>26 DEF DropPause, Persist
<1>25. CASE UNCHANGED vars
  BY <1>25 DEF vars
<1> QED
  BY <1>1, <1>2, <1>3, <1>4, <1>5, <1>6, <1>7, <1>8, <1>9, <1>10, <1>11, <1>12, <1>13,
     <1>14, <1>15, <1>16, <1>17, <1>18, <1>19, <1>20, <1>21, <1>22, <1>23, <1>24, <1>25, <1>26
  DEF Next, Evaluator, FeedHandler, PauseHandler, Tasks

----------------------------------------------------------------------------
(* The theorems *)

\* The invariant holds at the start.
LEMMA InitIInv == Init => IInv
<1> SUFFICES ASSUME Init PROVE IInv
  OBVIOUS
<1>1. PICK first \in Markets :
        prep = [batch |-> 0, market |-> first, output |-> "hold", view |-> View,
                dataGen |-> 0, engineGen |-> 0]
  BY DEF Init
<1>2. /\ View \in Views
      /\ View.paused = FALSE /\ View.killSwitch = FALSE /\ View.inputs = 0
      /\ View.resting = resting
  BY DEF Init, View, Views
<1>3. prep \in Prepared /\ prep.batch = 0 /\ prep.output = "hold" /\ prep.view = View
      /\ prep.dataGen = 0 /\ prep.engineGen = 0
  BY <1>1, <1>2, RuntimeAssumption DEF Prepared, Outputs
<1>4. /\ gate = "free" /\ pc = [t \in Tasks |-> "idle"] /\ reports = [t \in Tasks |-> {}]
      /\ paused = FALSE /\ killSwitch = FALSE /\ inputs = 0 /\ dataGen = 0
      /\ resting = [m \in Markets |-> NoBatch] /\ engineGen = 0 /\ pending = NoBatch
      /\ snap = [paused |-> FALSE, killSwitch |-> FALSE, inputs |-> 0, dataGen |-> 0]
      /\ todo = {} /\ sweep = {} /\ batches = 0 /\ durable = {} /\ staged = {}
      /\ failures = 0 /\ applied = {} /\ reported = {} /\ swept = {} /\ feeds = 0
      /\ controls = 0
  BY DEF Init
<1>5. TypeOK
  <2>1. reports \in [Tasks -> SUBSET Batches]
    BY <1>4
  <2>2. resting \in [Markets -> Batches \cup {NoBatch}] /\ pending \in Batches \cup {NoBatch}
    BY <1>4
  <2>3. snap \in [paused : BOOLEAN, killSwitch : BOOLEAN, inputs : Nat, dataGen : Nat]
    BY <1>4
  <2>4. pc \in [Tasks -> {"idle", "snapshot", "market", "prepared", "record", "apply",
                          "journal", "mutate", "fill", "report", "flagged", "cancel"}]
    BY <1>4
  <2>5. batches \in 0..MaxBatches /\ feeds \in 0..MaxFeeds /\ controls \in 0..MaxControls
        /\ failures \in 0..MaxFailures
    BY <1>4, RuntimeAssumption
  <2> QED
    BY <1>3, <1>4, <2>2, <2>3, <2>1, <2>4, <2>5 DEF TypeOK
<1>6. NumberInv /\ StopInv /\ ReportInv
  BY <1>3, <1>4, RuntimeAssumption
  DEF NumberInv, Deciding, StopInv, PausedMarketsStayEmpty, ReportInv, ReportsAreDurable,
      Reported, Tasks, Batches
<1>7. StaleInv
  <2>1. GateInv
    BY <1>4 DEF GateInv, Tasks
  <2>2. SnapInv
    <3>1. snap.dataGen <= dataGen
      BY <1>4
    <3>2. ~snap.paused /\ snap.paused = paused /\ snap.killSwitch = killSwitch
      BY <1>4, Zenon
    <3>3. snap.inputs = inputs
      BY <1>4
    <3> QED
      BY <3>1, <3>2, <3>3 DEF SnapInv
  <2>3. PrepInv
    <3>1. prep.dataGen <= dataGen /\ prep.engineGen <= engineGen
      BY <1>3, <1>4
    <3>2. /\ prep.view.paused = paused /\ prep.view.killSwitch = killSwitch
          /\ prep.view.inputs = inputs /\ prep.view.resting = resting
      BY <1>2, <1>3, <1>4
    <3>3. prep.output # "place"
      BY <1>3
    <3> QED
      BY <3>1, <3>2, <3>3 DEF PrepInv
  <2>4. ComparedInv
    BY <1>4 DEF ComparedInv, Tasks
  <2> QED
    BY <2>1, <2>2, <2>3, <2>4 DEF StaleInv
<1>8. RecordedInv
  BY <1>4 DEF RecordedInv, EvidenceBeforeEffect, Tasks
<1> QED
  BY <1>5, <1>6, <1>7, <1>8 DEF IInv

\* The strengthened invariant holds in every reachable state.
THEOREM Invariance == Spec => []IInv
<1>1. IInv /\ [Next]_vars => IInv'
  BY TypeNext, NumberNext, StaleNext, RecordedNext, StopNext, ReportNext DEF IInv
<1> QED
  BY InitIInv, <1>1, PTL DEF Spec

\* What every variable may hold.
THEOREM TypeCorrect == Spec => []TypeOK
<1>1. IInv => TypeOK
  BY DEF IInv
<1> QED
  BY <1>1, Invariance, PTL

\* The compare-and-apply of evaluate_once: what a batch depends on did not change between
\* its evaluation and its application, although the gate was let go in between.
THEOREM NeverStale == Spec => []AppliesWhatItSaw
<1>1. IInv => AppliesWhatItSaw
  BY DEF IInv, TypeOK, StaleInv, PrepInv, ComparedInv, AppliesWhatItSaw, Prepared, Views, View
<1> QED
  BY <1>1, Invariance, PTL

\* No batch is executed before its evidence is in the journal.
THEOREM AuditedFirst == Spec => []EvidenceBeforeEffect
<1>1. IInv => EvidenceBeforeEffect
  BY DEF IInv, RecordedInv
<1> QED
  BY <1>1, Invariance, PTL

\* The reports of a batch are accepted once, and only when they are in the journal.
THEOREM ReportedDurably == Spec => []ReportsAreDurable
<1>1. IInv => ReportsAreDurable
  BY DEF IInv, ReportInv
<1> QED
  BY <1>1, Invariance, PTL

\* A market that a pause has cancelled stays empty until the resume.
THEOREM PausedStaysEmpty == Spec => []PausedMarketsStayEmpty
<1>1. IInv => PausedMarketsStayEmpty
  BY DEF IInv, StopInv
<1> QED
  BY <1>1, Invariance, PTL

\* No step lets an order rest while the runtime is paused or its kill switch is on.
THEOREM StoppedPlacesNothing == Spec => NoOrderWhenStopped
<1> DEFINE Quiet == \A m \in Markets : resting'[m] \notin {resting[m], NoBatch}
                                       => ~paused /\ ~killSwitch
<1>1. ASSUME IInv, Apply PROVE Quiet
  BY <1>1 DEF IInv, TypeOK, StaleInv, PrepInv, ComparedInv, Apply, RestsAfter, engine
<1>2. IInv /\ [Next]_vars => Quiet
  BY <1>1, OnlyApplyPlaces DEF IInv, PlacesNothing
<1>3. IInv /\ [Next]_vars => [Quiet]_vars
  BY <1>2
<1> QED
  BY <1>3, Invariance, PTL DEF Spec, NoOrderWhenStopped

=============================================================================
