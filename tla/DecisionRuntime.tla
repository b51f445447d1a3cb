-------------------------- MODULE DecisionRuntime --------------------------
(* The tasks of the runtime that share the trading state, and the rule they *)
(* share it by (crates/polyedge-api/src/runtime.rs): the strategy loop      *)
(* evaluates a market under the decision gate, lets go of it, and takes it  *)
(* again to compare both generations, make the evidence durable and apply   *)
(* the batch; the feed loop and the control API mutate under the gate in    *)
(* between and bump a generation.                                           *)
(*                                                                          *)
(* Abstracted: the trading state of a market is the batch whose order rests *)
(* there (PaperEngine has the rest); books and references are a version     *)
(* number; the recorder is durable-or-not, as Recorder shows.  Settlement   *)
(* and discovery are not steps of this module.                              *)
EXTENDS Naturals

CONSTANTS
  Markets,
  NoBatch,                                  \* Option::None
  AdaptiveMode,                             \* a classifier is stored on apply
  MaxBatches, MaxFeeds, MaxControls,        \* bounds of the model
  MaxFailures                               \* the outage of the recorder is finite

ASSUME RuntimeAssumption ==
  /\ AdaptiveMode \in BOOLEAN
  /\ MaxBatches \in Nat /\ MaxFeeds \in Nat /\ MaxControls \in Nat
  /\ MaxFailures \in Nat
  /\ NoBatch \notin Nat

Tasks == {"evaluator", "feed", "control"}

Batches == 1..MaxBatches

Evidence == {"batch", "application"} \X Batches

VARIABLES
  gate,         \* decision_gate: the task that holds it across an await, or "free"
  pc,
  paused, killSwitch,
  inputs,       \* version of books, references and start evidence
  dataGen,      \* data.decision_generation
  resting,      \* the engine: the batch whose order rests in the market
  engineGen,    \* engine.decision_generation
  pending,      \* engine.pending_decision_application
  snap,         \* the evaluator's copy of the data
  todo,         \* the markets of the snapshot not evaluated yet
  prep,         \* the prepared batch
  sweep,        \* the markets a pause has still to cancel
  reports,      \* the batches whose reports a task is about to accept
  batches,      \* how many batches were prepared
  durable,      \* evidence in the journal
  staged,       \* evidence that failed but that the recorder still holds
  applied,      \* history: the batches that were executed
  reported,     \* history: the batches whose reports were accepted
  swept,        \* history: the markets cancelled by a pause since it began
  feeds, controls, failures                 \* counted against the bounds

gates    == <<gate, pc>>
data     == <<paused, killSwitch, inputs, dataGen>>
engine   == <<resting, engineGen, pending>>
local    == <<snap, todo, prep, sweep, batches>>
recorder == <<durable, staged, failures>>
counts   == <<feeds, controls>>
history  == <<applied, reported, swept>>

vars == <<gates, data, engine, local, reports, recorder, counts, history>>

\* what a decision depends on
View == [paused |-> paused, killSwitch |-> killSwitch,
         inputs |-> inputs, resting |-> resting]

Views == [paused : BOOLEAN, killSwitch : BOOLEAN, inputs : Nat,
          resting : [Markets -> Batches \cup {NoBatch}]]

Outputs == {"hold", "place", "cancel"}

Prepared == [batch : 0..MaxBatches, market : Markets, output : Outputs,
             view : Views, dataGen : Nat, engineGen : Nat]

TypeOK ==
  /\ gate \in {"free", "evaluator"}
  /\ pc \in [Tasks -> {"idle", "snapshot", "market", "prepared", "record", "apply",
                       "journal", "mutate", "fill", "report", "flagged", "cancel"}]
  /\ paused \in BOOLEAN /\ killSwitch \in BOOLEAN /\ inputs \in Nat /\ dataGen \in Nat
  /\ resting \in [Markets -> Batches \cup {NoBatch}]
  /\ engineGen \in Nat
  /\ pending \in Batches \cup {NoBatch}
  /\ snap \in [paused : BOOLEAN, killSwitch : BOOLEAN, inputs : Nat, dataGen : Nat]
  /\ todo \subseteq Markets /\ sweep \subseteq Markets
  /\ prep \in Prepared
  /\ reports \in [Tasks -> SUBSET Batches]
  /\ batches \in 0..MaxBatches
  /\ durable \subseteq Evidence /\ staged \subseteq Evidence
  /\ applied \subseteq Batches /\ reported \subseteq Batches /\ swept \subseteq Markets
  /\ feeds \in 0..MaxFeeds /\ controls \in 0..MaxControls /\ failures \in 0..MaxFailures

Init ==
  /\ gate = "free" /\ pc = [t \in Tasks |-> "idle"]
  /\ paused = FALSE /\ killSwitch = FALSE /\ inputs = 0 /\ dataGen = 0
  /\ resting = [m \in Markets |-> NoBatch] /\ engineGen = 0 /\ pending = NoBatch
  /\ snap = [paused |-> FALSE, killSwitch |-> FALSE, inputs |-> 0, dataGen |-> 0]
  /\ todo = {} /\ sweep = {} /\ batches = 0
  /\ \E m \in Markets :
       prep = [batch |-> 0, market |-> m, output |-> "hold", view |-> View,
               dataGen |-> 0, engineGen |-> 0]
  /\ reports = [t \in Tasks |-> {}]
  /\ durable = {} /\ staged = {} /\ failures = 0
  /\ applied = {} /\ reported = {} /\ swept = {}
  /\ feeds = 0 /\ controls = 0

----------------------------------------------------------------------------
(* record_required_runtime_events, as its callers see it *)

\* the recorder resumes what it holds before it takes anything new
Persist(e) ==
  /\ durable' = durable \cup staged \cup {e}
  /\ staged' = {}
  /\ UNCHANGED failures

\* three attempts failed; an authoritative recorder may hold the batch
FailToPersist(e) ==
  /\ failures < MaxFailures /\ failures' = failures + 1
  /\ staged' = staged \/ (staged = {} /\ staged' = {e})
  /\ UNCHANGED durable

\* the recorder's worker resumes on its own
RecorderResumes ==
  /\ staged # {}
  /\ durable' = durable \cup staged /\ staged' = {}
  /\ UNCHANGED <<gates, data, engine, local, reports, failures, counts, history>>

----------------------------------------------------------------------------
(* Steps of every task *)

Goto(t, label) == pc' = [pc EXCEPT ![t] = label]

\* a task that took over reports accepts them before it goes on
At(t, label) == pc[t] = label /\ gate = "free" /\ reports[t] = {}

\* mutant: the application stays pending after its retry succeeded
RetryKeepsPending(t, next) ==
  \/ /\ pending = NoBatch
     /\ Goto(t, next)
     /\ UNCHANGED <<engine, reports, recorder>>
  \/ /\ pending # NoBatch
     /\ Persist(<<"application", pending>>)
     /\ engineGen' = engineGen + 1
     /\ reports' = [reports EXCEPT ![t] = {pending}]
     /\ Goto(t, next)
     /\ UNCHANGED <<resting, pending>>

\* retry_pending_decision_application: NotPending, Committed or Retained
Retry(t, next) ==
  \/ /\ pending = NoBatch
     /\ Goto(t, next)
     /\ UNCHANGED <<engine, reports, recorder>>
  \/ /\ pending # NoBatch
     /\ Persist(<<"application", pending>>)
     /\ pending' = NoBatch
     /\ engineGen' = engineGen + 1
     /\ reports' = [reports EXCEPT ![t] = {pending}]
     /\ Goto(t, next)
     /\ UNCHANGED resting
  \/ /\ pending # NoBatch
     /\ FailToPersist(<<"application", pending>>)
     /\ Goto(t, "idle")
     /\ UNCHANGED <<engine, reports>>

\* accept_persisted_execution_report
AcceptReports(t) ==
  /\ gate = "free" /\ reports[t] # {}
  /\ reported' = reported \cup reports[t]
  /\ reports' = [reports EXCEPT ![t] = {}]
  /\ engineGen' = engineGen + 1
  /\ UNCHANGED <<gates, data, resting, pending, local, recorder, counts, applied, swept>>

\* record_execution_report of a fill or of a cancelled order
RecordReport(t) ==
  /\ At(t, "report")
  /\ engineGen' = engineGen + 1
  /\ Goto(t, IF t = "feed" THEN "idle" ELSE "cancel")
  /\ UNCHANGED <<gate, data, resting, pending, local, reports, recorder, counts, history>>

----------------------------------------------------------------------------
(* evaluate_once *)

\* mutant: the evaluator does not retry the application it has retained
EvaluateWithoutRetry ==
  /\ At("evaluator", "idle")
  /\ IF pending = NoBatch THEN Goto("evaluator", "snapshot") ELSE UNCHANGED pc
  /\ UNCHANGED <<gate, data, engine, local, reports, recorder, counts, history>>

EvaluateStarts ==
  /\ At("evaluator", "idle")
  /\ Retry("evaluator", "snapshot")
  /\ UNCHANGED <<gate, data, local, counts, history>>

\* markets are the active ones with durable start evidence
Snapshot(markets) ==
  /\ At("evaluator", "snapshot")
  /\ IF paused
     THEN Goto("evaluator", "idle") /\ UNCHANGED <<snap, todo>>
     ELSE /\ snap' = [paused |-> paused, killSwitch |-> killSwitch,
                      inputs |-> inputs, dataGen |-> dataGen]
          /\ todo' = markets
          /\ Goto("evaluator", "market")
  /\ UNCHANGED <<gate, data, engine, prep, sweep, batches, reports, recorder, counts, history>>

\* what evaluate_decision_pipeline_v3 may decide: an order, a cancellation when
\* something rests, nothing; with the kill switch on the risk manager denies
PossibleOutputs(m) ==
  IF snap.killSwitch THEN {IF resting[m] = NoBatch THEN "hold" ELSE "cancel"}
  ELSE {"hold", "place"} \cup (IF resting[m] = NoBatch THEN {} ELSE {"cancel"})

Prepare(m, output) ==
  /\ At("evaluator", "market") /\ m \in todo
  /\ dataGen = snap.dataGen
  /\ batches < MaxBatches /\ batches' = batches + 1
  /\ output \in PossibleOutputs(m)
  /\ prep' = [batch |-> batches + 1, market |-> m, output |-> output,
              view |-> [paused |-> snap.paused, killSwitch |-> snap.killSwitch,
                        inputs |-> snap.inputs, resting |-> resting],
              dataGen |-> snap.dataGen, engineGen |-> engineGen]
  /\ todo' = todo \ {m}
  /\ Goto("evaluator", "prepared")
  /\ UNCHANGED <<gate, data, engine, snap, sweep, reports, recorder, counts, history>>

\* the data moved on since the snapshot, or the market has no fair value
SkipMarket(m) ==
  /\ At("evaluator", "market") /\ m \in todo
  /\ todo' = todo \ {m}
  /\ UNCHANGED <<gates, data, engine, snap, prep, sweep, batches, reports, recorder,
                 counts, history>>

EvaluateEnds ==
  /\ At("evaluator", "market") /\ todo = {}
  /\ Goto("evaluator", "idle")
  /\ UNCHANGED <<gate, data, engine, local, reports, recorder, counts, history>>

\* mutant: only the generation of the data is compared
StaleDataOnly == dataGen # prep.dataGen

\* stale_decision_state_generation
Stale == dataGen # prep.dataGen \/ engineGen # prep.engineGen

\* the gate is taken, and kept while the evidence is recorded
Compare ==
  /\ At("evaluator", "prepared")
  /\ IF Stale THEN Goto("evaluator", "market") /\ UNCHANGED gate
     ELSE Goto("evaluator", "record") /\ gate' = "evaluator"
  /\ UNCHANGED <<data, engine, local, reports, recorder, counts, history>>

\* mutant: a batch whose evidence failed goes on
RecordBatchBestEffort ==
  /\ pc["evaluator"] = "record"
  /\ Persist(<<"batch", prep.batch>>) \/ FailToPersist(<<"batch", prep.batch>>)
  /\ Goto("evaluator", "apply")
  /\ UNCHANGED <<gate, data, engine, local, reports, counts, history>>

\* record_required_events: a failure rejects the batch
RecordBatch ==
  /\ pc["evaluator"] = "record"
  /\ \/ /\ Persist(<<"batch", prep.batch>>)
        /\ Goto("evaluator", "apply") /\ UNCHANGED gate
     \/ /\ FailToPersist(<<"batch", prep.batch>>)
        /\ Goto("evaluator", "market") /\ gate' = "free"
  /\ UNCHANGED <<data, engine, local, reports, counts, history>>

\* mutant: the order carries the number of the batch before
RestsAfterOffByOne == IF prep.output = "place" THEN prep.batch - 1 ELSE NoBatch

RestsAfter == IF prep.output = "place" THEN prep.batch ELSE NoBatch

\* a batch without an actionable output has no application to record
Apply ==
  /\ pc["evaluator"] = "apply"
  /\ IF prep.output = "hold"
     THEN /\ engineGen' = IF AdaptiveMode THEN engineGen + 1 ELSE engineGen
          /\ Goto("evaluator", "market") /\ gate' = "free"
          /\ UNCHANGED <<resting, applied>>
     ELSE /\ engineGen' = engineGen + 1
          /\ resting' = [resting EXCEPT ![prep.market] = RestsAfter]
          /\ applied' = applied \cup {prep.batch}
          /\ Goto("evaluator", "journal") /\ UNCHANGED gate
  /\ UNCHANGED <<data, pending, local, reports, recorder, counts, reported, swept>>

\* mutant: reports are accepted whether or not the application was recorded
RecordApplicationLoosely ==
  /\ pc["evaluator"] = "journal"
  /\ \/ Persist(<<"application", prep.batch>>) /\ UNCHANGED pending
     \/ FailToPersist(<<"application", prep.batch>>) /\ pending' = prep.batch
  /\ reports' = [reports EXCEPT !["evaluator"] = {prep.batch}]
  /\ Goto("evaluator", "market") /\ gate' = "free"
  /\ UNCHANGED <<data, resting, engineGen, local, counts, history>>

\* the application evidence, still under the gate; what fails is retained, in
\* the place of what may be retained already
RecordApplication ==
  /\ pc["evaluator"] = "journal"
  /\ \/ /\ Persist(<<"application", prep.batch>>)
        /\ reports' = [reports EXCEPT !["evaluator"] = {prep.batch}]
        /\ UNCHANGED pending
     \/ /\ FailToPersist(<<"application", prep.batch>>)
        /\ pending' = prep.batch
        /\ UNCHANGED reports
  /\ Goto("evaluator", "market") /\ gate' = "free"
  /\ UNCHANGED <<data, resting, engineGen, local, counts, history>>

----------------------------------------------------------------------------
(* The feed loop: one event at a time *)

\* a retained application drops the event
FeedArrives ==
  /\ At("feed", "idle")
  /\ feeds < MaxFeeds /\ feeds' = feeds + 1
  /\ Retry("feed", "mutate")
  /\ UNCHANGED <<gate, data, local, controls, history>>

\* mutant: a book is stored without a new generation
HandleBookSilently ==
  /\ At("feed", "mutate")
  /\ inputs' = inputs + 1
  /\ Goto("feed", "fill")
  /\ UNCHANGED <<gate, paused, killSwitch, dataGen, engine, local, reports,
                 recorder, counts, history>>

HandleBook ==
  /\ At("feed", "mutate")
  /\ inputs' = inputs + 1 /\ dataGen' = dataGen + 1 /\ engineGen' = engineGen + 1
  /\ Goto("feed", "fill")
  /\ UNCHANGED <<gate, paused, killSwitch, resting, pending, local, reports,
                 recorder, counts, history>>

\* without the capture and the settlement that follow
HandleReference ==
  /\ At("feed", "mutate")
  /\ inputs' = inputs + 1 /\ dataGen' = dataGen + 1 /\ engineGen' = engineGen + 1
  /\ Goto("feed", "idle")
  /\ UNCHANGED <<gate, paused, killSwitch, resting, pending, local, reports,
                 recorder, counts, history>>

\* only the queue model of execution_quality observes it
HandleRawMarketEvent ==
  /\ At("feed", "mutate")
  /\ engineGen' = engineGen + 1
  /\ Goto("feed", "idle")
  /\ UNCHANGED <<gate, data, resting, pending, local, reports, recorder, counts, history>>

\* handle_paper_fills of the book: it may fill what rests in its market
HandlePaperFills(m) ==
  /\ At("feed", "fill") /\ resting[m] # NoBatch
  /\ resting' = [resting EXCEPT ![m] = NoBatch]
  /\ engineGen' = engineGen + 1
  /\ Goto("feed", "report")
  /\ UNCHANGED <<gate, data, pending, local, reports, recorder, counts, history>>

NothingToFill ==
  /\ At("feed", "fill")
  /\ Goto("feed", "idle")
  /\ UNCHANGED <<gate, data, engine, local, reports, recorder, counts, history>>

----------------------------------------------------------------------------
(* The control API *)

\* mutants: a control is set without a new generation
PauseSilently ==
  /\ At("control", "idle")
  /\ controls < MaxControls /\ controls' = controls + 1
  /\ paused' = TRUE
  /\ sweep' = Markets
  /\ Goto("control", "flagged")
  /\ UNCHANGED <<gate, killSwitch, inputs, dataGen, engine, snap, todo, prep, batches,
                 reports, recorder, feeds, history>>

SetKillSwitchSilently(enabled) ==
  /\ gate = "free"
  /\ controls < MaxControls /\ controls' = controls + 1
  /\ killSwitch' = enabled
  /\ UNCHANGED <<gates, paused, inputs, dataGen, engine, local, reports, recorder,
                 feeds, history>>

Pause ==
  /\ At("control", "idle")
  /\ controls < MaxControls /\ controls' = controls + 1
  /\ paused' = TRUE /\ dataGen' = dataGen + 1
  /\ sweep' = Markets
  /\ Goto("control", "flagged")
  /\ UNCHANGED <<gate, killSwitch, inputs, engine, snap, todo, prep, batches, reports,
                 recorder, feeds, history>>

\* cancel_active_markets gives up when the application is retained
CancelStarts ==
  /\ At("control", "flagged")
  /\ Retry("control", "cancel")
  /\ UNCHANGED <<gate, data, local, counts, history>>

\* execute_paper_decision of a CancelAll
CancelMarket(m) ==
  /\ At("control", "cancel") /\ m \in sweep
  /\ sweep' = sweep \ {m}
  /\ resting' = [resting EXCEPT ![m] = NoBatch]
  /\ engineGen' = engineGen + 1
  /\ swept' = IF paused THEN swept \cup {m} ELSE swept
  /\ IF resting[m] = NoBatch THEN UNCHANGED pc ELSE Goto("control", "report")
  /\ UNCHANGED <<gate, data, pending, snap, todo, prep, batches, reports, recorder,
                 counts, applied, reported>>

CancelEnds ==
  /\ At("control", "cancel") /\ sweep = {}
  /\ Goto("control", "idle")
  /\ UNCHANGED <<gate, data, engine, local, reports, recorder, counts, history>>

\* The server drops a pause whose client has gone away, at any of its awaits; what
\* it had asked of the recorder may become durable all the same.
DropPause ==
  /\ pc["control"] # "idle" /\ gate = "free"
  /\ Goto("control", "idle")
  /\ sweep' = {}
  /\ reports' = [reports EXCEPT !["control"] = {}]
  /\ \/ UNCHANGED recorder
     \/ /\ pc["control"] = "flagged" /\ pending # NoBatch
        /\ Persist(<<"application", pending>>)
  /\ UNCHANGED <<gate, data, engine, snap, todo, prep, batches, counts, history>>

\* another request, while a pause may still be cancelling
Resume ==
  /\ gate = "free"
  /\ controls < MaxControls /\ controls' = controls + 1
  /\ paused' = FALSE /\ dataGen' = dataGen + 1
  /\ swept' = {}
  /\ UNCHANGED <<gates, killSwitch, inputs, engine, local, reports, recorder, feeds,
                 applied, reported>>

SetKillSwitch(enabled) ==
  /\ gate = "free"
  /\ controls < MaxControls /\ controls' = controls + 1
  /\ killSwitch' = enabled /\ dataGen' = dataGen + 1
  /\ UNCHANGED <<gates, paused, inputs, engine, local, reports, recorder, feeds, history>>

----------------------------------------------------------------------------

Evaluator ==
  \/ EvaluateStarts
  \/ \E markets \in SUBSET Markets : Snapshot(markets)
  \/ \E m \in Markets, output \in Outputs : Prepare(m, output)
  \/ \E m \in Markets : SkipMarket(m)
  \/ EvaluateEnds
  \/ Compare
  \/ RecordBatch
  \/ Apply
  \/ RecordApplication
  \/ AcceptReports("evaluator")

\* a handler that has begun
FeedHandler ==
  \/ HandleBook \/ HandleReference \/ HandleRawMarketEvent
  \/ \E m \in Markets : HandlePaperFills(m)
  \/ NothingToFill
  \/ RecordReport("feed")
  \/ AcceptReports("feed")

PauseHandler ==
  \/ CancelStarts
  \/ \E m \in Markets : CancelMarket(m)
  \/ CancelEnds
  \/ RecordReport("control")
  \/ AcceptReports("control")

Next ==
  \/ Evaluator \/ FeedHandler \/ PauseHandler
  \/ FeedArrives
  \/ Pause \/ DropPause \/ Resume \/ \E enabled \in BOOLEAN : SetKillSwitch(enabled)
  \/ RecorderResumes

Spec == Init /\ [][Next]_vars

\* The strategy loop runs for ever, and a handler that began goes on.  Nobody has
\* to send an event or a control.
FairSpec == Spec /\ WF_vars(Evaluator) /\ WF_vars(FeedHandler) /\ WF_vars(PauseHandler)

----------------------------------------------------------------------------
(* Properties *)

\* Between the comparison and the application of a batch nothing it depends on is
\* different from what it was evaluated on, however many tasks ran in between:
\* "it prevents an unaudited or stale decision from executing".
AppliesWhatItSaw ==
  pc["evaluator"] \in {"record", "apply"} => prep.view = View

\* A batch is executed only after its evidence is in the journal.
EvidenceBeforeEffect == \A b \in applied : <<"batch", b>> \in durable

\* The reports of a batch are accepted only once its application is in the journal,
\* by one task, once, although three tasks may retry it.
ReportsAreDurable ==
  \A t \in Tasks :
    /\ \A b \in reports[t] \cup reported : <<"application", b>> \in durable
    /\ reports[t] \cap reported = {}
    /\ \A u \in Tasks \ {t} : reports[t] \cap reports[u] = {}

\* While the runtime stays paused, a market that the pause has cancelled stays
\* empty: a batch prepared before the pause can not be applied after it.
PausedMarketsStayEmpty == paused => \A m \in swept : resting[m] = NoBatch

\* No step lets an order rest in a paused or killed runtime.
NoOrderWhenStopped ==
  [][\A m \in Markets : resting'[m] \notin {resting[m], NoBatch}
       => ~paused /\ ~killSwitch]_vars

\* What a batch did is in the journal or is retained until it is: the application
\* of an executed batch is not lost.
ApplicationIsKept ==
  \A b \in applied :
    \/ <<"application", b>> \in durable
    \/ b = pending
    \/ pc["evaluator"] = "journal" /\ b = prep.batch

\* Nothing waits for ever: when the recorder recovers, the retained application is
\* recorded, and a pause comes to its end, whatever the evaluator and the feed do.
NothingWaitsForEver ==
  /\ pending # NoBatch ~> pending = NoBatch
  /\ pc["control"] # "idle" ~> pc["control"] = "idle"

============================================================================
