-------------------------- MODULE PromotionLadder --------------------------
(* The funded promotion ladder (research/run_bundle.rs), its canonical       *)
(* manifest latest.json and everyone who moves it: the transition jobs       *)
(* (run_promotion_transition.sh), which publish by compare-and-swap          *)
(* (research.rs), and the stage controller, which authorizes a stage in the  *)
(* same blob (funded-ladder-controller.mjs).  Jobs overlap, are killed       *)
(* anywhere, and an answer of the store may be lost.                         *)
(*                                                                          *)
(* Abstracted: a manifest is its ladder state; a hash or an ETag is the      *)
(* manifest itself, which never comes back once it is replaced.  A gate that *)
(* is judged alike at every checkpoint is "gate"; the two judged differently *)
(* keep their names.  The evidence is the operator's: it is exact and may    *)
(* say anything the arithmetic allows.  The immutable copy of every result   *)
(* that a publication also archives is read by nobody here, and left out.    *)
EXTENDS Naturals, Sequences, FiniteSets

CONSTANTS
  Jobs,                   \* executions of the transition jobs and the controller
  CanaryIsBound,          \* whether the canary's summary names a consumption, without
                          \* which the controller publishes no checkpoint; it does not
  OlderProgressCounts     \* whether the progress of an earlier stage may name that
                          \* stage's target; the evaluator wants the active one

ASSUME LadderAssumption ==
  IsFiniteSet(Jobs) /\ CanaryIsBound \in BOOLEAN /\ OlderProgressCounts \in BOOLEAN

VARIABLES
  shadow,                 \* the research container's shadow manifest
  canonical,              \* the funded container's latest.json
  expired,                \* the campaign's sixty days are over
  granted,                \* manifests for whose state a human has signed a grant
  consumed,               \* stage-consumptions/: manifests whose grant is consumed
  block,                  \* the manifest the latest stage block binds
  checkpoint,             \* the manifest the latest checkpoint evidence binds
  jobs                    \* each execution: its step, the manifest it replaces
                          \* and the manifest it publishes

control == <<granted, consumed, block, checkpoint>>
vars == <<shadow, canonical, expired, control, jobs>>

FundedLadderTargets == <<1, 5, 25, 100, 200>>
Indices == 0..(Len(FundedLadderTargets) - 1)

Verdicts == {"none", "failed", "passed"}

\* Which gates fail: a positive lower bound implies a positive mean.
FailedGates == {{}, {"gate"}, {"lower95"}, {"mean", "lower95"}}

Manifests == [phase : {"absent", "evidence_collecting", "limited_live", "profitable_go", "stopped_no_go"},
              index : Indices, authorized : BOOLEAN, grants : 0..Len(FundedLadderTargets),
              queue : Verdicts, holdout : Verdicts, model : {"prior", "calibrated"}]

Absent == [phase |-> "absent", index |-> 0, authorized |-> FALSE, grants |-> 0,
           queue |-> "none", holdout |-> "none", model |-> "prior"]

Terminal(m) == m.phase \in {"profitable_go", "stopped_no_go"}
Active(m)   == m.phase \in {"evidence_collecting", "limited_live"}
Target(m)   == FundedLadderTargets[m.index + 1]

\* What the evidence of a checkpoint shows; late is sixty calendar days, holdout
\* what the orders 101 to 200 say of the frozen model.
Observations == [failed : FailedGates, late : BOOLEAN, holdout : {"failed", "passed"}]

-----------------------------------------------------------------------------
(* The transitions, as sets: the manifests a call may return, none if it     *)
(* fails.                                                                    *)

GrantCountValid(m) ==
  IF Terminal(m) THEN m.grants \in {m.index, m.index + 1}
                 ELSE m.grants = m.index + (IF m.authorized THEN 1 ELSE 0)

QueueTransitionValid(m) ==
  (m.queue # "none") <=> (m.index >= 4 \/ (Terminal(m) /\ Target(m) = 100))

ProfitableGoValid(m) ==
  m.phase = "profitable_go" =>
    /\ Target(m) = 200 /\ m.grants = Len(FundedLadderTargets) /\ ~m.authorized
    /\ m.queue = "passed" /\ m.holdout = "passed"

ActivePhaseValid(m) ==
  Terminal(m) \/ m.phase = (IF m.index = 0 THEN "evidence_collecting" ELSE "limited_live")

Valid(m) == /\ GrantCountValid(m) /\ QueueTransitionValid(m)
            /\ ProfitableGoValid(m) /\ ActivePhaseValid(m)

\* write_promotion_manifest refuses a manifest whose ladder is inconsistent.
Written(m) == {n \in {m} : Valid(n)}

StopTerminal(m) == [m EXCEPT !.phase = "stopped_no_go", !.authorized = FALSE]

GatesPass(m, failed) ==
  /\ "gate" \notin failed
  /\ (IF Target(m) < 25 THEN "mean" ELSE "lower95") \notin failed
  /\ Target(m) = 100 => m.queue = "passed"
  /\ Target(m) = 200 => m.holdout = "passed"

Evaluate(m, failed) ==
  IF ~GatesPass(m, failed) THEN StopTerminal(m)
  ELSE IF Target(m) = 200 THEN [m EXCEPT !.phase = "profitable_go", !.authorized = FALSE]
  ELSE [m EXCEPT !.index = @ + 1, !.phase = "limited_live", !.authorized = FALSE]

\* transition_with_evidence on evidence for exactly the active target.  The
\* calendar stop returns before the model and the holdout are recorded.
Transition(m, obs, queue) ==
  LET judged == [m EXCEPT !.queue   = IF Target(m) = 100 THEN queue ELSE @,
                          !.holdout = IF Target(m) = 200 THEN obs.holdout ELSE @]
  IN  IF ~Valid(m) \/ ~m.authorized THEN {}
      ELSE IF obs.late THEN {StopTerminal(m)}
      ELSE {n \in {Evaluate(judged, obs.failed)} : Valid(n)}

\* initialize_funded_manifest_after_canary: the canary is the order of stage 1.
Initialized(obs) ==
  LET start == [Absent EXCEPT !.phase = "evidence_collecting", !.authorized = TRUE, !.grants = 1]
  IN  UNION {Written(n) : n \in Transition(start, obs, "none")}

\* validated_metrics: the progress of the orders 2 to 5 names target 5, and so on.
ProgressFits(m) == Target(m) <= FundedLadderTargets[2] \/ OlderProgressCounts

\* advance_funded_manifest: a trained model exactly at checkpoint 100, which is
\* the one in use from there on.
Advanced(m, obs, queue) ==
  IF (Target(m) = 100) # (queue # "none") \/ ~ProgressFits(m) THEN {}
  ELSE UNION {Written(IF Target(m) = 100 /\ n.index > m.index THEN [n EXCEPT !.model = "calibrated"] ELSE n) :
                n \in Transition(m, obs, queue)}

\* stop_funded_manifest_from_stage_block.
BlockStopped(m) == IF m.phase = "limited_live" /\ m.authorized THEN Written(StopTerminal(m)) ELSE {}

\* expire_funded_manifest.
ExpiryStopped(m) == IF Active(m) /\ Valid(m) THEN Written(StopTerminal(m)) ELSE {}

\* mutant: the authorized manifest takes the one-use phase of the canary
AuthorizedCanary(m) == [m EXCEPT !.authorized = TRUE, !.grants = @ + 1, !.phase = "canary_ready"]

\* authorizeCanonicalManifest of the controller.
Authorized(m) == [m EXCEPT !.authorized = TRUE, !.grants = @ + 1]

-----------------------------------------------------------------------------
(* The shadow evaluation and the human.                                      *)

Init ==
  /\ shadow = "shadow_collecting"
  /\ canonical = Absent /\ expired = FALSE
  /\ granted = {} /\ consumed = {}
  /\ block = Absent /\ checkpoint = Absent
  /\ jobs = [j \in Jobs |-> [pc |-> "idle", prior |-> Absent, result |-> Absent]]

\* run_evaluate_profitability: stopped_no_go absorbs, anything else is judged
\* again on the current clean days.
EvaluateShadow ==
  /\ shadow # "stopped_no_go"
  /\ shadow' \in {"shadow_passed", "shadow_collecting", "stopped_no_go"}
  /\ UNCHANGED <<canonical, expired, control, jobs>>

CampaignExpires ==
  /\ Active(canonical) /\ ~expired /\ expired' = TRUE
  /\ UNCHANGED <<shadow, canonical, control, jobs>>

GrantStage ==
  /\ Active(canonical) /\ ~canonical.authorized
  /\ granted' = granted \cup {canonical}
  /\ UNCHANGED <<shadow, canonical, expired, consumed, block, checkpoint, jobs>>

-----------------------------------------------------------------------------
(* What the controller leaves behind while a stage is authorized.            *)

BlockStage ==
  /\ Active(canonical) /\ canonical.authorized
  /\ block' = canonical
  /\ UNCHANGED <<shadow, canonical, expired, granted, consumed, checkpoint, jobs>>

PublishStageCheckpoint ==
  /\ CanaryIsBound
  /\ Active(canonical) /\ canonical.authorized /\ ~expired
  /\ checkpoint' = canonical
  /\ UNCHANGED <<shadow, canonical, expired, granted, consumed, block, jobs>>

-----------------------------------------------------------------------------
(* The jobs: compute from an exact prior manifest, then publish.             *)

Begin(j, pc, prior, results) ==
  /\ jobs[j].pc = "idle"
  /\ \E m \in results : jobs' = [jobs EXCEPT ![j] = [pc |-> pc, prior |-> prior, result |-> m]]
  /\ UNCHANGED <<shadow, canonical, expired, control>>

InitializeFundedManifest(j) ==
  /\ shadow = "shadow_passed"
  /\ \E obs \in Observations : ~obs.late /\ Begin(j, "read", Absent, Initialized(obs))

AdvanceFundedManifest(j) ==
  /\ ~expired
  /\ \E obs \in Observations, queue \in Verdicts : Begin(j, "read", checkpoint, Advanced(checkpoint, obs, queue))

StopFromStageBlock(j) == ~expired /\ Begin(j, "read", block, BlockStopped(block))

ExpireFundedManifest(j) == expired /\ Begin(j, "read", canonical, ExpiryStopped(canonical))

\* mutant: the grant is consumed after the canonical manifest has moved
BeginStageFirst(j) ==
  /\ shadow = "shadow_passed" /\ ~expired
  /\ canonical \in granted /\ canonical.phase = "limited_live" /\ ~canonical.authorized
  /\ Begin(j, "swap", canonical, {Authorized(canonical)})

\* The controller's own checks, on the canonical manifest a grant names.
BeginStage(j) ==
  /\ shadow = "shadow_passed" /\ ~expired
  /\ canonical \in granted /\ canonical.phase = "limited_live" /\ ~canonical.authorized
  /\ Begin(j, "consume", canonical, {Authorized(canonical)})

Step(j, from, to) == jobs[j].pc = from /\ jobs' = [jobs EXCEPT ![j].pc = to]

Finish(j) == jobs' = [jobs EXCEPT ![j] = [pc |-> "idle", prior |-> Absent, result |-> Absent]]

ConsumeGrant(j) ==
  /\ Step(j, "consume", "swap")
  /\ consumed' = consumed \cup {jobs[j].prior}
  /\ UNCHANGED <<shadow, canonical, expired, granted, block, checkpoint>>

\* publish_promotion_transition_compare_and_swap_store: stale priors are refused.
ReadCanonical(j) ==
  /\ jobs[j].pc = "read"
  /\ IF canonical = jobs[j].prior THEN Step(j, "read", "swap") ELSE Finish(j)
  /\ UNCHANGED <<shadow, canonical, expired, control>>

\* mutant: the answer 412 is not asked for
Overwrite(j) ==
  /\ jobs[j].pc = "swap"
  /\ canonical' = jobs[j].result /\ Finish(j)
  /\ UNCHANGED <<shadow, expired, control>>

\* If-Match (If-None-Match for the first one).  A request that is lost, or whose
\* answer is, is sent again; a loser finds the winner and gives up.
CompareAndSwap(j) ==
  /\ jobs[j].pc = "swap"
  /\ IF canonical = jobs[j].prior
     THEN canonical' = jobs[j].result /\ (Finish(j) \/ UNCHANGED jobs)
     ELSE Finish(j) /\ UNCHANGED canonical
  /\ UNCHANGED <<shadow, expired, control>>

Crash(j) ==
  /\ jobs[j].pc # "idle"
  /\ Finish(j)
  /\ UNCHANGED <<shadow, canonical, expired, control>>

Next ==
  \/ EvaluateShadow \/ CampaignExpires \/ GrantStage
  \/ BlockStage \/ PublishStageCheckpoint
  \/ \E j \in Jobs :
        \/ InitializeFundedManifest(j) \/ AdvanceFundedManifest(j)
        \/ StopFromStageBlock(j) \/ ExpireFundedManifest(j) \/ BeginStage(j)
        \/ ReadCanonical(j) \/ ConsumeGrant(j)
        \/ CompareAndSwap(j) \/ Crash(j)

Spec == Init /\ [][Next]_vars

-----------------------------------------------------------------------------
(* Properties                                                                *)

\* Type invariant of the ladder, its store and the jobs.
TypeOK ==
  /\ shadow \in {"shadow_collecting", "shadow_passed", "stopped_no_go"}
  /\ canonical \in Manifests /\ expired \in BOOLEAN
  /\ granted \subseteq Manifests /\ consumed \subseteq Manifests
  /\ block \in Manifests /\ checkpoint \in Manifests
  /\ jobs \in [Jobs -> [pc : {"idle", "read", "consume", "swap"},
                        prior : Manifests, result : Manifests]]

\* The campaign the canonical manifest stands for.
Status == CASE canonical.phase = "absent"        -> "none"
            [] canonical.phase = "profitable_go" -> "go"
            [] canonical.phase = "stopped_no_go" -> "stopped"
            [] OTHER -> IF canonical.authorized THEN "spending" ELSE "waiting"

Campaign == INSTANCE FundedCampaign
              WITH Stages <- Len(FundedLadderTargets), status <- Status, stage <- canonical.index

\* The canonical manifest runs one campaign: started once, one checkpoint at a
\* time, each granted before it spends, and never moved after it has stopped,
\* however the jobs and the controller race for latest.json (research.rs
\* publish_promotion_transition_compare_and_swap_store, putCanonicalManifestIfMatch).
CampaignSpec == Campaign!Spec

\* A stage that may spend has its consumed grant, signed by a human for exactly the
\* state it was in (recoverStageInitialization relies on it); every stage past the
\* canary's consumed one of its own; and a campaign that is called profitable was
\* trained on at 100 and held out at 200.
SpendingIsGranted ==
  /\ canonical.authorized => \E m \in consumed \cap granted : canonical = Authorized(m)
  /\ canonical.grants <= 1 + Cardinality(consumed)
  /\ canonical.phase = "profitable_go" =>
        canonical.model = "calibrated" /\ canonical.holdout = "passed" /\ canonical.grants = 1 + Cardinality(consumed)
=============================================================================
