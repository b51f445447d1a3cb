----------------------- MODULE PromotionLadder_proofs -----------------------
(* Theorems of PromotionLadder, for any number of jobs: its types, what a    *)
(* stage may spend, and that it implements FundedCampaign.                   *)
(*                                                                          *)
(* The argument: whatever is computed from a manifest is one abstract step   *)
(* away from it (Follows), and a job publishes only over the manifest it     *)
(* computed from, so the canonical one takes abstract steps.  A grant names  *)
(* one manifest, there is one waiting manifest for every index, and it is    *)
(* consumed before its authorized successor is published: the consumed       *)
(* grants are as many as the stages past the canary's.                       *)
EXTENDS PromotionLadder, FiniteSetTheorems, TLAPS

Waiting(m)  == m.phase = "limited_live" /\ ~m.authorized
Spending(m) == m.phase = "limited_live" /\ m.authorized

\* A manifest that somebody has published or is about to: its grants are counted,
\* and the last stage runs on the model trained at checkpoint 100.
Sound(m) ==
  /\ m \in Manifests
  /\ m.authorized => m.phase = "limited_live"
  /\ m.index = 4 => m.model = "calibrated"
  /\ \/ m = Absent
     \/ m.phase = "limited_live" /\ m.index >= 1 /\ m.grants = m.index + (IF m.authorized THEN 1 ELSE 0)
     \/ m.phase = "stopped_no_go" /\ m.grants <= m.index + 1
     \/ m.phase = "profitable_go" /\ m.index = 4 /\ m.grants = 5 /\ m.holdout = "passed"

\* The steps of a campaign, on manifests.
Starts(m, n) ==
  /\ m = Absent /\ n.grants = 1 /\ ~n.authorized
  /\ \/ n.phase = "limited_live" /\ n.index = 1
     \/ n.phase = "stopped_no_go" /\ n.index = 0
Grants(m, n) == Waiting(m) /\ Spending(n) /\ n = Authorized(m) /\ n.index = m.index /\ n.grants = m.grants + 1
Passes(m, n) ==
  /\ Spending(m) /\ ~n.authorized /\ n.grants = m.grants
  /\ \/ n.phase = "limited_live" /\ n.index = m.index + 1
     \/ n.phase = "profitable_go" /\ m.index = 4 /\ n.index = 4
Stops(m, n) ==
  /\ m.phase = "limited_live"
  /\ n.phase = "stopped_no_go" /\ ~n.authorized /\ n.index = m.index /\ n.grants = m.grants
Follows(m, n) == Starts(m, n) \/ Grants(m, n) \/ Passes(m, n) \/ Stops(m, n)

\* What lies in the stores, and what the jobs carry.
StoreInv ==
  /\ Sound(canonical)
  /\ \A m \in {block, checkpoint} : Sound(m) /\ (m = Absent \/ Spending(m))
  /\ \A j \in Jobs : jobs[j].pc # "idle" =>
        Sound(jobs[j].prior) /\ Sound(jobs[j].result) /\ Follows(jobs[j].prior, jobs[j].result)

\* One manifest waits at every index, and it is the one that was granted.
GrantInv ==
  /\ consumed \subseteq granted
  /\ \A m \in granted : Sound(m) /\ Waiting(m) /\ m.index <= canonical.index
  /\ \A m, n \in granted : m.index = n.index => m = n
  /\ \A m \in granted : m.index = canonical.index =>
        /\ Waiting(canonical) => m = canonical
        /\ Spending(canonical) => canonical = Authorized(m)

\* A job that authorizes a stage carries its grant, consumed before it swaps.
ConsumptionInv ==
  \A j \in Jobs :
    /\ jobs[j].pc = "consume" => jobs[j].prior \in granted
    /\ jobs[j].pc # "idle" /\ jobs[j].result.authorized =>
          jobs[j].prior \in granted /\ jobs[j].pc \in {"consume", "swap"}
          /\ (jobs[j].pc = "swap" => jobs[j].prior \in consumed)

\* Every stage past the canary's has its consumed grant.
StageInv ==
  /\ canonical.authorized => \E m \in consumed : canonical = Authorized(m)
  /\ \A i \in 1..(canonical.grants - 1) : \E m \in consumed : m.index = i

IInv == TypeOK /\ StoreInv /\ GrantInv /\ ConsumptionInv /\ StageInv

-----------------------------------------------------------------------------

\* The targets of the ladder.
LEMMA Targets ==
  /\ Len(FundedLadderTargets) = 5 /\ Indices = 0..4
  /\ \A m \in Manifests : (Target(m) = 200 <=> m.index = 4) /\ (Target(m) = 100 <=> m.index = 3)
<1>1. Len(FundedLadderTargets) = 5
  BY DEF FundedLadderTargets
<1>2. Indices = 0..4
  BY <1>1 DEF Indices
<1>3. ASSUME NEW m \in Manifests
      PROVE  (Target(m) = 200 <=> m.index = 4) /\ (Target(m) = 100 <=> m.index = 3)
  <2>1. m.index \in 0..4
    BY <1>2 DEF Manifests
  <2> QED
    BY <2>1 DEF Target, FundedLadderTargets
<1> QED
  BY <1>1, <1>2, <1>3

\* The fields of a manifest.
LEMMA Fields ==
  ASSUME NEW m \in Manifests
  PROVE  /\ m.phase \in {"absent", "evidence_collecting", "limited_live", "profitable_go", "stopped_no_go"}
         /\ m.index \in 0..4 /\ m.authorized \in BOOLEAN /\ m.grants \in 0..5
         /\ m.queue \in Verdicts /\ m.holdout \in Verdicts /\ m.model \in {"prior", "calibrated"}
BY Targets DEF Manifests

\* The manifest of a campaign that has not begun.
LEMMA AbsentIsSound == Sound(Absent)
<1>1. 0 \in Indices /\ 0 \in 0..Len(FundedLadderTargets)
  BY Targets
<1>2. Absent \in Manifests
  BY <1>1 DEF Absent, Manifests, Verdicts
<1> QED
  BY <1>2 DEF Sound, Absent

\* A stop keeps the checkpoint and its grants.
LEMMA StopIsSound ==
  ASSUME NEW m \in Manifests, m.index = 4 => m.model = "calibrated", m.grants <= m.index + 1
  PROVE  /\ Sound(StopTerminal(m))
         /\ StopTerminal(m).phase = "stopped_no_go" /\ ~StopTerminal(m).authorized
         /\ StopTerminal(m).index = m.index /\ StopTerminal(m).grants = m.grants
<1>1. /\ StopTerminal(m).phase = "stopped_no_go" /\ ~StopTerminal(m).authorized
      /\ StopTerminal(m).index = m.index /\ StopTerminal(m).grants = m.grants
      /\ StopTerminal(m).model = m.model /\ StopTerminal(m) \in Manifests
  BY DEF StopTerminal, Manifests
<1> QED
  BY <1>1 DEF Sound

\* transition_with_evidence on an authorized manifest whose grants are counted.
LEMMA TransitionSteps ==
  ASSUME NEW m \in Manifests, NEW obs \in Observations, NEW queue \in Verdicts,
         m.authorized, m.grants = m.index + 1, m.index = 4 => m.model = "calibrated",
         NEW n \in Transition(m, obs, queue)
  PROVE  /\ n \in Manifests /\ ~n.authorized /\ n.grants = m.grants /\ n.model = m.model
         /\ \/ n.phase = "stopped_no_go" /\ n.index = m.index
            \/ n.phase = "limited_live" /\ n.index = m.index + 1
            \/ n.phase = "profitable_go" /\ m.index = 4 /\ n.index = 4 /\ n.holdout = "passed"
<1> DEFINE judged == [m EXCEPT !.queue   = IF Target(m) = 100 THEN queue ELSE @,
                               !.holdout = IF Target(m) = 200 THEN obs.holdout ELSE @]
<1>1. obs.holdout \in Verdicts
  BY DEF Observations, Verdicts
<1>2. /\ judged \in Manifests /\ judged.authorized = m.authorized /\ judged.grants = m.grants
      /\ judged.index = m.index /\ judged.model = m.model /\ judged.phase = m.phase
      /\ (Target(m) = 200 => judged.holdout = obs.holdout)
  BY <1>1 DEF Manifests
<1> HIDE DEF judged
<1>3. n = StopTerminal(m) \/ (n = Evaluate(judged, obs.failed) /\ Valid(n))
  BY DEF Transition, judged
<1>4. CASE n = StopTerminal(m)
  BY <1>4 DEF StopTerminal, Manifests
<1>5. CASE n = StopTerminal(judged)
  BY <1>2, <1>5 DEF StopTerminal, Manifests
<1>6. CASE n = [judged EXCEPT !.phase = "profitable_go", !.authorized = FALSE] /\ Target(judged) = 200 /\ Valid(n)
  <2>1. m.index = 4
    BY <1>2, <1>6, Targets
  <2>2. /\ n \in Manifests /\ ~n.authorized /\ n.grants = m.grants /\ n.model = m.model
        /\ n.phase = "profitable_go" /\ n.index = 4
    BY <1>2, <1>6, <2>1 DEF Manifests
  <2> QED
    BY <1>6, <2>1, <2>2 DEF Valid, ProfitableGoValid
<1>7. CASE n = [judged EXCEPT !.index = @ + 1, !.phase = "limited_live", !.authorized = FALSE] /\ Target(judged) # 200
  <2>1. m.index \in 0..3
    BY <1>2, <1>7, Targets, Fields
  <2>2. judged.index + 1 \in Indices
    BY <1>2, <2>1, Targets
  <2> QED
    BY <1>2, <1>7, <2>2 DEF Manifests
<1> QED
  BY <1>3, <1>4, <1>5, <1>6, <1>7 DEF Evaluate

\* initialize_funded_manifest_after_canary starts a campaign.
LEMMA InitializedStarts ==
  ASSUME NEW obs \in Observations, ~obs.late, NEW n \in Initialized(obs)
  PROVE  Sound(n) /\ Follows(Absent, n) /\ ~n.authorized
<1> DEFINE start == [Absent EXCEPT !.phase = "evidence_collecting", !.authorized = TRUE, !.grants = 1]
<1>1. /\ start \in Manifests /\ start.authorized /\ start.grants = 1 /\ start.index = 0
  <2>1. Absent \in Manifests /\ Absent.index = 0
    BY AbsentIsSound DEF Sound, Absent
  <2>2. 1 \in 0..Len(FundedLadderTargets)
    BY Targets
  <2> QED
    BY <2>1, <2>2 DEF Manifests
<1>2. n \in Transition(start, obs, "none")
  BY DEF Initialized, Written
<1> HIDE DEF start
<1>3. "none" \in Verdicts
  BY DEF Verdicts
<1>4. /\ n \in Manifests /\ ~n.authorized /\ n.grants = 1
      /\ \/ n.phase = "stopped_no_go" /\ n.index = 0
         \/ n.phase = "limited_live" /\ n.index = 1
  BY <1>1, <1>2, <1>3, TransitionSteps
<1> QED
  BY <1>4 DEF Sound, Follows, Starts

\* advance_funded_manifest passes or stops the stage it was computed from.
LEMMA AdvancedFollows ==
  ASSUME NEW m, Sound(m), m = Absent \/ Spending(m), NEW obs \in Observations, NEW queue \in Verdicts,
         NEW n \in Advanced(m, obs, queue)
  PROVE  Sound(n) /\ Follows(m, n) /\ ~n.authorized
<1> USE DEF Spending
<1>1. m \in Manifests
  BY DEF Sound
<1>2. PICK t \in Transition(m, obs, queue) :
        n = IF Target(m) = 100 /\ t.index > m.index THEN [t EXCEPT !.model = "calibrated"] ELSE t
  BY DEF Advanced, Written
<1>3. m.authorized
  BY <1>2 DEF Transition
<1>4. Spending(m) /\ m.grants = m.index + 1 /\ (m.index = 4 => m.model = "calibrated") /\ m.index >= 1
  BY <1>1, <1>3, Fields DEF Sound, Absent
<1>5. /\ t \in Manifests /\ ~t.authorized /\ t.grants = m.grants /\ t.model = m.model
      /\ \/ t.phase = "stopped_no_go" /\ t.index = m.index
         \/ t.phase = "limited_live" /\ t.index = m.index + 1
         \/ t.phase = "profitable_go" /\ m.index = 4 /\ t.index = 4 /\ t.holdout = "passed"
  BY <1>1, <1>3, <1>4, TransitionSteps
<1>6. /\ n \in Manifests /\ n.authorized = t.authorized /\ n.grants = t.grants /\ n.phase = t.phase
      /\ n.index = t.index /\ n.holdout = t.holdout
      /\ n.model = (IF Target(m) = 100 /\ t.index > m.index THEN "calibrated" ELSE t.model)
  BY <1>2, <1>5 DEF Manifests
<1>7. m.index \in 0..4 /\ (Target(m) = 100 <=> m.index = 3)
  BY <1>1, Fields, Targets
<1>8. n.index = 4 => n.model = "calibrated"
  BY <1>4, <1>5, <1>6, <1>7
<1>9. Sound(n)
  BY <1>4, <1>5, <1>6, <1>7, <1>8 DEF Sound
<1>10. Follows(m, n)
  BY <1>4, <1>5, <1>6 DEF Follows, Passes, Stops
<1> QED
  BY <1>5, <1>6, <1>9, <1>10

\* A stage block and an expiry stop the campaign they bind.
LEMMA StoppedFollows ==
  ASSUME NEW m, Sound(m), NEW n \in BlockStopped(m) \cup ExpiryStopped(m)
  PROVE  Sound(n) /\ Follows(m, n) /\ ~n.authorized
<1>1. n = StopTerminal(m) /\ (m.phase = "limited_live" \/ Active(m))
  BY DEF BlockStopped, ExpiryStopped, Written
<1>2. m \in Manifests /\ m.phase = "limited_live" /\ m.grants <= m.index + 1 /\ (m.index = 4 => m.model = "calibrated")
  BY <1>1, Fields DEF Sound, Active, Absent
<1> QED
  BY <1>1, <1>2, StopIsSound DEF Follows, Stops

\* The controller authorizes the stage that waits.
LEMMA AuthorizedFollows ==
  ASSUME NEW m, Sound(m), Waiting(m)
  PROVE  Sound(Authorized(m)) /\ Follows(m, Authorized(m)) /\ Authorized(m).authorized
<1> USE DEF Waiting
<1>1. m \in Manifests /\ m.index \in 1..4 /\ m.grants = m.index /\ (m.index = 4 => m.model = "calibrated")
  BY Fields DEF Sound, Absent
<1>2. /\ Authorized(m) \in Manifests /\ Authorized(m).authorized /\ Authorized(m).grants = m.grants + 1
      /\ Authorized(m).phase = m.phase /\ Authorized(m).index = m.index /\ Authorized(m).model = m.model
  <2>1. m.grants + 1 \in 0..Len(FundedLadderTargets)
    BY <1>1, Targets
  <2> QED
    BY <1>1, <2>1 DEF Authorized, Manifests
<1> QED
  BY <1>1, <1>2 DEF Sound, Follows, Grants, Spending

-----------------------------------------------------------------------------
(* The steps of the system, as the invariants see them.                      *)

\* Nothing that the invariants are about moves.
Quiet == UNCHANGED <<canonical, control, jobs>>

\* A job takes up a sound result of a sound prior.
Begins(j) ==
  /\ jobs[j].pc = "idle" /\ UNCHANGED <<canonical, control>>
  /\ \E pc \in {"read", "consume"}, prior \in Manifests, result \in Manifests :
        /\ jobs' = [jobs EXCEPT ![j] = [pc |-> pc, prior |-> prior, result |-> result]]
        /\ Sound(prior) /\ Sound(result) /\ Follows(prior, result)
        /\ IF pc = "consume" THEN prior \in granted ELSE ~result.authorized

\* A job leaves, or goes on to publish what is not an authorization.
Ends(j) == Finish(j) /\ UNCHANGED <<canonical, control>>
Reads(j) == Step(j, "read", "swap") /\ UNCHANGED <<canonical, control>>

\* A job publishes over the manifest it was computed from.
Swaps(j) ==
  /\ jobs[j].pc = "swap" /\ canonical = jobs[j].prior /\ canonical' = jobs[j].result
  /\ Finish(j) \/ UNCHANGED jobs
  /\ UNCHANGED control

\* Every step is one of these.
LEMMA StepKinds ==
  ASSUME IInv, [Next]_vars
  PROVE  \/ Quiet \/ GrantStage \/ BlockStage \/ PublishStageCheckpoint
         \/ \E j \in Jobs : Begins(j) \/ Ends(j) \/ Reads(j) \/ ConsumeGrant(j) \/ Swaps(j)
<1> USE DEF IInv, control
<1>1. ASSUME NEW j \in Jobs, NEW pc \in {"read", "consume"}, NEW prior, NEW results,
             Begin(j, pc, prior, results), Sound(prior), pc = "consume" => prior \in granted,
             \A n \in results : Sound(n) /\ Follows(prior, n) /\ (pc = "read" => ~n.authorized)
      PROVE  Begins(j)
  BY <1>1 DEF Begin, Begins, Sound
<1>2. ASSUME NEW j \in Jobs, InitializeFundedManifest(j)
      PROVE  Begins(j)
  <2>1. PICK obs \in Observations : ~obs.late /\ Begin(j, "read", Absent, Initialized(obs))
    BY <1>2 DEF InitializeFundedManifest
  <2> QED
    BY <1>1, <2>1, AbsentIsSound, InitializedStarts
<1>3. ASSUME NEW j \in Jobs, AdvanceFundedManifest(j)
      PROVE  Begins(j)
  <2>1. PICK obs \in Observations, queue \in Verdicts : Begin(j, "read", checkpoint, Advanced(checkpoint, obs, queue))
    BY <1>3 DEF AdvanceFundedManifest
  <2>2. Sound(checkpoint) /\ (checkpoint = Absent \/ Spending(checkpoint))
    BY DEF StoreInv
  <2> QED
    BY <1>1, <2>1, <2>2, AdvancedFollows
<1>4. ASSUME NEW j \in Jobs, StopFromStageBlock(j)
      PROVE  Begins(j)
  <2>1. Begin(j, "read", block, BlockStopped(block)) /\ Sound(block)
    BY <1>4 DEF StopFromStageBlock, StoreInv
  <2> QED
    BY <1>1, <2>1, StoppedFollows
<1>5. ASSUME NEW j \in Jobs, ExpireFundedManifest(j)
      PROVE  Begins(j)
  <2>1. Begin(j, "read", canonical, ExpiryStopped(canonical)) /\ Sound(canonical)
    BY <1>5 DEF ExpireFundedManifest, StoreInv
  <2> QED
    BY <1>1, <2>1, StoppedFollows
<1>6. ASSUME NEW j \in Jobs, BeginStage(j)
      PROVE  Begins(j)
  <2>1. /\ Begin(j, "consume", canonical, {Authorized(canonical)})
        /\ Sound(canonical) /\ Waiting(canonical) /\ canonical \in granted
    BY <1>6 DEF BeginStage, StoreInv, Waiting
  <2> QED
    BY <1>1, <2>1, AuthorizedFollows
<1>7. ASSUME NEW j \in Jobs, ReadCanonical(j)
      PROVE  Reads(j) \/ Ends(j)
  BY <1>7 DEF ReadCanonical, Reads, Ends
<1>8. ASSUME NEW j \in Jobs, CompareAndSwap(j)
      PROVE  Swaps(j) \/ Ends(j)
  BY <1>8 DEF CompareAndSwap, Swaps, Ends
<1>9. ASSUME NEW j \in Jobs, Crash(j)
      PROVE  Ends(j)
  BY <1>9 DEF Crash, Ends
<1>10. CASE EvaluateShadow \/ CampaignExpires \/ UNCHANGED vars
  BY <1>10 DEF EvaluateShadow, CampaignExpires, vars, Quiet
<1> QED
  BY <1>2, <1>3, <1>4, <1>5, <1>6, <1>7, <1>8, <1>9, <1>10 DEF Next

\* Every step keeps the types.
LEMMA TypeNext ==
  ASSUME IInv, [Next]_vars
  PROVE  TypeOK'
<1> USE DEF IInv, TypeOK, control
<1>1. shadow' \in {"shadow_collecting", "shadow_passed", "stopped_no_go"} /\ expired' \in BOOLEAN
  BY DEF Next, vars, EvaluateShadow, CampaignExpires, GrantStage, BlockStage, PublishStageCheckpoint,
         InitializeFundedManifest, AdvanceFundedManifest, StopFromStageBlock, ExpireFundedManifest, BeginStage,
         Begin, ReadCanonical, ConsumeGrant, CompareAndSwap, Crash
<1>2. Absent \in Manifests
  BY AbsentIsSound DEF Sound
<1>3. CASE Quiet
  BY <1>1, <1>3 DEF Quiet
<1>4. CASE GrantStage \/ BlockStage \/ PublishStageCheckpoint
  BY <1>1, <1>4 DEF GrantStage, BlockStage, PublishStageCheckpoint
<1>5. ASSUME NEW j \in Jobs, Begins(j)
      PROVE  TypeOK'
  BY <1>1, <1>5 DEF Begins
<1>6. ASSUME NEW j \in Jobs, Finish(j)
      PROVE  jobs' \in [Jobs -> [pc : {"idle", "read", "consume", "swap"}, prior : Manifests, result : Manifests]]
  BY <1>2, <1>6 DEF Finish
<1>7. ASSUME NEW j \in Jobs, jobs' = [jobs EXCEPT ![j].pc = "swap"]
      PROVE  jobs' \in [Jobs -> [pc : {"idle", "read", "consume", "swap"}, prior : Manifests, result : Manifests]]
  BY <1>7
<1>8. ASSUME NEW j \in Jobs, Ends(j)
      PROVE  TypeOK'
  BY <1>1, <1>6, <1>8 DEF Ends
<1>9. ASSUME NEW j \in Jobs, Reads(j)
      PROVE  TypeOK'
  BY <1>1, <1>7, <1>9 DEF Reads, Step
<1>10. ASSUME NEW j \in Jobs, ConsumeGrant(j)
      PROVE  TypeOK'
  BY <1>1, <1>7, <1>10 DEF ConsumeGrant, Step
<1>11. ASSUME NEW j \in Jobs, Swaps(j)
      PROVE  TypeOK'
  BY <1>1, <1>6, <1>11 DEF Swaps
<1> QED
  BY <1>3, <1>4, <1>5, <1>8, <1>9, <1>10, <1>11, StepKinds

\* What the stores hold and the jobs carry stays sound.
LEMMA StoreNext ==
  ASSUME IInv, [Next]_vars
  PROVE  StoreInv'
<1> USE DEF IInv, TypeOK, StoreInv, control
<1>1. CASE Quiet
  BY <1>1 DEF Quiet
<1>2. CASE GrantStage
  BY <1>2 DEF GrantStage
<1>3. CASE BlockStage \/ PublishStageCheckpoint
  <2>1. Sound(canonical) /\ Spending(canonical)
    BY <1>3 DEF BlockStage, PublishStageCheckpoint, Sound, Spending
  <2> QED
    BY <1>3, <2>1 DEF BlockStage, PublishStageCheckpoint
<1>4. ASSUME NEW j \in Jobs, Begins(j)
      PROVE  StoreInv'
  BY <1>4 DEF Begins
<1>5. ASSUME NEW j \in Jobs, Ends(j)
      PROVE  StoreInv'
  BY <1>5 DEF Ends, Finish
<1>6. ASSUME NEW j \in Jobs, Reads(j)
      PROVE  StoreInv'
  BY <1>6 DEF Reads, Step
<1>7. ASSUME NEW j \in Jobs, ConsumeGrant(j)
      PROVE  StoreInv'
  BY <1>7 DEF ConsumeGrant, Step
<1>8. ASSUME NEW j \in Jobs, Swaps(j)
      PROVE  StoreInv'
  BY <1>8 DEF Swaps, Finish
<1> QED
  BY <1>1, <1>2, <1>3, <1>4, <1>5, <1>6, <1>7, <1>8, StepKinds

\* A grant goes on naming the one manifest that waited at its index.
LEMMA GrantNext ==
  ASSUME IInv, [Next]_vars
  PROVE  GrantInv'
<1> USE DEF IInv, TypeOK, GrantInv, control
<1>1. CASE Quiet
  BY <1>1 DEF Quiet
<1>2. CASE GrantStage
  <2>1. Sound(canonical) /\ Waiting(canonical)
    BY <1>2 DEF GrantStage, StoreInv, Sound, Waiting, Active, Absent
  <2>2. granted' = granted \cup {canonical} /\ UNCHANGED <<canonical, consumed>>
    BY <1>2 DEF GrantStage
  <2>3. canonical.index \in 0..4
    BY Fields
  <2> QED
    BY <2>1, <2>2, <2>3 DEF Waiting, Spending
<1>3. CASE BlockStage \/ PublishStageCheckpoint
  BY <1>3 DEF BlockStage, PublishStageCheckpoint
<1>4. ASSUME NEW j \in Jobs, Begins(j) \/ Ends(j) \/ Reads(j)
      PROVE  GrantInv'
  BY <1>4 DEF Begins, Ends, Reads
<1>5. ASSUME NEW j \in Jobs, ConsumeGrant(j)
      PROVE  GrantInv'
  <2>1. jobs[j].prior \in granted
    BY <1>5 DEF ConsumeGrant, Step, ConsumptionInv
  <2> QED
    BY <1>5, <2>1 DEF ConsumeGrant
<1>6. ASSUME NEW j \in Jobs, Swaps(j)
      PROVE  GrantInv'
  <2>1. UNCHANGED <<granted, consumed>> /\ Follows(canonical, canonical') /\ Sound(canonical) /\ Sound(canonical')
    BY <1>6 DEF Swaps, StoreInv
  <2>2. \A m \in granted : m.index \in 1..4
    BY Fields DEF Sound, Waiting, Absent
  <2>3. canonical.index \in 0..4 /\ canonical'.index \in 0..4
    BY <2>1, Fields DEF Sound
  <2>4. CASE Starts(canonical, canonical')
    <3>1. canonical.index = 0
      BY <2>4 DEF Starts, Absent
    <3>2. granted = {}
      BY <2>2, <3>1
    <3> QED
      BY <2>1, <3>2
  <2>5. CASE Grants(canonical, canonical')
    BY <2>1, <2>5 DEF Grants, Waiting, Spending
  <2>6. CASE Passes(canonical, canonical')
    BY <2>1, <2>2, <2>3, <2>6 DEF Passes, Waiting, Spending
  <2>7. CASE Stops(canonical, canonical')
    BY <2>1, <2>7 DEF Stops, Waiting, Spending
  <2> QED
    BY <2>1, <2>4, <2>5, <2>6, <2>7 DEF Follows
<1> QED
  BY <1>1, <1>2, <1>3, <1>4, <1>5, <1>6, StepKinds

\* A stage is authorized by a job whose grant is consumed.
LEMMA ConsumptionNext ==
  ASSUME IInv, [Next]_vars
  PROVE  ConsumptionInv'
<1> USE DEF IInv, TypeOK, ConsumptionInv, control
<1>1. CASE Quiet
  BY <1>1 DEF Quiet
<1>2. CASE GrantStage
  BY <1>2 DEF GrantStage
<1>3. CASE BlockStage \/ PublishStageCheckpoint
  BY <1>3 DEF BlockStage, PublishStageCheckpoint
<1>4. ASSUME NEW j \in Jobs, Begins(j)
      PROVE  ConsumptionInv'
  BY <1>4 DEF Begins
<1>5. ASSUME NEW j \in Jobs, Ends(j)
      PROVE  ConsumptionInv'
  BY <1>5 DEF Ends, Finish
<1>6. ASSUME NEW j \in Jobs, Reads(j)
      PROVE  ConsumptionInv'
  BY <1>6 DEF Reads, Step
<1>7. ASSUME NEW j \in Jobs, ConsumeGrant(j)
      PROVE  ConsumptionInv'
  BY <1>7 DEF ConsumeGrant, Step
<1>8. ASSUME NEW j \in Jobs, Swaps(j)
      PROVE  ConsumptionInv'
  BY <1>8 DEF Swaps, Finish
<1> QED
  BY <1>1, <1>2, <1>3, <1>4, <1>5, <1>6, <1>7, <1>8, StepKinds

\* Stages go on having their consumed grants.
LEMMA StageNext ==
  ASSUME IInv, [Next]_vars
  PROVE  StageInv'
<1> USE DEF IInv, TypeOK, StageInv, control
<1>1. CASE Quiet
  BY <1>1 DEF Quiet
<1>2. CASE GrantStage \/ BlockStage \/ PublishStageCheckpoint
  BY <1>2 DEF GrantStage, BlockStage, PublishStageCheckpoint
<1>3. ASSUME NEW j \in Jobs, Begins(j) \/ Ends(j) \/ Reads(j)
      PROVE  StageInv'
  BY <1>3 DEF Begins, Ends, Reads
<1>4. ASSUME NEW j \in Jobs, ConsumeGrant(j)
      PROVE  StageInv'
  BY <1>4 DEF ConsumeGrant
<1>5. ASSUME NEW j \in Jobs, Swaps(j)
      PROVE  StageInv'
  <2>1. /\ UNCHANGED consumed /\ Follows(canonical, canonical') /\ Sound(canonical) /\ Sound(canonical')
        /\ canonical'.authorized => canonical \in consumed
    BY <1>5 DEF Swaps, StoreInv, ConsumptionInv
  <2>2. canonical.index \in 0..4 /\ canonical.grants \in 0..5
    BY Fields
  <2>3. CASE Starts(canonical, canonical')
    BY <2>1, <2>3 DEF Starts
  <2>4. CASE Grants(canonical, canonical')
    <3>1. canonical.grants = canonical.index /\ canonical'.grants - 1 = canonical.index /\ canonical.index >= 1
      BY <2>1, <2>2, <2>4 DEF Grants, Waiting, Sound, Absent
    <3>2. ASSUME NEW i \in 1..(canonical'.grants - 1)
          PROVE  \E m \in consumed : m.index = i
      <4>1. i = canonical.index \/ i \in 1..(canonical.grants - 1)
        BY <2>2, <3>1
      <4> QED
        BY <2>1, <2>4, <4>1 DEF Grants, Spending
    <3> QED
      BY <2>1, <2>4, <3>2 DEF Grants, Spending
  <2>5. CASE Passes(canonical, canonical')
    BY <2>1, <2>5 DEF Passes
  <2>6. CASE Stops(canonical, canonical')
    BY <2>1, <2>6 DEF Stops
  <2> QED
    BY <2>1, <2>3, <2>4, <2>5, <2>6 DEF Follows
<1> QED
  BY <1>1, <1>2, <1>3, <1>4, <1>5, StepKinds

-----------------------------------------------------------------------------

\* The initial state satisfies the invariant.
LEMMA InitIInv == Init => IInv
<1> SUFFICES ASSUME Init PROVE IInv
  OBVIOUS
<1> USE AbsentIsSound DEF Init
<1>1. TypeOK
  BY DEF TypeOK, Sound
<1>2. StoreInv
  BY DEF StoreInv
<1>3. GrantInv /\ ConsumptionInv
  BY DEF GrantInv, ConsumptionInv
<1>4. StageInv
  BY DEF StageInv, Absent
<1> QED
  BY <1>1, <1>2, <1>3, <1>4 DEF IInv

\* The strengthened invariant holds in every reachable state.
THEOREM Invariance == Spec => []IInv
<1>1. IInv /\ [Next]_vars => IInv'
  BY TypeNext, StoreNext, GrantNext, ConsumptionNext, StageNext DEF IInv
<1> QED
  BY InitIInv, <1>1, PTL DEF Spec

\* Every step keeps the types, for any number of jobs.
THEOREM TypeCorrect == Spec => []TypeOK
BY Invariance, PTL DEF IInv

\* As many grants are consumed as there are stages past the canary's.
LEMMA GrantsAreCounted ==
  ASSUME IInv
  PROVE  /\ canonical.grants <= 1 + Cardinality(consumed)
         /\ canonical.phase = "profitable_go" => canonical.grants = 1 + Cardinality(consumed)
<1> USE DEF IInv, TypeOK
<1>1. \A m \in consumed : m \in Manifests /\ m.index \in 1..4
  BY Fields DEF GrantInv, Sound, Waiting, Absent
<1>2. \A m, n \in consumed : m.index = n.index => m = n
  BY DEF GrantInv
<1>3. IsFiniteSet(consumed) /\ Cardinality(consumed) <= 4 /\ Cardinality(consumed) \in Nat
  <2>1. ASSUME NEW last \in Nat, last = 4
        PROVE  IsFiniteSet(consumed) /\ Cardinality(consumed) <= last
    <3>1. [m \in consumed |-> m.index] \in Injection(consumed, 1..last)
      BY <1>1, <1>2, <2>1 DEF Injection, IsInjective
    <3>2. IsFiniteSet(1..last) /\ Cardinality(1..last) = last
      BY FS_Interval
    <3> QED
      BY <3>1, <3>2, FS_Injection
  <2> QED
    BY <2>1, FS_CardinalityType
<1>4. canonical.grants \in 0..5
  BY Fields
<1>5. CASE canonical.grants = 0
  BY <1>3, <1>5 DEF StoreInv, Sound, Absent
<1>6. CASE canonical.grants >= 1
  <2> DEFINE passed == 1..(canonical.grants - 1)
             grant(i) == CHOOSE m \in consumed : m.index = i
  <2>1. \A i \in passed : grant(i) \in consumed /\ grant(i).index = i
    BY DEF StageInv
  <2>2. [i \in passed |-> grant(i)] \in Injection(passed, consumed)
    BY <2>1 DEF Injection, IsInjective
  <2>3. Cardinality(passed) = canonical.grants - 1
    BY <1>4, <1>6, FS_Interval
  <2>4. Cardinality(passed) <= Cardinality(consumed)
    BY <1>3, <2>2, FS_Injection
  <2>5. canonical.phase = "profitable_go" => canonical.grants = 5
    BY DEF StoreInv, Sound, Absent
  <2> QED
    BY <1>3, <1>4, <2>3, <2>4, <2>5
<1> QED
  BY <1>4, <1>5, <1>6

\* A stage that may spend has its consumed grant, and a campaign called profitable
\* has one for every stage (buildStageConsumption, putCanonicalManifestIfMatch).
THEOREM GrantedBeforeSpent == Spec => []SpendingIsGranted
<1>1. IInv => SpendingIsGranted
  <2> SUFFICES ASSUME IInv PROVE SpendingIsGranted
    OBVIOUS
  <2>1. canonical.authorized => \E m \in consumed \cap granted : canonical = Authorized(m)
    BY DEF IInv, StageInv, GrantInv
  <2>2. canonical.phase = "profitable_go" => canonical.model = "calibrated" /\ canonical.holdout = "passed"
    BY DEF IInv, StoreInv, Sound, Absent
  <2> QED
    BY <2>1, <2>2, GrantsAreCounted DEF SpendingIsGranted
<1> QED
  BY <1>1, Invariance, PTL

\* However the jobs and the controller race for latest.json, it runs one campaign
\* (publish_promotion_transition_compare_and_swap_store, putCanonicalManifestIfMatch).
THEOREM ImplementsCampaign == Spec => CampaignSpec
<1> USE DEF Status
<1>1. Init => Campaign!Init
  BY DEF Init, Campaign!Init, Absent
<1>2. IInv /\ [Next]_vars => [Campaign!Next]_<<Status, canonical.index>>
  <2> SUFFICES ASSUME IInv, [Next]_vars
               PROVE  Campaign!Next \/ UNCHANGED <<Status, canonical.index>>
    BY DEF Status
  <2>1. canonical' = canonical \/ Follows(canonical, canonical')
    BY StepKinds DEF Quiet, GrantStage, BlockStage, PublishStageCheckpoint, Begins, Ends, Reads, ConsumeGrant,
                     Swaps, IInv, StoreInv
  <2>2. canonical \in Manifests /\ canonical.index \in 0..4 /\ Len(FundedLadderTargets) = 5
    BY Fields, Targets DEF IInv, TypeOK
  <2>3. CASE canonical' = canonical
    BY <2>3
  <2>4. CASE Starts(canonical, canonical')
    BY <2>4 DEF Starts, Absent, Campaign!Next, Campaign!Start
  <2>5. CASE Grants(canonical, canonical')
    BY <2>5 DEF Grants, Waiting, Spending, Campaign!Next, Campaign!Grant
  <2>6. CASE Passes(canonical, canonical')
    <3>1. canonical'.index \in 0..4
      BY TypeNext, Fields DEF TypeOK
    <3> QED
      BY <2>2, <2>6, <3>1 DEF Passes, Spending, Campaign!Next, Campaign!Pass
  <2>7. CASE Stops(canonical, canonical')
    BY <2>7 DEF Stops, Campaign!Next, Campaign!Stop
  <2> QED
    BY <2>1, <2>3, <2>4, <2>5, <2>6, <2>7 DEF Follows
<1> QED
  BY <1>1, <1>2, Invariance, PTL DEF Spec, CampaignSpec, Campaign!Spec
=============================================================================
