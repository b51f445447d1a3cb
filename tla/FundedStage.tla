---------------------------- MODULE FundedStage ----------------------------
(* One funded stage as its controller drives it                              *)
(* (venue-probe/src/funded-ladder-controller.mjs and -lib.mjs): the          *)
(* authorization of the stage, one child per order, the progress chain, the  *)
(* terminal evidence that arrives later, the stage block and the checkpoint. *)
(* The job is started by hand, does one thing and ends; it may be killed     *)
(* anywhere, and nothing keeps two executions from overlapping.              *)
(*                                                                          *)
(* Abstracted: a decision, its intent, its authorization and its child run   *)
(* are one model value; a document is its presence, and the cumulative hash  *)
(* of a progress document is the sequence of the decisions it chains (their  *)
(* number is its sequence minus one, the canary's order being the first).    *)
(* Documents that carry the time they were written never compare equal.      *)
EXTENDS Naturals, Sequences, FiniteSets

CONSTANTS
  Controllers,            \* executions of the controller job
  Decisions,              \* qualified intents of the strategy
  Nobody,
  Quota,                  \* orders of the stage: target minus orders so far
  CanaryIsBound,          \* whether the canary's summary names a funded-stage
                          \* consumption; canary.mjs writes null
  StoreMayFail            \* whether a request to the store may end with an error,
                          \* one that was carried out included

ASSUME StageAssumption ==
  /\ IsFiniteSet(Controllers) /\ IsFiniteSet(Decisions) /\ Nobody \notin Decisions
  /\ Quota \in Nat \ {0} /\ CanaryIsBound \in BOOLEAN /\ StoreMayFail \in BOOLEAN

VARIABLES
  canonical,              \* latest.json: awaits the grant, is authorized, has moved on
  consumed,               \* stage-consumptions/ and stage-manifests/ of the grant
  authorizations,         \* intent-authorizations/, named by decision
  spent,                  \* decisions whose order a child has sent
  filled,                 \* decisions whose summary shows a fill
  terminal,               \* decisions with terminal risk/portfolio evidence
  pending,                \* pending-terminal/
  progress,               \* progress/: the chain a decision's document closes
  states,                 \* funded-state/: lengths of chain already recorded
  blocks,                 \* stage-blocks/
  checkpoints,            \* checkpoints/: the chains they are built from
  run,                    \* each execution: its step, what it listed, its order
  overlapped              \* two executions have been under way together

children == <<spent, filled, terminal>>
evidence == <<pending, progress, states, blocks, checkpoints>>
vars == <<canonical, consumed, authorizations, children, evidence, run, overlapped>>

Steps == {"idle", "consume", "authorize_stage", "block_check", "list", "decide", "settle", "order",
          "child", "sent", "located", "chain", "progress", "state", "checkpoint", "block"}

Listings == {"authorizations", "completed", "pending"}

\* guarded: the step runs in the try whose catch blocks the stage.
Idle == [pc |-> "idle", listed |-> {}, attempted |-> {}, completed |-> {}, waiting |-> {},
         decision |-> Nobody, chain |-> <<>>, guarded |-> FALSE]

Init ==
  /\ canonical = "waiting" /\ consumed = FALSE /\ authorizations = {}
  /\ spent = {} /\ filled = {} /\ terminal = {}
  /\ pending = {} /\ progress = [d \in Decisions |-> <<>>] /\ states = {} /\ blocks = {} /\ checkpoints = {}
  /\ run = [c \in Controllers |-> Idle] /\ overlapped = FALSE

Completed == {d \in Decisions : progress[d] # <<>>}

At(c, pc)   == run[c].pc = pc
Goto(c, pc) == run' = [run EXCEPT ![c].pc = pc]
End(c)      == run' = [run EXCEPT ![c] = Idle]

\* An error ends the execution; after the child has ended it first blocks the stage.
Fail(c) == IF run[c].guarded THEN Goto(c, "block") ELSE End(c)

\* The last write of an execution is done, and its answer may be lost.
Finish(c) == End(c) \/ (StoreMayFail /\ Fail(c))

-----------------------------------------------------------------------------
(* Start of an execution, with the grant or with the consumption.            *)

Start(c) ==
  /\ At(c, "idle")
  /\ \/ canonical = "waiting" /\ Goto(c, "consume")
     \/ canonical = "authorized" /\ consumed /\ Goto(c, "block_check")
  /\ overlapped' = (overlapped \/ \E o \in Controllers \ {c} : run[o].pc # "idle")
  /\ UNCHANGED <<canonical, consumed, authorizations, children, evidence>>

\* The artifacts of the initiation do not depend on who writes them.
ConsumeGrant(c) ==
  /\ At(c, "consume") /\ Goto(c, "authorize_stage")
  /\ consumed' = TRUE
  /\ UNCHANGED <<canonical, authorizations, children, evidence, overlapped>>

\* putCanonicalManifestIfMatch: a loser goes on only with the same manifest.
AuthorizeStage(c) ==
  /\ At(c, "authorize_stage")
  /\ canonical' = IF canonical = "waiting" THEN "authorized" ELSE canonical
  /\ IF canonical' = "authorized" THEN Goto(c, "block_check") ELSE End(c)
  /\ UNCHANGED <<consumed, authorizations, children, evidence, overlapped>>

\* A transition job stops or expires the campaign.
MoveCanonical ==
  /\ canonical # "moved" /\ canonical' = "moved"
  /\ UNCHANGED <<consumed, authorizations, children, evidence, run, overlapped>>

AssertNoStageBlock(c) ==
  /\ At(c, "block_check")
  /\ IF blocks = {} THEN Goto(c, "list") ELSE End(c)
  /\ UNCHANGED <<canonical, consumed, authorizations, children, evidence, overlapped>>

\* The three listings run at the same time and end in any order.
ListStage(c, what) ==
  /\ At(c, "list") /\ what \notin run[c].listed
  /\ run' = [run EXCEPT
       ![c].listed    = @ \cup {what},
       ![c].attempted = IF what = "authorizations" THEN authorizations ELSE @,
       ![c].completed = IF what = "completed" THEN Completed ELSE @,
       ![c].waiting   = IF what = "pending" THEN pending ELSE @,
       ![c].pc        = IF run[c].listed \cup {what} = Listings THEN "decide" ELSE @]
  /\ UNCHANGED <<canonical, consumed, authorizations, children, evidence, overlapped>>

Orphans(c) == run[c].attempted \ (run[c].completed \cup run[c].waiting)

\* mutant: a full stage is not noticed
ProceedPastQuota(c) ==
  \/ \E d \in run[c].waiting \ run[c].completed : run' = [run EXCEPT ![c].pc = "settle", ![c].decision = d]
  \/ /\ run[c].waiting \subseteq run[c].completed
     /\ IF Cardinality(run[c].completed) > Quota THEN End(c) ELSE Goto(c, "order")

\* A pending order is settled first, a full stage is published again, otherwise
\* the next order may be placed.
Proceed(c) ==
  \/ \E d \in run[c].waiting \ run[c].completed : run' = [run EXCEPT ![c].pc = "settle", ![c].decision = d]
  \/ /\ run[c].waiting \subseteq run[c].completed
     /\ CASE Cardinality(run[c].completed) > Quota  -> End(c)
          [] Cardinality(run[c].completed) = Quota  -> Goto(c, "checkpoint")
          [] Cardinality(run[c].attempted) >= Quota -> End(c)
          [] OTHER                                  -> Goto(c, "order")

\* mutant: an authorization without evidence is left to the next execution
DecideOnEvidence(c) ==
  /\ At(c, "decide") /\ Proceed(c)
  /\ UNCHANGED <<canonical, consumed, authorizations, children, evidence, overlapped>>

Decide(c) ==
  /\ At(c, "decide")
  /\ IF Orphans(c) = {} THEN Proceed(c)
     ELSE \E d \in Orphans(c) : run' = [run EXCEPT ![c].pc = "block", ![c].decision = d]
  /\ UNCHANGED <<canonical, consumed, authorizations, children, evidence, overlapped>>

-----------------------------------------------------------------------------
(* One order.                                                                *)

\* firstFreshIntent, copyIntentToControl and the authorization, which must be
\* new; no fresh intent ends the execution.
AuthorizeOrder(c) ==
  /\ At(c, "order")
  /\ \/ \E d \in Decisions \ run[c].attempted :
          IF d \in authorizations THEN End(c) /\ UNCHANGED authorizations
          ELSE /\ authorizations' = authorizations \cup {d}
               /\ run' = [run EXCEPT ![c].pc = "child", ![c].decision = d, ![c].guarded = TRUE]
     \/ End(c) /\ UNCHANGED authorizations
  /\ UNCHANGED <<canonical, consumed, children, evidence, overlapped>>

ChildSends(c) ==
  /\ At(c, "child") /\ Goto(c, "sent")
  /\ spent' = spent \cup {run[c].decision}
  /\ UNCHANGED <<canonical, consumed, authorizations, filled, terminal, evidence, overlapped>>

\* The child exits with an error or leaves evidence that is refused.
ChildFails(c) ==
  /\ At(c, "child") \/ At(c, "sent")
  /\ Goto(c, "block")
  /\ UNCHANGED <<canonical, consumed, authorizations, children, evidence, overlapped>>

\* A no-fill summary comes with its terminal evidence.
ChildCompletes(c) ==
  /\ At(c, "sent") /\ Goto(c, "located")
  /\ \/ filled' = filled \cup {run[c].decision} /\ UNCHANGED terminal
     \/ terminal' = terminal \cup {run[c].decision} /\ UNCHANGED filled
  /\ UNCHANGED <<canonical, consumed, authorizations, spent, evidence, overlapped>>

LocateSummary(c) ==
  /\ At(c, "located")
  /\ IF run[c].decision \in filled
     THEN pending' = pending \cup {run[c].decision} /\ Finish(c)
     ELSE Goto(c, "chain") /\ UNCHANGED pending
  /\ UNCHANGED <<canonical, consumed, authorizations, children, progress, states, blocks, checkpoints, overlapped>>

\* The redemption worker verifies a settlement; a losing position never gets there.
Redeem ==
  /\ \E d \in filled \ terminal : terminal' = terminal \cup {d}
  /\ UNCHANGED <<canonical, consumed, authorizations, spent, filled, evidence, run, overlapped>>

\* mutant: the decision of the pending document is not passed on
SettleAnonymously(c) ==
  /\ At(c, "settle")
  /\ IF run[c].decision \in terminal
     THEN run' = [run EXCEPT ![c].pc = "chain", ![c].decision = Nobody] ELSE End(c)
  /\ UNCHANGED <<canonical, consumed, authorizations, children, evidence, overlapped>>

\* settlePendingTerminal.
SettlePendingTerminal(c) ==
  /\ At(c, "settle")
  /\ IF run[c].decision \in terminal THEN Goto(c, "chain") ELSE End(c)
  /\ UNCHANGED <<canonical, consumed, authorizations, children, evidence, overlapped>>

-----------------------------------------------------------------------------
(* recordCompletion and publishStageCheckpoint.                              *)

Documents(n) == {d \in Completed : Len(progress[d]) = n}

\* Exactly one document of every length up to n, each extending the one before.
IsChain(n) ==
  /\ \A k \in 1..n : Cardinality(Documents(k)) = 1
  /\ \A k \in 2..n : \A d \in Documents(k), e \in Documents(k - 1) :
        progress[d] = Append(progress[e], d)

ChainOf(n) == IF n = 0 THEN <<>> ELSE progress[CHOOSE d \in Documents(n) : TRUE]

\* priorCumulativeProgressHash.
LinkProgress(c) ==
  LET n == Cardinality(run[c].completed)
  IN  /\ At(c, "chain")
      /\ IF IsChain(n)
         THEN run' = [run EXCEPT ![c].pc = "progress", ![c].chain = Append(ChainOf(n), run[c].decision)]
         ELSE Fail(c)
      /\ UNCHANGED <<canonical, consumed, authorizations, children, evidence, overlapped>>

RecordProgress(c) ==
  /\ At(c, "progress")
  /\ IF progress[run[c].decision] = <<>>
     THEN progress' = [progress EXCEPT ![run[c].decision] = run[c].chain] /\ Goto(c, "state")
     ELSE Fail(c) /\ UNCHANGED progress
  /\ UNCHANGED <<canonical, consumed, authorizations, children, pending, states, blocks, checkpoints, overlapped>>

\* The last order of the stage: counted by the authorizations after a child, by
\* the progress after a settlement.
IsLastOrder(c) ==
  Quota = 1 + Cardinality(IF run[c].guarded THEN run[c].attempted ELSE run[c].completed)

RecordState(c) ==
  /\ At(c, "state")
  /\ IF Len(run[c].chain) \notin states
     THEN /\ states' = states \cup {Len(run[c].chain)}
          /\ IF IsLastOrder(c) THEN Goto(c, "checkpoint") ELSE Finish(c)
     ELSE Fail(c) /\ UNCHANGED states
  /\ UNCHANGED <<canonical, consumed, authorizations, children, pending, progress, blocks, checkpoints, overlapped>>

\* mutant: duplicated sequences are not looked for
PublishAnyCheckpoint(c) ==
  /\ At(c, "checkpoint")
  /\ IF CanaryIsBound /\ \A k \in 1..Quota : Documents(k) # {}
     THEN Finish(c) /\ \E d \in Documents(Quota) : checkpoints' = checkpoints \cup {progress[d]}
     ELSE Fail(c) /\ UNCHANGED checkpoints
  /\ UNCHANGED <<canonical, consumed, authorizations, children, pending, progress, states, blocks, overlapped>>

\* The entries are the canary's order and every document of the campaign up to
\* the target; the canary's entry needs its parent binding.
PublishStageCheckpoint(c) ==
  /\ At(c, "checkpoint")
  /\ IF CanaryIsBound /\ IsChain(Quota)
     THEN checkpoints' = checkpoints \cup {ChainOf(Quota)} /\ Finish(c)
     ELSE Fail(c) /\ UNCHANGED checkpoints
  /\ UNCHANGED <<canonical, consumed, authorizations, children, pending, progress, states, blocks, overlapped>>

\* A read or a write after the child fails: the catch blocks the stage, whatever
\* its documents already say.
StoreFails(c) ==
  /\ StoreMayFail /\ run[c].guarded /\ run[c].pc \in {"located", "chain", "progress", "state", "checkpoint"}
  /\ Goto(c, "block")
  /\ UNCHANGED <<canonical, consumed, authorizations, children, evidence, overlapped>>

WriteStageBlock(c) ==
  /\ At(c, "block") /\ End(c)
  /\ blocks' = blocks \cup {run[c].decision}
  /\ UNCHANGED <<canonical, consumed, authorizations, children, pending, progress, states, checkpoints, overlapped>>

\* The execution is killed, and its child with it.
Crash(c) ==
  /\ ~At(c, "idle") /\ End(c)
  /\ UNCHANGED <<canonical, consumed, authorizations, children, evidence, overlapped>>

Next ==
  \/ MoveCanonical \/ Redeem
  \/ \E c \in Controllers :
        \/ Start(c) \/ ConsumeGrant(c) \/ AuthorizeStage(c) \/ AssertNoStageBlock(c)
        \/ (\E what \in Listings : ListStage(c, what)) \/ Decide(c)
        \/ AuthorizeOrder(c) \/ ChildSends(c) \/ ChildFails(c) \/ ChildCompletes(c) \/ LocateSummary(c)
        \/ SettlePendingTerminal(c) \/ LinkProgress(c) \/ RecordProgress(c) \/ RecordState(c)
        \/ PublishStageCheckpoint(c) \/ StoreFails(c) \/ WriteStageBlock(c) \/ Crash(c)

Spec == Init /\ [][Next]_vars

-----------------------------------------------------------------------------
(* Properties                                                                *)

Executions ==
  [pc : Steps, listed : SUBSET Listings, attempted : SUBSET Decisions, completed : SUBSET Decisions,
   waiting : SUBSET Decisions, decision : Decisions \cup {Nobody}, chain : Seq(Decisions), guarded : BOOLEAN]

\* Type invariant of the stage's documents and its executions.
TypeOK ==
  /\ canonical \in {"waiting", "authorized", "moved"} /\ consumed \in BOOLEAN /\ overlapped \in BOOLEAN
  /\ {authorizations, spent, filled, terminal, pending, blocks} \subseteq SUBSET Decisions
  /\ progress \in [Decisions -> Seq(Decisions)] /\ checkpoints \subseteq Seq(Decisions) /\ states \subseteq Nat
  /\ run \in [Controllers -> Executions]

\* The stage never spends more orders than it was granted, through any number of
\* crashes and restarts, as long as the executions do not overlap.
QuotaHolds == overlapped \/ Cardinality(spent) <= Quota

\* Replacement spending is forbidden: without overlap, an order is authorized only
\* when every earlier one has its terminal evidence and its place in the chain
\* (loadStageInventory, docs/profitability-promotion.md:491).
NoReplacementSpending ==
  [][authorizations' # authorizations =>
       overlapped \/ (authorizations = Completed /\ authorizations \subseteq terminal /\ blocks = {})]_vars

\* Whatever the executions did to each other, a checkpoint is one chain of exactly
\* the stage's orders, each sent once and with terminal evidence, and there is one.
CheckpointIsExact ==
  /\ Cardinality(checkpoints) <= 1
  /\ \A chain \in checkpoints :
        /\ Len(chain) = Quota
        /\ \A i, j \in 1..Len(chain) : chain[i] = chain[j] => i = j
        /\ \A i \in 1..Len(chain) : chain[i] \in spent \cap terminal

\* A stage all of whose orders are complete is evaluated, not blocked: the blocks
\* are for ineligible, orphan or unresolved orders (docs/profitability-promotion.md:491).
CompletedStageIsNotBlocked ==
  overlapped \/ (Cardinality(Completed) = Quota => blocks = {})
=============================================================================
