---------------------------- MODULE FundedOrder ----------------------------
(* How one authorized order is spent at the real venue: the canary child     *)
(* (venue-probe/src/canary.mjs, canary-lib.mjs) with the campaign lease, the *)
(* risk reservations and the terminal evidence of lib.mjs, and the           *)
(* redemption worker (redeem.mjs).  Children may run at the same time, a     *)
(* lease may lapse and a process be killed anywhere, the answer to a request *)
(* may be lost and an order be acted on after it was given up.               *)
(*                                                                          *)
(* Abstracted: an intent stands for its decision, its market and its one-    *)
(* shot authorization; its terms, hashes and time windows are checks that    *)
(* may fail at any time. The positions API lags, so no guard relies on it.   *)
(* The listing of the reservations is one step.                              *)
EXTENDS Naturals, FiniteSets

CONSTANTS
  Children,             \* concurrent executions of the canary process
  Intents,
  Redeemer,             \* the redemption worker, as a holder of the lease
  Nobody,
  MaxDates,             \* bounds of the model: UTC dates on which one intent is
  MaxReservations,      \* reserved, reservations of all intents and dates, and
  MaxLapses             \* how often a live holder loses the lease

ASSUME OrderAssumption ==
  /\ IsFiniteSet(Intents) /\ MaxDates \in Nat \ {0} /\ MaxReservations \in Nat /\ MaxLapses \in Nat
  /\ Redeemer \notin Children /\ Nobody \notin Children \cup Intents \cup {Redeemer}

VARIABLES
  reservations,         \* risk-reservations/<date>/strategy-canary-<decision>.json
  consumed,             \* control/strategy-canary/consumed/<authorization>.json
  summaries,            \* runs/<date>/<run>/summary.json, of the run that ordered
  terminal,             \* terminal-risk-portfolio/<date>/<probe>.json
  lease,                \* who holds campaign.lock
  order, position,      \* the venue: the order of an intent and what it bought
  relayed,              \* the venue: intents of a redemption under way
  child,                \* each child: its step and its locals
  redeemer, redeeming,  \* the redemption worker and the intents it redeems
  control,              \* redemption-state.json
  lapses

evidence == <<reservations, consumed, summaries, terminal>>
venue    == <<order, position, relayed>>
worker   == <<redeemer, redeeming, control>>

vars == <<evidence, lease, venue, child, worker, lapses>>

\* The dates of the reservations of an intent, numbered: what matters is whether
\* midnight has passed between two of them.
Dates == 1..MaxDates

\* A child makes its preflight three times: before it reserves, before it sends,
\* and before it publishes that nothing was filled.
Unreserved == {"orders", "risk", "reserve"}
Reserved   == {"consume", "orders2", "risk2"}
Submitted  == {"resting", "reconcile"}
Reporting  == {"orders3", "publish", "upload"}
Steps      == Unreserved \cup Reserved \cup Submitted \cup Reporting \cup
              {"idle", "send", "answer", "emergency", "preserve"}

ReservationStates ==
  {"none", "reserved", "released_no_order", "submitted_pending_reconciliation",
   "finalized_no_fill", "position_unresolved", "unresolved_reconciliation", "position_settled"}

\* matched: the reservation records a positive matched notional.
Reservation(state, matched) == [state |-> state, matched |-> matched]

Idle == [pc |-> "idle", intent |-> Nobody, date |-> 1, sawOpen |-> FALSE, filled |-> FALSE]

TypeOK ==
  /\ reservations \in [Intents \X Dates -> [state : ReservationStates, matched : BOOLEAN]]
  /\ consumed \subseteq Intents /\ terminal \subseteq Intents
  /\ summaries \in [Intents -> {"none", "no_fill", "fill", "failed"}]
  /\ lease \in Children \cup {Redeemer, Nobody}
  /\ order \in [Intents -> {"none", "sent", "live", "closed", "rejected"}]
  /\ position \in [Intents -> {"none", "held", "won", "lost", "redeemed"}]
  /\ relayed \subseteq Intents /\ redeeming \subseteq Intents
  /\ child \in [Children -> [pc : Steps, intent : Intents \cup {Nobody}, date : Dates,
                             sawOpen : BOOLEAN, filled : BOOLEAN]]
  /\ redeemer \in {"idle", "prepared", "submitted", "verified", "settled"}
  /\ control \in {"resolved", "unresolved"}
  /\ lapses \in 0..MaxLapses

Init ==
  /\ reservations = [b \in Intents \X Dates |-> Reservation("none", FALSE)]
  /\ consumed = {} /\ terminal = {} /\ summaries = [i \in Intents |-> "none"]
  /\ lease = Nobody
  /\ order = [i \in Intents |-> "none"] /\ position = [i \in Intents |-> "none"]
  /\ relayed = {}
  /\ child = [c \in Children |-> Idle]
  /\ redeemer = "idle" /\ redeeming = {} /\ control = "resolved"
  /\ lapses = 0

----------------------------------------------------------------------------
(* Reservations *)

\* isRiskReservationResolved; finalized_no_fill and released_no_order are only
\* ever written with the flags that function asks for.
IsResolved(r) ==
  \/ r.state = "none"                                    \* there is no blob
  \/ r.state = "finalized_no_fill" /\ ~r.matched
  \/ r.state = "position_settled" /\ r.matched
  \/ r.state = "released_no_order"

\* The intents with a reservation that is not resolved, of whatever date.
Unresolved == {i \in Intents : \E d \in Dates : ~IsResolved(reservations[<<i, d>>])}

\* settleProbeRiskReservations on the conditions of the intents of S. A write is
\* conditional on the ETag read: no concurrent write is lost.
Settled(S) ==
  [b \in Intents \X Dates |-> IF b[1] \in S /\ reservations[b].matched
                             THEN Reservation("position_settled", TRUE) ELSE reservations[b]]

LiveOrders == {i \in Intents : order[i] = "live"}

\* finalizeProbeRisk overwrites the blob of this child's reservation.
Finalize(c, state, matched) ==
  reservations' = [reservations EXCEPT ![<<child[c].intent, child[c].date>>] =
                     Reservation(state, matched)]

Goto(c, from, to) == child[c].pc = from /\ child' = [child EXCEPT ![c].pc = to]

\* The finally block releases the lease; a release that fails is a lapse later.
Leave(c) ==
  /\ child' = [child EXCEPT ![c] = Idle]
  /\ lease' = IF lease = c THEN Nobody ELSE lease

----------------------------------------------------------------------------
(* The child, up to the order *)

\* The parent starts a child on an intent it authorized; a child that does not
\* get the lease ends at once.
AcquireLease(c) ==
  /\ child[c] = Idle
  /\ lease = Nobody /\ lease' = c
  /\ \E i \in Intents : child' = [child EXCEPT ![c].intent = i, ![c].pc = "orders"]
  /\ UNCHANGED <<evidence, venue, worker, lapses>>

\* capturePreflight reads the open orders ...
ReadOpenOrders(c, from, to) ==
  /\ child[c].pc = from
  /\ child' = [child EXCEPT ![c].pc = to, ![c].sawOpen = LiveOrders # {}]
  /\ UNCHANGED <<evidence, lease, venue, worker, lapses>>

\* ... settles what the venue reports as redeemable, won or lost, one reservation
\* after the other ...
SettleReported(c, at) ==
  /\ child[c].pc = at
  /\ \E i \in Intents : position[i] \in {"won", "lost"} /\ reservations' = Settled({i})
  /\ UNCHANGED <<consumed, summaries, terminal, lease, venue, child, worker, lapses>>

\* mutant: the open orders are taken for all there is to know
PreflightOfOpenOrders(c, from, to, ignored) ==
  /\ Goto(c, from, to) /\ ~child[c].sawOpen
  /\ UNCHANGED <<evidence, lease, venue, worker, lapses>>

\* ... and lists the reservations. An open order blocks, and so does an unresolved
\* reservation: the first preflight counts them all, the second ignores its own
\* probe, by its name on any date.
Preflight(c, from, to, ignored) ==
  /\ Goto(c, from, to) /\ ~child[c].sawOpen
  /\ Unresolved \subseteq ignored
  /\ UNCHANGED <<evidence, lease, venue, worker, lapses>>

FirstPreflight(c)  == Preflight(c, "risk", "reserve", {})

\* lease.assertHealthy: renewed recently enough to be held now. It may be lost
\* before the order is sent.
SecondPreflight(c) == lease = c /\ Preflight(c, "risk2", "send", {child[c].intent})

\* If-None-Match: today's blob of this intent must not exist; d counts its dates.
NewReservation(i, d) ==
  /\ Cardinality({b \in Intents \X Dates : reservations[b].state # "none"}) < MaxReservations
  /\ \A e \in Dates : reservations[<<i, e>>].state = "none" <=> e >= d
  /\ reservations' = [reservations EXCEPT ![<<i, d>>] = Reservation("reserved", FALSE)]

ReserveRisk(c) ==
  /\ child[c].pc = "reserve"
  /\ \E d \in Dates : /\ NewReservation(child[c].intent, d)
                      /\ child' = [child EXCEPT ![c].pc = "consume", ![c].date = d]
  /\ UNCHANGED <<consumed, summaries, terminal, lease, venue, worker, lapses>>

\* mutant: the consumption is written without If-None-Match
ConsumeAgain(c) ==
  /\ Goto(c, "consume", "orders2")
  /\ consumed' = consumed \cup {child[c].intent}
  /\ UNCHANGED <<reservations, summaries, terminal, lease, venue, worker, lapses>>

ConsumeAuthorization(c) ==
  /\ Goto(c, "consume", "orders2")
  /\ child[c].intent \notin consumed /\ consumed' = consumed \cup {child[c].intent}
  /\ UNCHANGED <<reservations, summaries, terminal, lease, venue, worker, lapses>>

\* A check or a request before the reservation fails; the reservation itself may
\* have been written and only its answer be lost.
FailUnreserved(c) ==
  /\ child[c].pc \in Unreserved /\ Leave(c)
  /\ UNCHANGED <<evidence, venue, worker, lapses>>

LoseReservation(c) ==
  /\ child[c].pc = "reserve" /\ Leave(c)
  /\ \E d \in Dates : NewReservation(child[c].intent, d)
  /\ UNCHANGED <<consumed, summaries, terminal, venue, worker, lapses>>

\* A failure after the reservation and before the order releases the reservation,
\* unless that fails as well. The authorization may be consumed without the answer.
FailReserved(c) ==
  /\ child[c].pc \in Reserved /\ Leave(c)
  /\ Finalize(c, "released_no_order", FALSE) \/ UNCHANGED reservations
  /\ \/ UNCHANGED consumed
     \/ child[c].pc = "consume" /\ consumed' = consumed \cup {child[c].intent}
  /\ UNCHANGED <<summaries, terminal, venue, worker, lapses>>

----------------------------------------------------------------------------
(* The order *)

SendOrder(c) ==
  /\ Goto(c, "send", "answer")
  /\ order' = [order EXCEPT ![child[c].intent] = "sent"]
  /\ UNCHANGED <<evidence, lease, position, relayed, worker, lapses>>

\* The reservation is marked, or that fails.
Acknowledged(c) ==
  /\ child[c].pc = "answer" /\ order[child[c].intent] \in {"live", "closed"}
  /\ \/ Goto(c, "answer", "resting") /\ Finalize(c, "submitted_pending_reconciliation", FALSE)
     \/ Goto(c, "answer", "emergency") /\ UNCHANGED reservations
  /\ UNCHANGED <<consumed, summaries, terminal, lease, venue, worker, lapses>>

\* Every open order of the account, if the request gets through; an order still
\* under way is not reached by it, and the reservation stays.
CancelAll ==
  \/ order' = [i \in Intents |-> IF order[i] = "live" THEN "closed" ELSE order[i]]
  \/ UNCHANGED order

\* mutant: an order that was not acknowledged gives its reservation back
NotAcknowledgedReleases(c) ==
  /\ child[c].pc = "answer" /\ CancelAll /\ Leave(c)
  /\ Finalize(c, "released_no_order", FALSE)
  /\ UNCHANGED <<consumed, summaries, terminal, position, relayed, worker, lapses>>

\* No answer, or one that does not acknowledge the order.
NotAcknowledged(c) ==
  /\ child[c].pc = "answer" /\ CancelAll /\ Leave(c)
  /\ UNCHANGED <<evidence, position, relayed, worker, lapses>>

EmergencyCancel(c) ==
  /\ Goto(c, "emergency", "preserve") /\ CancelAll
  /\ UNCHANGED <<evidence, lease, position, relayed, worker, lapses>>

\* cancelOrderWithMetrics takes whatever the venue answers for done, the order not
\* cancelled as well: a live order may go on to fill while it is reconciled.
CancelOrder(c) ==
  /\ Goto(c, "resting", "reconcile")
  /\ \/ order' = [order EXCEPT ![child[c].intent] = "closed"]
     \/ UNCHANGED order
  /\ UNCHANGED <<evidence, lease, position, relayed, worker, lapses>>

\* mutant: a single source, which may lag, is asked whether the order filled
ReconcileOneSource(c) ==
  /\ child[c].pc = "reconcile" /\ lease = c
  /\ order[child[c].intent] = "closed" /\ LiveOrders = {}
  /\ Finalize(c, "finalized_no_fill", FALSE)
  /\ child' = [child EXCEPT ![c].pc = "orders3"]
  /\ UNCHANGED <<consumed, summaries, terminal, lease, venue, worker, lapses>>

\* A terminal order, no open order in the account, and the matched size on which
\* the four sources agree while nothing has changed for a while. The answer to the
\* write may be lost.
Reconcile(c) ==
  LET filled == position[child[c].intent] # "none" IN
  /\ child[c].pc = "reconcile" /\ lease = c
  /\ order[child[c].intent] = "closed" /\ LiveOrders = {}
  /\ Finalize(c, IF filled THEN "position_unresolved" ELSE "finalized_no_fill", filled)
  /\ \/ child' = [child EXCEPT ![c].pc = IF filled THEN "upload" ELSE "orders3",
                              ![c].filled = filled]
     \/ child' = [child EXCEPT ![c].pc = "emergency"]
  /\ UNCHANGED <<consumed, summaries, terminal, lease, venue, worker, lapses>>

\* No such snapshot in time: the reservation stays unresolved.
ReconcileIncomplete(c) ==
  /\ Goto(c, "reconcile", "emergency") /\ lease = c
  /\ \E matched \in {FALSE, position[child[c].intent] # "none"} :
       Finalize(c, "unresolved_reconciliation", matched)
  /\ UNCHANGED <<consumed, summaries, terminal, lease, venue, worker, lapses>>

\* Any other failure after the acknowledgment.
FailSubmitted(c) ==
  /\ child[c].pc \in Submitted
  /\ child' = [child EXCEPT ![c].pc = "emergency"]
  /\ UNCHANGED <<evidence, lease, venue, worker, lapses>>

\* mutant: a state that no reader of a reservation knows is written
PreserveUnknownState(c) ==
  /\ child[c].pc = "preserve" /\ Leave(c)
  /\ Finalize(c, "failed_reconciliation", FALSE)
  /\ UNCHANGED <<consumed, summaries, terminal, venue, worker, lapses>>

\* The matched size it could read, none when the queries fail; the write of the
\* reservation and the upload of the failed summary may fail too.
PreserveRisk(c) ==
  /\ child[c].pc = "preserve" /\ Leave(c)
  /\ \/ \E matched \in {FALSE, position[child[c].intent] # "none"} :
          Finalize(c, "unresolved_reconciliation", matched)
     \/ UNCHANGED reservations
  /\ \/ summaries' = [summaries EXCEPT ![child[c].intent] = "failed"]
     \/ UNCHANGED summaries
  /\ UNCHANGED <<consumed, terminal, venue, worker, lapses>>

----------------------------------------------------------------------------
(* The evidence *)

\* publishTerminalRiskPortfolioEvidence for an order that did not fill.
PublishNoFill(c) ==
  /\ Unresolved = {} /\ ~child[c].sawOpen
  /\ Goto(c, "publish", "upload")
  /\ terminal' = terminal \cup {child[c].intent}
  /\ UNCHANGED <<reservations, consumed, summaries, lease, venue, worker, lapses>>

UploadSummary(c) ==
  /\ child[c].pc = "upload" /\ Leave(c)
  /\ summaries' = [summaries EXCEPT ![child[c].intent] =
                     IF child[c].filled THEN "fill" ELSE "no_fill"]
  /\ UNCHANGED <<reservations, consumed, terminal, venue, worker, lapses>>

FailReporting(c) ==
  /\ child[c].pc \in Reporting /\ Leave(c)
  /\ UNCHANGED <<evidence, venue, worker, lapses>>

\* The container is killed.
Crash(c) ==
  /\ child[c] # Idle /\ child' = [child EXCEPT ![c] = Idle]
  /\ UNCHANGED <<evidence, lease, venue, worker, lapses>>

LeaseHolderLives == \/ lease = Redeemer /\ redeemer # "idle"
                    \/ lease \in Children /\ child[lease] # Idle

\* It is not renewed in time; the lease of a holder that is gone always lapses.
LeaseLapses ==
  /\ lease # Nobody /\ lease' = Nobody
  /\ \/ ~LeaseHolderLives /\ UNCHANGED lapses
     \/ LeaseHolderLives /\ lapses < MaxLapses /\ lapses' = lapses + 1
  /\ UNCHANGED <<evidence, venue, child, worker>>

----------------------------------------------------------------------------
(* The redemption worker *)

\* selectRedeemableConditions keeps conditions with a positive payout, as many as
\* its limits allow.
PrepareRedemption ==
  /\ redeemer = "idle" /\ redeemer' = "prepared"
  /\ control = "resolved" /\ control' = "unresolved"
  /\ lease = Nobody /\ lease' = Redeemer
  /\ LiveOrders = {}
  /\ redeeming' \in SUBSET {i \in Intents : position[i] = "won"} /\ redeeming' # {}
  /\ UNCHANGED <<evidence, venue, child, lapses>>

SubmitRedemption ==
  /\ redeemer = "prepared" /\ redeemer' = "submitted"
  /\ lease = Redeemer /\ LiveOrders = {}
  /\ relayed' = redeeming
  /\ UNCHANGED <<evidence, lease, order, position, child, redeeming, control, lapses>>

StopRedeemer ==
  /\ redeemer' = "idle" /\ redeeming' = {}
  /\ lease' = IF lease = Redeemer THEN Nobody ELSE lease

\* failed_before_submission and relayer_failed give the control record back.
AbandonRedemption ==
  /\ redeemer \in {"prepared", "submitted"} /\ relayed = {}
  /\ redeeming \cap {i \in Intents : position[i] = "redeemed"} = {}
  /\ StopRedeemer /\ control' = "resolved"
  /\ UNCHANGED <<evidence, venue, child, lapses>>

VerifyRedemption ==
  /\ redeemer = "submitted" /\ redeemer' = "verified"
  /\ \A i \in redeeming : position[i] = "redeemed"
  /\ LiveOrders = {}
  /\ control' = "resolved"
  /\ UNCHANGED <<evidence, lease, venue, child, redeeming, lapses>>

SettleRedeemed ==
  /\ redeemer = "verified" /\ redeemer' = "settled"
  /\ reservations' = Settled(redeeming)
  /\ redeeming' = {i \in redeeming : \E d \in Dates : reservations[<<i, d>>].matched}
  /\ UNCHANGED <<consumed, summaries, terminal, lease, venue, child, control, lapses>>

\* One terminal artifact per settled reservation.
PublishRedeemed ==
  /\ redeemer = "settled" /\ Unresolved = {}
  /\ \E i \in redeeming :
       terminal' = terminal \cup {i} /\ redeeming' = redeeming \ {i}
  /\ UNCHANGED <<reservations, consumed, summaries, lease, venue, child, redeemer, control, lapses>>

\* The end of a run, or a failed check, a timeout or a kill after the first write.
EndRedemption ==
  /\ redeemer # "idle" /\ StopRedeemer
  /\ UNCHANGED <<evidence, venue, child, control, lapses>>

----------------------------------------------------------------------------
(* The venue and the relayer *)

Accept(i) ==
  /\ order[i] = "sent" /\ order' = [order EXCEPT ![i] = "live"]
  /\ UNCHANGED <<evidence, lease, position, relayed, child, worker, lapses>>

\* Post-only or good-til-date forbids it, or it never arrives.
Reject(i) ==
  /\ order[i] = "sent" /\ order' = [order EXCEPT ![i] = "rejected"]
  /\ UNCHANGED <<evidence, lease, position, relayed, child, worker, lapses>>

\* Good-til-date has passed, or it was filled up.
Close(i) ==
  /\ order[i] = "live" /\ order' = [order EXCEPT ![i] = "closed"]
  /\ UNCHANGED <<evidence, lease, position, relayed, child, worker, lapses>>

Fill(i) ==
  /\ order[i] = "live" /\ position[i] = "none"
  /\ position' = [position EXCEPT ![i] = "held"]
  /\ UNCHANGED <<evidence, lease, order, relayed, child, worker, lapses>>

Resolve(i) ==
  /\ order[i] = "closed" /\ position[i] = "held"
  /\ \E result \in {"won", "lost"} : position' = [position EXCEPT ![i] = result]
  /\ UNCHANGED <<evidence, lease, order, relayed, child, worker, lapses>>

\* The relayer mines the transaction, maybe after the worker gave up on it.
Redeem ==
  /\ relayed # {} /\ relayed' = {}
  /\ position' = [i \in Intents |-> IF i \in relayed THEN "redeemed" ELSE position[i]]
  /\ UNCHANGED <<evidence, lease, order, child, worker, lapses>>

RelayerFails ==
  /\ relayed # {} /\ relayed' = {}
  /\ UNCHANGED <<evidence, lease, order, position, child, worker, lapses>>

----------------------------------------------------------------------------

ChildStep(c) ==
  \/ AcquireLease(c)
  \/ ReadOpenOrders(c, "orders", "risk") \/ SettleReported(c, "risk")
  \/ FirstPreflight(c) \/ ReserveRisk(c) \/ ConsumeAuthorization(c)
  \/ ReadOpenOrders(c, "orders2", "risk2") \/ SettleReported(c, "risk2") \/ SecondPreflight(c)
  \/ FailUnreserved(c) \/ LoseReservation(c) \/ FailReserved(c)
  \/ SendOrder(c) \/ Acknowledged(c) \/ NotAcknowledged(c)
  \/ CancelOrder(c) \/ Reconcile(c) \/ ReconcileIncomplete(c)
  \/ FailSubmitted(c) \/ EmergencyCancel(c) \/ PreserveRisk(c)
  \/ ReadOpenOrders(c, "orders3", "publish") \/ SettleReported(c, "publish")
  \/ PublishNoFill(c) \/ UploadSummary(c) \/ FailReporting(c) \/ Crash(c)

RedeemerStep ==
  \/ PrepareRedemption \/ SubmitRedemption \/ AbandonRedemption \/ VerifyRedemption
  \/ SettleRedeemed \/ PublishRedeemed \/ EndRedemption

VenueStep(i) == Accept(i) \/ Reject(i) \/ Close(i) \/ Fill(i) \/ Resolve(i)

Next ==
  \/ \E c \in Children : ChildStep(c)
  \/ LeaseLapses
  \/ RedeemerStep
  \/ \E i \in Intents : VenueStep(i)
  \/ Redeem \/ RelayerFails

Spec == Init /\ [][Next]_vars

----------------------------------------------------------------------------
(* Properties *)

\* Money the venue may still take or has taken and not yet given a result for.
AtRisk(i) == order[i] \in {"sent", "live"} \/ position[i] = "held"

\* At most one order is at risk in the whole account, however many children run,
\* whenever their lease lapses and wherever they die: each writes its reservation
\* before it reads those of the others.
OneOrderAtRisk ==
  \A i, j \in Intents : AtRisk(i) /\ AtRisk(j) => i = j

\* A reservation that no longer blocks a submission belongs to an intent whose
\* order can take no more money: an order of unknown fate, a fill that raced the
\* cancellation or a failed reconciliation keeps its reservation.
ReleasedCapitalIsSafe ==
  \A i \in Intents : AtRisk(i) => i \in Unresolved

\* One authorization pays for one order, even when a second child reserves the
\* same intent under the next date, where its own probe name is ignored.
SentOnce ==
  [][\A i \in Intents : order'[i] = "sent" => order[i] \in {"none", "sent"}]_vars

\* The evidence tells the truth: a terminal artifact is of a closed order without
\* a fill or with a redeemed one, a summary says whether the order filled, and a
\* no-fill summary comes with its terminal artifact.
EvidenceIsTrue ==
  \A i \in Intents :
    /\ i \in terminal => order[i] = "closed" /\ position[i] \in {"none", "redeemed"}
    /\ summaries[i] = "fill" => position[i] # "none"
    /\ summaries[i] = "no_fill" => position[i] = "none" /\ i \in terminal
=============================================================================
