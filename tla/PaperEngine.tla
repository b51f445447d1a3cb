---------------------------- MODULE PaperEngine ----------------------------
(* The trading state of the runtime (crates/polyedge-engine, -execution):   *)
(*   RiskManager          positions, totalPosition, openOrderCount          *)
(*   OrderManager         quotes, one per (market, outcome token, Buy)      *)
(*   PaperExecutionClient resting                                           *)
(*   PaperFillEngine      the rules by which a book fills a resting order   *)
(* and the steps that mutate them: a decision batch, a book, a cancel-all   *)
(* and a settlement.  Every step runs under the runtime's decision gate;    *)
(* DecisionRuntime shows why a batch is applied to the state it was         *)
(* evaluated on.  Only time passes between the two, hence MaxApplyDelay.    *)
(*                                                                          *)
(* Abstracted: prices and sizes are small naturals; the strategy and the    *)
(* regime transform choose any maker and taker per outcome (they emit at    *)
(* most one of each, MakerFirstStrategy::evaluate_outcome); an order id is  *)
(* <<batch, outcome, kind>> where the code draws the next number.           *)
EXTENDS Naturals, FiniteSets, FiniteSetsExt

CONSTANTS
  Markets, StartTs, EndTs,          \* start_ts and end_ts of each market
  Prices, Sizes, Ttls,              \* what the strategy may ask for
  NoOrder,                          \* Option::None
  EnableTakers,                     \* strategy.enable_taker_orders
  MaxOrderSize, MaxPositionPerMarket, MaxTotalPosition, MaxOpenOrders,
  FinalNoTrade, OrderLiveAfter,     \* final_no_trade_seconds, order_live_after_ms
  MaxTime, MaxBatches, MaxApplyDelay    \* bounds of the model

Outcomes == {"up", "down"}

Terms == [price : Prices, size : Sizes, ttl : Ttls]

ASSUME EngineAssumption ==
  /\ IsFiniteSet(Markets)
  /\ StartTs \in [Markets -> Nat] /\ EndTs \in [Markets -> Nat]
  /\ Prices \subseteq Nat /\ Sizes \subseteq Nat /\ Ttls \subseteq Nat
  /\ EnableTakers \in BOOLEAN
  /\ MaxOrderSize \in Nat /\ MaxPositionPerMarket \in Nat
  /\ MaxTotalPosition \in Nat /\ MaxOpenOrders \in Nat
  /\ FinalNoTrade \in Nat /\ OrderLiveAfter \in Nat
  /\ MaxTime \in Nat /\ MaxBatches \in Nat /\ MaxApplyDelay \in Nat

\* a resting order; only makers rest
Order == [batch : 1..MaxBatches, market : Markets, outcome : Outcomes,
          price : Prices, size : Nat, ttl : Ttls, placed : Nat]

Kinds == {"maker", "taker"}

OrderIds == (1..MaxBatches) \X Outcomes \X Kinds

ASSUME NoOrderAssumption ==
  NoOrder \notin Order \cup [price : Prices, size : Nat, ttl : Ttls]

VARIABLES
  now,              \* Utc::now()
  resting,          \* PaperExecutionClient.resting_orders
  quotes,           \* OrderManager.quotes
  positions,        \* RiskManager.positions_by_market
  totalPosition,    \* RiskManager.total_position
  openOrderCount,   \* RiskManager.open_order_count
  batches,          \* how many batches placed an order: next_id
  settled,          \* data.settled_markets
  accepted,         \* history: the id of every order placed
  fills             \* history: the id, market and size of every filled order

vars == <<now, resting, quotes, positions, totalPosition, openOrderCount,
          batches, settled, accepted, fills>>

Id(r) == <<r.batch, r.outcome, "maker">>

TypeOK ==
  /\ now \in Nat
  /\ resting \subseteq Order
  /\ quotes \in [Markets -> [Outcomes -> Order \cup {NoOrder}]]
  /\ positions \in [Markets -> Nat]
  /\ totalPosition \in Nat
  /\ openOrderCount \in Nat
  /\ batches \in 0..MaxBatches
  /\ settled \subseteq Markets
  /\ accepted \subseteq OrderIds
  /\ fills \subseteq [id : OrderIds, market : Markets, size : Nat]

NoQuotes == [o \in Outcomes |-> NoOrder]

Init ==
  /\ now = 0
  /\ resting = {}
  /\ quotes = [m \in Markets |-> NoQuotes]
  /\ positions = [m \in Markets |-> 0]
  /\ totalPosition = 0
  /\ openOrderCount = 0
  /\ batches = 0
  /\ settled = {}
  /\ accepted = {}
  /\ fills = {}

----------------------------------------------------------------------------
(* RiskManager *)

Active(m, t) == StartTs[m] <= t /\ t < EndTs[m]

InsideFinalWindow(m, t) == EndTs[m] <= t + FinalNoTrade

\* assess_market.  feedsOk stands for the inputs that live outside the engine:
\* kill switch, live gates, tradeable market, fresh reference and both books.
Allowed(m, feedsOk) ==
  /\ feedsOk
  /\ ~InsideFinalWindow(m, now)
  /\ totalPosition < MaxTotalPosition
  /\ openOrderCount < MaxOpenOrders

Clipped(t) == [t EXCEPT !.size = IF @ > MaxOrderSize THEN MaxOrderSize ELSE @]

\* mutant: the position of the market is not projected
WithinTotalOnly(m, t) == totalPosition + t.size <= MaxTotalPosition

WithinLimits(m, t) ==
  /\ positions[m] + t.size <= MaxPositionPerMarket
  /\ totalPosition + t.size <= MaxTotalPosition

\* filter_decisions: each order is clipped and projected alone
Filtered(m, wanted) ==
  [o \in Outcomes |->
     IF wanted[o] # NoOrder /\ WithinLimits(m, Clipped(wanted[o]))
     THEN Clipped(wanted[o]) ELSE NoOrder]

----------------------------------------------------------------------------
(* OrderManager *)

QuotesOf(m) == {quotes[m][o] : o \in Outcomes} \ {NoOrder}

TrackedIds == {Id(q) : q \in UNION {QuotesOf(m) : m \in Markets}}

OpenCount(q) == Cardinality({k \in Markets \X Outcomes : q[k[1]][k[2]] # NoOrder})

Expired(r, t) == r.placed + r.ttl <= t

SameQuote(r, t) == r.price = t.price /\ r.size = t.size

\* mutant: an expired quote counts as resting
NeedsCancelIgnoringTtl(m, makers) ==
  \E o \in Outcomes : /\ quotes[m][o] # NoOrder
                      /\ makers[o] = NoOrder \/ ~SameQuote(quotes[m][o], makers[o])

NeedsCancel(m, makers) ==
  \/ \E q \in QuotesOf(m) : Expired(q, now)
  \/ \E o \in Outcomes : /\ quotes[m][o] # NoOrder
                         /\ makers[o] = NoOrder \/ ~SameQuote(quotes[m][o], makers[o])

\* reconcile: does the batch cancel the market, and does it place the makers?
Cancels(m, allowed, makers) ==
  /\ QuotesOf(m) # {}
  /\ ~allowed \/ makers = NoQuotes \/ NeedsCancel(m, makers)

\* mutant: the makers are placed beside those that rest
PlacesAlways(m, allowed, makers) == allowed

Places(m, allowed, makers) ==
  /\ allowed
  /\ QuotesOf(m) = {} \/ NeedsCancel(m, makers)

----------------------------------------------------------------------------
(* PaperExecutionClient and the bookkeeping of its reports *)

RestingOf(m) == {r \in resting : r.market = m}

\* mutants: the first order has number zero; the number is not advanced
MakerOrderFromZero(m, o, t, ts) ==
  [batch |-> batches, market |-> m, outcome |-> o,
   price |-> t.price, size |-> t.size, ttl |-> t.ttl, placed |-> ts]

MakerOrderReusingId(m, o, t, ts) ==
  [MakerOrderFromZero(m, o, t, ts) EXCEPT !.batch = 1]

MakerOrder(m, o, t, ts) ==
  [batch |-> batches + 1, market |-> m, outcome |-> o,
   price |-> t.price, size |-> t.size, ttl |-> t.ttl, placed |-> ts]

Asked(terms) == {o \in Outcomes : terms[o] # NoOrder}

SizeAsked(terms, o) == IF terms[o] = NoOrder THEN 0 ELSE terms[o].size

\* execute_paper_decision_with_engine for the batch: cancel_all, then each maker
\* rests and each taker fills as it is submitted, at time ts.  cancel_all reports
\* once per cancelled order, and the order manager forgets the market's quotes on
\* a report, so not when nothing rested.
Execute(m, cancel, makers, takers, ts) ==
  LET made     == {MakerOrder(m, o, makers[o], ts) : o \in Asked(makers)}
      bought   == {[id |-> <<batches + 1, o, "taker">>, market |-> m, size |-> takers[o].size] :
                     o \in Asked(takers)}
      kept     == IF cancel THEN resting \ RestingOf(m) ELSE resting
      tracked  == IF cancel /\ RestingOf(m) # {} THEN NoQuotes ELSE quotes[m]
      size     == SizeAsked(takers, "up") + SizeAsked(takers, "down")
  IN /\ resting' = kept \cup made
     /\ quotes' = [quotes EXCEPT ![m] =
           [o \in Outcomes |-> IF makers[o] = NoOrder THEN tracked[o]
                              ELSE MakerOrder(m, o, makers[o], ts)]]
     /\ fills' = fills \cup bought
     /\ accepted' = accepted \cup {Id(r) : r \in made} \cup {f.id : f \in bought}
     /\ positions' = [positions EXCEPT ![m] = @ + size]
     /\ totalPosition' = totalPosition + size
     /\ openOrderCount' = IF cancel \/ Asked(makers) \cup Asked(takers) # {}
                          THEN OpenCount(quotes') ELSE openOrderCount
     /\ batches' = IF Asked(makers) \cup Asked(takers) = {} THEN batches ELSE batches + 1

----------------------------------------------------------------------------
(* Steps *)

\* one market of evaluate_once: the batch is evaluated at now, and applied after
\* its evidence is durable, MaxApplyDelay later at most
Evaluate(m, feedsOk, makers, takers, delay) ==
  /\ Active(m, now) /\ m \notin settled
  /\ batches < MaxBatches /\ now + delay <= MaxTime
  /\ LET allowed == Allowed(m, feedsOk)
         makersOk == Filtered(m, makers)
         takersOk == Filtered(m, takers)
     IN Execute(m, Cancels(m, allowed, makersOk),
                IF Places(m, allowed, makersOk) THEN makersOk ELSE NoQuotes,
                IF allowed THEN takersOk ELSE NoQuotes,
                now + delay)
  /\ now' = now + delay
  /\ UNCHANGED settled

\* cancel_active_markets, for one market
CancelActive(m) ==
  /\ Active(m, now) /\ m \notin settled
  /\ Execute(m, TRUE, NoQuotes, NoQuotes, now)
  /\ UNCHANGED <<now, settled>>

\* on_book: the resting orders of the token that a fresh book with this best ask fills
Fillable(m, o, ask) ==
  {r \in resting : /\ r.market = m /\ r.outcome = o
                   /\ Id(r) \in TrackedIds
                   /\ Active(m, now) /\ ~InsideFinalWindow(m, now)
                   /\ r.placed + OrderLiveAfter <= now
                   /\ ~Expired(r, now)
                   /\ ask <= r.price}

\* handle_paper_fills.  The order manager keeps one quote per token and side, so
\* its loop over the fillable orders has at most one turn.
PaperFill(m, o, ask) ==
  \E r \in Fillable(m, o, ask) :
    /\ resting' = resting \ {r}
    /\ quotes' = [x \in Markets |-> [y \in Outcomes |->
                    IF quotes[x][y] # NoOrder /\ Id(quotes[x][y]) = Id(r)
                    THEN NoOrder ELSE quotes[x][y]]]
    /\ openOrderCount' = OpenCount(quotes')
    /\ positions' = [positions EXCEPT ![m] = @ + r.size]
    /\ totalPosition' = totalPosition + r.size
    /\ fills' = fills \cup {[id |-> Id(r), market |-> m, size |-> r.size]}
    /\ UNCHANGED <<now, batches, settled, accepted>>

\* mutant: the total keeps the position of the settled market
SettleKeepsTotal(m) ==
  /\ EndTs[m] <= now /\ m \notin settled
  /\ resting' = resting \ RestingOf(m)
  /\ quotes' = [quotes EXCEPT ![m] = NoQuotes]
  /\ positions' = [positions EXCEPT ![m] = 0]
  /\ openOrderCount' = OpenCount(quotes')
  /\ settled' = settled \cup {m}
  /\ UNCHANGED <<now, totalPosition, batches, accepted, fills>>

\* the commit of a settlement journal: everything of the market is cleared
Settle(m) ==
  /\ EndTs[m] <= now /\ m \notin settled
  /\ resting' = resting \ RestingOf(m)
  /\ quotes' = [quotes EXCEPT ![m] = NoQuotes]
  /\ positions' = [positions EXCEPT ![m] = 0]
  /\ totalPosition' = IF positions[m] <= totalPosition
                      THEN totalPosition - positions[m] ELSE 0
  /\ openOrderCount' = OpenCount(quotes')
  /\ settled' = settled \cup {m}
  /\ UNCHANGED <<now, batches, accepted, fills>>

Tick ==
  /\ now < MaxTime
  /\ now' = now + 1
  /\ UNCHANGED <<resting, quotes, positions, totalPosition, openOrderCount,
                 batches, settled, accepted, fills>>

Wanted == [Outcomes -> Terms \cup {NoOrder}]

\* only the size of a taker matters: it never rests
WantedTakers ==
  LET terms == {t \in Terms : t.price = Max(Prices) /\ t.ttl = Max(Ttls)}
  IN IF EnableTakers THEN [Outcomes -> terms \cup {NoOrder}] ELSE {NoQuotes}

Next ==
  \/ Tick
  \/ \E m \in Markets, feedsOk \in BOOLEAN, makers \in Wanted,
        takers \in WantedTakers, delay \in 0..MaxApplyDelay :
        Evaluate(m, feedsOk, makers, takers, delay)
  \/ \E m \in Markets : CancelActive(m)
  \/ \E m \in Markets, o \in Outcomes, ask \in Prices : PaperFill(m, o, ask)
  \/ \E m \in Markets : Settle(m)

Spec == Init /\ [][Next]_vars

----------------------------------------------------------------------------
(* Properties *)

\* The order manager tracks an order exactly while the execution client rests it.
\* Were a resting order untracked it could never fill nor be replaced; were a
\* quote left behind, the market would cancel nothing for ever (an empty
\* cancel_all reports nothing, so the quote would stay).
TrackedIffResting ==
  /\ resting = UNION {QuotesOf(m) : m \in Markets}
  /\ \A m \in Markets, o \in Outcomes : quotes[m][o] # NoOrder =>
        quotes[m][o].market = m /\ quotes[m][o].outcome = o

SizeOf(F) == SumFunction([f \in F |-> f.size])

\* The ledgers agree with what they stand for: the cached count that assess_market
\* reads is the number of open quotes, and the risk ledger is the sum of what was
\* filled, every fill counted once, in its market and in the total, and taken out
\* again by the settlement.
LedgersAgree ==
  /\ openOrderCount = OpenCount(quotes)
  /\ \A m \in Markets : positions[m] =
       IF m \in settled THEN 0 ELSE SizeOf({f \in fills : f.market = m})
  /\ totalPosition = SumFunction(positions)

RestingSize(m) == SizeAsked(quotes[m], "up") + SizeAsked(quotes[m], "down")

\* filter_decisions projects every order alone, so max_position_per_market bounds
\* what a market holds and could still be filled for only up to the other orders
\* of a batch: one more maker, and two takers when they are enabled.
ExposureBound ==
  \A m \in Markets :
    positions[m] + RestingSize(m)
      <= MaxPositionPerMarket + (IF EnableTakers THEN 3 ELSE 1) * MaxOrderSize

\* the quote of o once the batch has been executed: an order, or the terms of the
\* maker it places
QuoteAfter(m, allowed, makers, o) ==
  IF Places(m, allowed, makers) /\ makers[o] # NoOrder THEN makers[o]
  ELSE IF Cancels(m, allowed, makers) THEN NoOrder ELSE quotes[m][o]

\* Whatever the strategy and the risk manager decide in a state the engine can be
\* in, reconcile leaves only quotes they want now, at their price and size, and
\* none that had expired: a quote never outlives the decision that wanted it.
ReconcileKeepsOnlyWanted ==
  \A m \in Markets, allowed \in BOOLEAN, makers \in Wanted, o \in Outcomes :
    LET q == QuoteAfter(m, allowed, makers, o)
    IN q # NoOrder => /\ allowed /\ makers[o] # NoOrder
                      /\ SameQuote(q, makers[o])
                      /\ q \in resting => ~Expired(q, now)

\* where an order is in its life, as OrderLifecycle tells it
OrderStatus(id) ==
  IF \E r \in resting : Id(r) = id THEN "resting"
  ELSE IF \E f \in fills : f.id = id THEN "filled"
  ELSE IF id \in accepted THEN "closed" ELSE "new"

Life == INSTANCE OrderLifecycle
          WITH Orders <- OrderIds, status <- [id \in OrderIds |-> OrderStatus(id)]

\* An order is filled at most once, never after it was cancelled, replaced or
\* settled away, and a name is never used twice.
LifeSpec == Life!Spec

============================================================================
