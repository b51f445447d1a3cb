------------------------ MODULE PaperEngine_proofs -------------------------
(* Machine-checked proofs about PaperEngine, for every set of markets, every *)
(* limit and every bound.                                                    *)
EXTENDS PaperEngine, FiniteSetTheorems, WellFoundedInduction, TLAPS

----------------------------------------------------------------------------
(* The inductive invariant *)

\* order names: unique among resting orders, none from a batch still to come
NamesInv ==
  /\ \A r, s \in resting : Id(r) = Id(s) => r = s
  /\ \A r \in resting : r.batch <= batches

\* every maker was clipped by the risk manager
SizesInv == \A r \in resting : r.size <= MaxOrderSize

\* the history agrees with the state: what rests or was filled was accepted, and
\* nothing rests that was filled
HistoryInv ==
  /\ \A r \in resting : Id(r) \in accepted
  /\ \A f \in fills : f.id \in accepted
  /\ \A r \in resting, f \in fills : f.id # Id(r)
  /\ \A id \in accepted : id[1] <= batches

IInv == /\ TypeOK /\ TrackedIffResting /\ NamesInv /\ SizesInv
        /\ HistoryInv /\ ExposureBound

----------------------------------------------------------------------------
(* Facts about the operators *)

ClippedTerms == [price : Prices, size : Nat, ttl : Ttls]

\* What a batch may ask the execution client for.
Batch(m, cancel, makers, takers, ts) ==
  /\ cancel \in BOOLEAN /\ ts \in Nat
  /\ makers \in [Outcomes -> ClippedTerms \cup {NoOrder}]
  /\ takers \in [Outcomes -> ClippedTerms \cup {NoOrder}]
  /\ Asked(makers) \cup Asked(takers) # {} => batches < MaxBatches
  /\ \A o \in Outcomes : SizeAsked(makers, o) <= MaxOrderSize
  /\ \A o \in Outcomes : takers[o] # NoOrder =>
       /\ EnableTakers
       /\ takers[o].size <= MaxOrderSize
       /\ positions[m] + takers[o].size <= MaxPositionPerMarket
  /\ \A o \in Outcomes : makers[o] # NoOrder =>
       /\ cancel \/ QuotesOf(m) = {}
       /\ positions[m] + makers[o].size <= MaxPositionPerMarket

\* A maker order of the next batch is an order, and is named after the batch.
LEMMA MakerOrderType ==
  ASSUME batches \in 0..MaxBatches, batches < MaxBatches,
         NEW m \in Markets, NEW o \in Outcomes, NEW t \in ClippedTerms, NEW ts \in Nat
  PROVE  /\ MakerOrder(m, o, t, ts) \in Order
         /\ MakerOrder(m, o, t, ts) # NoOrder
         /\ MakerOrder(m, o, t, ts).batch = batches + 1
         /\ MakerOrder(m, o, t, ts).market = m
         /\ MakerOrder(m, o, t, ts).outcome = o
         /\ MakerOrder(m, o, t, ts).size = t.size
         /\ Id(MakerOrder(m, o, t, ts)) = <<batches + 1, o, "maker">>
<1>1. MakerOrder(m, o, t, ts) \in Order
  BY EngineAssumption DEF MakerOrder, Order, ClippedTerms
<1>2. MakerOrder(m, o, t, ts) # NoOrder
  BY <1>1, NoOrderAssumption
<1> QED
  BY <1>1, <1>2 DEF MakerOrder, Id

\* The risk filter clips what it lets through.
LEMMA FilteredType ==
  ASSUME TypeOK, NEW m \in Markets, NEW w \in Wanted
  PROVE  /\ Filtered(m, w) \in [Outcomes -> ClippedTerms \cup {NoOrder}]
         /\ \A o \in Outcomes : Filtered(m, w)[o] # NoOrder =>
              /\ Filtered(m, w)[o].size <= MaxOrderSize
              /\ positions[m] + Filtered(m, w)[o].size <= MaxPositionPerMarket
<1>1. ASSUME NEW o \in Outcomes, w[o] # NoOrder
      PROVE  Clipped(w[o]) \in ClippedTerms /\ Clipped(w[o]).size <= MaxOrderSize
  <2>1. w[o] \in Terms
    BY <1>1 DEF Wanted
  <2> QED
    BY <2>1, EngineAssumption DEF Clipped, Terms, ClippedTerms
<1> QED
  BY <1>1 DEF Filtered, WithinLimits

\* TrackedIffResting, order by order.
Tracked ==
  /\ \A r \in resting : quotes[r.market][r.outcome] = r
  /\ \A x \in Markets, o \in Outcomes : quotes[x][o] # NoOrder =>
       /\ quotes[x][o] \in resting
       /\ quotes[x][o].market = x
       /\ quotes[x][o].outcome = o

\* TrackedIffResting, said of each order and each quote.
LEMMA TrackedOrderByOrder ==
  ASSUME TypeOK
  PROVE  TrackedIffResting <=> Tracked
<1>1. ASSUME TrackedIffResting
      PROVE  Tracked
  <2>1. ASSUME NEW r \in resting
        PROVE  quotes[r.market][r.outcome] = r
    <3>1. PICK x \in Markets : r \in QuotesOf(x)
      BY <1>1, <2>1 DEF TrackedIffResting
    <3>2. PICK o \in Outcomes : r = quotes[x][o] /\ r # NoOrder
      BY <3>1 DEF QuotesOf
    <3> QED
      BY <1>1, <3>2 DEF TrackedIffResting
  <2>2. ASSUME NEW x \in Markets, NEW o \in Outcomes, quotes[x][o] # NoOrder
        PROVE  quotes[x][o] \in resting
    <3>1. quotes[x][o] \in QuotesOf(x)
      BY <2>2 DEF QuotesOf
    <3> QED
      BY <1>1, <3>1 DEF TrackedIffResting
  <2> QED
    BY <1>1, <2>1, <2>2 DEF TrackedIffResting, Tracked
<1>2. ASSUME Tracked
      PROVE  TrackedIffResting
  <2>1. ASSUME NEW r \in resting
        PROVE  \E x \in Markets : r \in QuotesOf(x)
    <3>1. r \in Order /\ r.market \in Markets /\ r.outcome \in Outcomes /\ r # NoOrder
      BY NoOrderAssumption DEF TypeOK, Order
    <3>2. r \in QuotesOf(r.market)
      BY <1>2, <3>1 DEF Tracked, QuotesOf
    <3> QED
      BY <3>1, <3>2
  <2>2. ASSUME NEW x \in Markets, NEW r \in QuotesOf(x)
        PROVE  r \in resting
    BY <1>2 DEF Tracked, QuotesOf
  <2>3. resting = UNION {QuotesOf(x) : x \in Markets}
    BY <2>1, <2>2
  <2> QED
    BY <1>2, <2>3 DEF TrackedIffResting, Tracked
<1> QED
  BY <1>1, <1>2

\* The number of quotes is a natural number.
LEMMA OpenCountType == ASSUME NEW q PROVE OpenCount(q) \in Nat
<1>1. IsFiniteSet(Outcomes)
  <2>1. IsFiniteSet({} \cup {"up"})
    BY FS_EmptySet, FS_AddElement
  <2>2. IsFiniteSet(({} \cup {"up"}) \cup {"down"})
    BY <2>1, FS_AddElement
  <2>3. Outcomes = ({} \cup {"up"}) \cup {"down"}
    BY DEF Outcomes
  <2> QED
    BY <2>2, <2>3
<1>2. IsFiniteSet(Markets \X Outcomes)
  BY <1>1, EngineAssumption, FS_Product
<1>3. IsFiniteSet({k \in Markets \X Outcomes : q[k[1]][k[2]] # NoOrder})
  BY <1>2, FS_Subset
<1> QED
  BY <1>3, FS_CardinalityType DEF OpenCount

----------------------------------------------------------------------------
(* A batch preserves the invariant *)

\* The types after a batch.
LEMMA ExecuteType ==
  ASSUME TypeOK, NEW m \in Markets, NEW cancel, NEW makers, NEW takers, NEW ts,
         Batch(m, cancel, makers, takers, ts), Execute(m, cancel, makers, takers, ts),
         now' \in Nat, settled' \subseteq Markets
  PROVE  TypeOK'
<1>1. ASSUME NEW o \in Asked(makers)
      PROVE  MakerOrder(m, o, makers[o], ts) \in Order
  BY <1>1, MakerOrderType DEF Asked, Batch, TypeOK
<1>2. resting' \subseteq Order
  BY <1>1 DEF Execute, TypeOK
<1>3. quotes' \in [Markets -> [Outcomes -> Order \cup {NoOrder}]]
  BY <1>1 DEF Execute, TypeOK, NoQuotes, Asked
<1>4. SizeAsked(takers, "up") \in Nat /\ SizeAsked(takers, "down") \in Nat
  BY DEF SizeAsked, Batch, ClippedTerms, Outcomes
<1>5. positions' \in [Markets -> Nat] /\ totalPosition' \in Nat
  BY <1>4 DEF Execute, TypeOK
<1>6. openOrderCount' \in Nat
  BY OpenCountType DEF Execute, TypeOK
<1>7. batches' \in 0..MaxBatches
  BY EngineAssumption DEF Execute, TypeOK, Batch
<1>8. ASSUME NEW o \in Asked(takers)
      PROVE  [id |-> <<batches + 1, o, "taker">>, market |-> m, size |-> takers[o].size]
               \in [id : OrderIds, market : Markets, size : Nat]
  BY <1>8, EngineAssumption DEF Asked, Batch, TypeOK, OrderIds, Kinds, ClippedTerms
<1>9. fills' \subseteq [id : OrderIds, market : Markets, size : Nat]
  BY <1>8 DEF Execute, TypeOK
<1>10. ASSUME NEW o \in Asked(makers)
       PROVE  Id(MakerOrder(m, o, makers[o], ts)) \in OrderIds
  BY <1>1, <1>10 DEF Order, Id, OrderIds, Kinds
<1>11. accepted' \subseteq OrderIds
  BY <1>8, <1>10 DEF Execute, TypeOK
<1> QED
  BY <1>2, <1>3, <1>5, <1>6, <1>7, <1>9, <1>11 DEF TypeOK

\* A cancel, and a batch that places makers, start from a market without orders.
LEMMA ExecuteBase ==
  ASSUME TypeOK, Tracked, NEW m \in Markets, NEW cancel \in BOOLEAN,
         cancel \/ QuotesOf(m) = {}
  PROVE  /\ \A r \in (IF cancel THEN resting \ RestingOf(m) ELSE resting) : r.market # m
         /\ \A o \in Outcomes :
              (IF cancel /\ RestingOf(m) # {} THEN NoQuotes ELSE quotes[m])[o] = NoOrder
<1>1. \A r \in RestingOf(m) : r \in QuotesOf(m)
  <2>1. SUFFICES ASSUME NEW r \in resting, r.market = m
                 PROVE  r \in QuotesOf(m)
    BY DEF RestingOf
  <2>2. r # NoOrder /\ r.outcome \in Outcomes
    BY NoOrderAssumption DEF TypeOK, Order
  <2>3. quotes[m][r.outcome] = r
    BY <2>1 DEF Tracked
  <2> QED
    BY <2>2, <2>3 DEF QuotesOf
<1>2. \A o \in Outcomes : quotes[m][o] # NoOrder => quotes[m][o] \in RestingOf(m)
  BY DEF Tracked, RestingOf
<1>3. CASE cancel
  BY <1>2, <1>3 DEF RestingOf, NoQuotes
<1>4. CASE ~cancel
  BY <1>1, <1>4 DEF RestingOf, QuotesOf
<1> QED
  BY <1>3, <1>4

\* After a batch the orders that rest are again the tracked ones.
LEMMA ExecuteTracked ==
  ASSUME TypeOK, Tracked, NEW m \in Markets, NEW cancel, NEW makers, NEW takers, NEW ts,
         Batch(m, cancel, makers, takers, ts), Execute(m, cancel, makers, takers, ts)
  PROVE  Tracked'
<1> DEFINE kept == IF cancel THEN resting \ RestingOf(m) ELSE resting
           tracked == IF cancel /\ RestingOf(m) # {} THEN NoQuotes ELSE quotes[m]
           order(o) == MakerOrder(m, o, makers[o], ts)
<1>1. \A o \in Asked(makers) :
        order(o) # NoOrder /\ order(o).market = m /\ order(o).outcome = o
  BY MakerOrderType DEF Asked, Batch, TypeOK
<1>2. resting' = kept \cup {order(o) : o \in Asked(makers)}
  BY DEF Execute
<1>3. /\ \A x \in Markets \ {m} : quotes'[x] = quotes[x]
      /\ \A o \in Outcomes : quotes'[m][o] = IF makers[o] = NoOrder THEN tracked[o] ELSE order(o)
  BY DEF Execute, TypeOK
<1>4. CASE cancel \/ QuotesOf(m) = {}
  <2>1. /\ \A r \in kept : r.market # m /\ r \in resting /\ r.market \in Markets
        /\ \A o \in Outcomes : tracked[o] = NoOrder
        /\ \A r \in resting : r.market # m => r \in kept
    BY <1>4, ExecuteBase DEF Batch, TypeOK, Order, RestingOf
  <2>2. ASSUME NEW r \in resting'
        PROVE  quotes'[r.market][r.outcome] = r
    <3>1. CASE r \in kept
      BY <2>1, <1>3, <3>1 DEF Tracked
    <3>2. CASE \E o \in Asked(makers) : r = order(o)
      BY <1>1, <1>3, <3>2 DEF Asked
    <3> QED
      BY <2>2, <1>2, <3>1, <3>2
  <2>3. ASSUME NEW x \in Markets, NEW o \in Outcomes, quotes'[x][o] # NoOrder
        PROVE  /\ quotes'[x][o] \in resting'
               /\ quotes'[x][o].market = x
               /\ quotes'[x][o].outcome = o
    <3>1. CASE x = m
      BY <1>1, <1>2, <1>3, <2>1, <2>3, <3>1 DEF Asked
    <3>2. CASE x # m
      BY <1>2, <1>3, <2>1, <2>3, <3>2 DEF Tracked
    <3> QED
      BY <3>1, <3>2
  <2> QED
    BY <2>2, <2>3 DEF Tracked
<1>5. CASE ~cancel /\ QuotesOf(m) # {}
  <2>1. Asked(makers) = {}
    BY <1>5 DEF Batch, Asked
  <2>2. resting' = resting
    BY <1>2, <1>5, <2>1
  <2>3. \A x \in Markets, o \in Outcomes : quotes'[x][o] = quotes[x][o]
    BY <1>3, <1>5, <2>1 DEF Asked
  <2>4. \A r \in resting : r.market \in Markets /\ r.outcome \in Outcomes
    BY DEF TypeOK, Order
  <2> QED
    BY <2>2, <2>3, <2>4 DEF Tracked
<1> QED
  BY <1>4, <1>5 DEF Batch

\* Names and sizes of what rests after a batch.
LEMMA ExecuteNames ==
  ASSUME TypeOK, NamesInv, SizesInv, NEW m \in Markets, NEW cancel, NEW makers,
         NEW takers, NEW ts,
         Batch(m, cancel, makers, takers, ts), Execute(m, cancel, makers, takers, ts)
  PROVE  NamesInv' /\ SizesInv'
<1> DEFINE order(o) == MakerOrder(m, o, makers[o], ts)
<1>1. \A o \in Asked(makers) : /\ order(o).batch = batches + 1
                               /\ order(o).size <= MaxOrderSize
                               /\ Id(order(o)) = <<batches + 1, o, "maker">>
  <2>1. SUFFICES ASSUME NEW o \in Asked(makers)
                 PROVE  /\ order(o).batch = batches + 1
                        /\ order(o).size <= MaxOrderSize
                        /\ Id(order(o)) = <<batches + 1, o, "maker">>
    OBVIOUS
  <2>2. o \in Outcomes /\ makers[o] # NoOrder /\ makers[o] \in ClippedTerms
    BY DEF Asked, Batch
  <2>3. makers[o].size <= MaxOrderSize
    BY <2>2 DEF Batch, SizeAsked
  <2> QED
    BY <2>2, <2>3, MakerOrderType DEF Batch, TypeOK
<1>2. \A r \in resting' : r \in resting \/ \E o \in Asked(makers) : r = order(o)
  BY DEF Execute
<1>3. batches' = (IF Asked(makers) \cup Asked(takers) = {} THEN batches ELSE batches + 1)
  BY DEF Execute
<1>4. \A r \in resting : r.batch \in Nat /\ r.batch <= batches
  BY DEF NamesInv, TypeOK, Order
<1>5. \A r \in resting' : r.batch <= batches' /\ r.size <= MaxOrderSize
  BY <1>1, <1>2, <1>3, <1>4 DEF SizesInv, TypeOK
<1>6. ASSUME NEW r \in resting', NEW s \in resting', Id(r) = Id(s)
      PROVE  r = s
  <2>1. r.batch = s.batch
    BY <1>6 DEF Id
  <2>2. CASE r \in resting /\ s \in resting
    BY <1>6, <2>2 DEF NamesInv
  <2>3. CASE r \notin resting \/ s \notin resting
    <3>1. (r \in resting => r.batch < batches + 1) /\ (s \in resting => s.batch < batches + 1)
      BY <1>4 DEF TypeOK
    <3>2. r.batch = batches + 1 /\ s.batch = batches + 1
      BY <1>1, <1>2, <2>1, <2>3
    <3>3. r \notin resting /\ s \notin resting
      BY <3>1, <3>2 DEF TypeOK
    <3>4. PICK o \in Asked(makers) : r = order(o)
      BY <1>2, <3>3
    <3>5. PICK p \in Asked(makers) : s = order(p)
      BY <1>2, <3>3
    <3>6. o = p
      BY <1>1, <1>6, <3>4, <3>5
    <3> QED
      BY <3>4, <3>5, <3>6
  <2> QED
    BY <2>2, <2>3
<1> QED
  BY <1>5, <1>6 DEF NamesInv, SizesInv

\* The history after a batch.
LEMMA ExecuteHistory ==
  ASSUME TypeOK, HistoryInv, NEW m \in Markets, NEW cancel, NEW makers,
         NEW takers, NEW ts,
         Batch(m, cancel, makers, takers, ts), Execute(m, cancel, makers, takers, ts)
  PROVE  HistoryInv'
<1> DEFINE order(o) == MakerOrder(m, o, makers[o], ts)
           taken(o) == [id |-> <<batches + 1, o, "taker">>, market |-> m, size |-> takers[o].size]
<1>1. \A o \in Asked(makers) : Id(order(o)) = <<batches + 1, o, "maker">>
  BY MakerOrderType DEF Asked, Batch, TypeOK
<1>2. \A r \in resting' : r \in resting \/ \E o \in Asked(makers) : r = order(o)
  BY DEF Execute
<1>3. \A f \in fills' : f \in fills \/ \E o \in Asked(takers) : f = taken(o)
  BY DEF Execute
<1>4. accepted' = accepted \cup {Id(r) : r \in {order(o) : o \in Asked(makers)}}
                          \cup {f.id : f \in {taken(o) : o \in Asked(takers)}}
  BY DEF Execute
<1>5. /\ accepted \subseteq accepted'
      /\ \A o \in Asked(makers) : Id(order(o)) \in accepted'
      /\ \A o \in Asked(takers) : taken(o).id \in accepted'
  <2>1. ASSUME NEW o \in Asked(makers)
        PROVE  Id(order(o)) \in accepted'
    <3>1. order(o) \in {order(p) : p \in Asked(makers)}
      OBVIOUS
    <3> HIDE DEF order
    <3> QED
      BY <1>4, <3>1
  <2>2. ASSUME NEW o \in Asked(takers)
        PROVE  taken(o).id \in accepted'
    <3>1. taken(o) \in {taken(p) : p \in Asked(takers)}
      OBVIOUS
    <3> HIDE DEF taken
    <3> QED
      BY <1>4, <3>1
  <2> QED
    BY <1>4, <2>1, <2>2
<1>6. ASSUME NEW id \in accepted', id \notin accepted
      PROVE  id[1] = batches + 1 /\ Asked(makers) \cup Asked(takers) # {}
  <2>1. \/ \E o \in Asked(makers) : id = Id(order(o))
        \/ \E o \in Asked(takers) : id = taken(o).id
    BY <1>4, <1>6
  <2> QED
    BY <1>1, <2>1
<1>7. /\ batches \in Nat /\ batches' \in Nat /\ batches <= batches'
      /\ Asked(makers) \cup Asked(takers) # {} => batches' = batches + 1
  BY DEF Execute, TypeOK
<1>8. /\ \A r \in resting : Id(r)[1] <= batches
      /\ \A f \in fills : f.id[1] <= batches
      /\ \A id \in accepted : id[1] \in Nat
  BY DEF HistoryInv, TypeOK, OrderIds
<1>9. \A r \in resting' : Id(r) \in accepted'
  BY <1>2, <1>5 DEF HistoryInv
<1>10. \A f \in fills' : f.id \in accepted'
  BY <1>3, <1>5 DEF HistoryInv
<1>11. ASSUME NEW id \in accepted'
      PROVE  id[1] <= batches'
  <2>1. CASE id \in accepted
    BY <1>7, <1>8, <2>1 DEF HistoryInv, TypeOK
  <2>2. CASE id \notin accepted
    BY <1>7, <1>6, <2>2
  <2> QED
    BY <2>1, <2>2
<1>12. ASSUME NEW r \in resting', NEW f \in fills'
       PROVE  f.id # Id(r)
  <2>1. CASE r \in resting /\ f \in fills
    BY <2>1 DEF HistoryInv
  <2>2. CASE r \in resting /\ f \notin fills
    BY <1>3, <1>7, <1>8, <2>2
  <2>3. CASE r \notin resting /\ f \in fills
    BY <1>1, <1>2, <1>7, <1>8, <2>3
  <2>4. CASE r \notin resting /\ f \notin fills
    BY <1>1, <1>2, <1>3, <2>4
  <2> QED
    BY <2>1, <2>2, <2>3, <2>4
<1> QED
  BY <1>9, <1>10, <1>11, <1>12 DEF HistoryInv

\* Four orders of at most S each, every one within M on top of a position p, and p
\* itself no further above M than the orders that could have put it there.
LEMMA FourOrders ==
  ASSUME NEW p \in Nat, NEW M \in Nat, NEW S \in Nat, NEW t \in BOOLEAN,
         NEW a \in Nat, NEW b \in Nat, NEW u \in Nat, NEW d \in Nat,
         a <= S, b <= S, u <= S, d <= S,
         p <= M + (IF t THEN 3 ELSE 1) * S,
         a > 0 => t /\ p + a <= M, b > 0 => t /\ p + b <= M,
         u > 0 => p + u <= M, d > 0 => p + d <= M
  PROVE  p + (a + b) + (u + d) <= M + (IF t THEN 3 ELSE 1) * S
<1>1. CASE t
  BY <1>1
<1>2. CASE ~t
  BY <1>2
<1> QED
  BY <1>1, <1>2

\* What a market holds and could still be filled for, after a batch: its orders
\* were projected one by one, so all but one of them may exceed the limit.
LEMMA ExecuteExposure ==
  ASSUME TypeOK, Tracked, SizesInv, ExposureBound, NEW m \in Markets, NEW cancel,
         NEW makers, NEW takers, NEW ts,
         Batch(m, cancel, makers, takers, ts), Execute(m, cancel, makers, takers, ts)
  PROVE  ExposureBound'
<1> DEFINE up == SizeAsked(makers, "up")
           down == SizeAsked(makers, "down")
           bought == SizeAsked(takers, "up") + SizeAsked(takers, "down")
<1>1. /\ "up" \in Outcomes /\ "down" \in Outcomes
      /\ MaxOrderSize \in Nat /\ MaxPositionPerMarket \in Nat
      /\ positions \in [Markets -> Nat]
  BY EngineAssumption DEF Outcomes, TypeOK
<1>2. \A o \in Outcomes : /\ SizeAsked(makers, o) \in Nat /\ SizeAsked(takers, o) \in Nat
                          /\ SizeAsked(makers, o) <= MaxOrderSize
                          /\ SizeAsked(takers, o) <= MaxOrderSize
                          /\ SizeAsked(takers, o) > 0 =>
                               /\ EnableTakers
                               /\ positions[m] + SizeAsked(takers, o) <= MaxPositionPerMarket
                          /\ SizeAsked(makers, o) > 0 =>
                               positions[m] + SizeAsked(makers, o) <= MaxPositionPerMarket
  BY <1>1 DEF Batch, SizeAsked, ClippedTerms
<1>3. /\ positions'[m] = positions[m] + bought
      /\ \A x \in Markets \ {m} : positions'[x] = positions[x] /\ quotes'[x] = quotes[x]
  BY DEF Execute, TypeOK
<1>4. \A x \in Markets, o \in Outcomes :
        SizeAsked(quotes[x], o) \in Nat /\ SizeAsked(quotes[x], o) <= MaxOrderSize
  BY <1>1 DEF SizeAsked, Tracked, SizesInv, TypeOK, Order
<1>5. ASSUME NEW x \in Markets \ {m}
      PROVE  positions'[x] + RestingSize(x)'
               <= MaxPositionPerMarket + (IF EnableTakers THEN 3 ELSE 1) * MaxOrderSize
  BY <1>3 DEF ExposureBound, RestingSize, SizeAsked
<1>6. positions[m] + RestingSize(m)
        <= MaxPositionPerMarket + (IF EnableTakers THEN 3 ELSE 1) * MaxOrderSize
  BY DEF ExposureBound
<1>7. CASE cancel \/ QuotesOf(m) = {}
  <2>1. \A o \in Outcomes : SizeAsked(quotes'[m], o) = SizeAsked(makers, o)
    <3>1. \A o \in Outcomes : makers[o] # NoOrder =>
            MakerOrder(m, o, makers[o], ts) # NoOrder
              /\ MakerOrder(m, o, makers[o], ts).size = makers[o].size
      BY MakerOrderType DEF Batch, TypeOK, Asked
    <3>2. \A o \in Outcomes : quotes'[m][o] =
            IF makers[o] = NoOrder THEN NoOrder ELSE MakerOrder(m, o, makers[o], ts)
      BY <1>7, ExecuteBase DEF Execute, Batch, TypeOK
    <3> QED
      BY <3>1, <3>2 DEF SizeAsked
  <2>2. RestingSize(m)' = up + down
    BY <1>1, <2>1 DEF RestingSize, SizeAsked
  <2>3. positions[m] \in Nat /\ RestingSize(m) \in Nat
    BY <1>1, <1>4 DEF RestingSize
  <2>4. positions[m] <= MaxPositionPerMarket + (IF EnableTakers THEN 3 ELSE 1) * MaxOrderSize
    BY <1>1, <1>6, <2>3
  <2>5. positions[m] + bought + (up + down)
          <= MaxPositionPerMarket + (IF EnableTakers THEN 3 ELSE 1) * MaxOrderSize
    BY <1>1, <1>2, <2>3, <2>4, FourOrders, EngineAssumption
  <2> QED
    BY <1>1, <1>2, <1>3, <1>5, <2>2, <2>5 DEF ExposureBound
<1>8. CASE ~cancel /\ QuotesOf(m) # {}
  <2>1. \A o \in Outcomes : makers[o] = NoOrder
    BY <1>8 DEF Batch
  <2>2. \A o \in Outcomes : quotes'[m][o] = quotes[m][o]
    BY <1>8, <2>1 DEF Execute, TypeOK
  <2>3. RestingSize(m)' = RestingSize(m)
    BY <1>1, <2>2 DEF RestingSize, SizeAsked
  <2>4. CASE bought = 0
    BY <1>1, <1>2, <1>3, <1>4, <1>5, <1>6, <2>3, <2>4 DEF ExposureBound, RestingSize
  <2>5. CASE bought # 0
    <3>1. EnableTakers /\ positions[m] + bought <= MaxPositionPerMarket + MaxOrderSize
      BY <1>1, <1>2, <2>5
    <3>2. RestingSize(m) \in Nat /\ RestingSize(m) <= 2 * MaxOrderSize
      BY <1>1, <1>4 DEF RestingSize
    <3>3. positions'[m] + RestingSize(m)'
            <= MaxPositionPerMarket + (IF EnableTakers THEN 3 ELSE 1) * MaxOrderSize
      BY <1>1, <1>2, <1>3, <2>3, <3>1, <3>2
    <3> QED
      BY <1>5, <3>3 DEF ExposureBound
  <2> QED
    BY <2>4, <2>5
<1> QED
  BY <1>7, <1>8 DEF Batch

\* Every batch preserves the invariant.
LEMMA ExecuteIInv ==
  ASSUME IInv, NEW m \in Markets, NEW cancel, NEW makers, NEW takers, NEW ts,
         Batch(m, cancel, makers, takers, ts), Execute(m, cancel, makers, takers, ts),
         now' \in Nat, settled' \subseteq Markets
  PROVE  IInv'
<1>1. TypeOK /\ Tracked
  BY TrackedOrderByOrder DEF IInv
<1>2. TypeOK'
  BY <1>1, ExecuteType
<1>3. Tracked'
  BY <1>1, ExecuteTracked
<1>4. (TypeOK => (TrackedIffResting <=> Tracked))'
  BY TrackedOrderByOrder, PTL
<1>5. NamesInv' /\ SizesInv'
  BY <1>1, ExecuteNames DEF IInv
<1>6. HistoryInv'
  BY <1>1, ExecuteHistory DEF IInv
<1>7. ExposureBound'
  BY <1>1, ExecuteExposure DEF IInv
<1> QED
  BY <1>2, <1>3, <1>4, <1>5, <1>6, <1>7 DEF IInv

\* What evaluate_once hands to the execution client is such a batch.
LEMMA EvaluateBatch ==
  ASSUME TypeOK, NEW m \in Markets, NEW feedsOk \in BOOLEAN, NEW makers \in Wanted,
         NEW takers \in WantedTakers, NEW ts \in Nat, batches < MaxBatches
  PROVE  LET allowed == Allowed(m, feedsOk)
             makersOk == Filtered(m, makers)
         IN Batch(m, Cancels(m, allowed, makersOk),
                  IF Places(m, allowed, makersOk) THEN makersOk ELSE NoQuotes,
                  IF allowed THEN Filtered(m, takers) ELSE NoQuotes, ts)
<1> DEFINE allowed == Allowed(m, feedsOk)
           makersOk == Filtered(m, makers)
           takersOk == Filtered(m, takers)
           placed == IF Places(m, allowed, makersOk) THEN makersOk ELSE NoQuotes
           bought == IF allowed THEN takersOk ELSE NoQuotes
<1>1. takers \in Wanted /\ (\A o \in Outcomes : takers[o] # NoOrder => EnableTakers)
  <2>1. CASE EnableTakers
    BY <2>1 DEF WantedTakers, Wanted
  <2>2. CASE ~EnableTakers
    BY <2>2 DEF WantedTakers, Wanted, NoQuotes
  <2> QED
    BY <2>1, <2>2
<1>2. /\ makersOk \in [Outcomes -> ClippedTerms \cup {NoOrder}]
      /\ takersOk \in [Outcomes -> ClippedTerms \cup {NoOrder}]
      /\ \A o \in Outcomes : makersOk[o] # NoOrder =>
           /\ makersOk[o].size <= MaxOrderSize
           /\ positions[m] + makersOk[o].size <= MaxPositionPerMarket
      /\ \A o \in Outcomes : takersOk[o] # NoOrder =>
           /\ takersOk[o].size <= MaxOrderSize
           /\ positions[m] + takersOk[o].size <= MaxPositionPerMarket
  BY <1>1, FilteredType
<1>3. \A o \in Outcomes : takersOk[o] # NoOrder => EnableTakers
  BY <1>1 DEF Filtered
<1>4. NoQuotes \in [Outcomes -> ClippedTerms \cup {NoOrder}] /\ \A o \in Outcomes : NoQuotes[o] = NoOrder
  BY DEF NoQuotes
<1>5. Cancels(m, allowed, makersOk) \in BOOLEAN
  BY DEF Cancels
<1>6. Places(m, allowed, makersOk) => Cancels(m, allowed, makersOk) \/ QuotesOf(m) = {}
  BY DEF Places, Cancels
<1>7. /\ placed \in [Outcomes -> ClippedTerms \cup {NoOrder}]
      /\ bought \in [Outcomes -> ClippedTerms \cup {NoOrder}]
  BY <1>2, <1>4
<1>8. \A o \in Outcomes : placed[o] # NoOrder =>
        /\ Cancels(m, allowed, makersOk) \/ QuotesOf(m) = {}
        /\ placed[o].size <= MaxOrderSize
        /\ positions[m] + placed[o].size <= MaxPositionPerMarket
  BY <1>2, <1>4, <1>6
<1>9. \A o \in Outcomes : bought[o] # NoOrder =>
        /\ EnableTakers
        /\ bought[o].size <= MaxOrderSize
        /\ positions[m] + bought[o].size <= MaxPositionPerMarket
  BY <1>2, <1>3, <1>4
<1> HIDE DEF allowed, makersOk, takersOk, placed, bought
<1>10. Batch(m, Cancels(m, allowed, makersOk), placed, bought, ts)
  BY <1>5, <1>7, <1>8, <1>9, EngineAssumption DEF Batch, SizeAsked
<1> QED
  BY <1>10 DEF allowed, makersOk, takersOk, placed, bought

----------------------------------------------------------------------------
(* Fills and settlements preserve the invariant *)

\* A fill takes one tracked order out of the client and the order manager, and
\* moves its size from what could be filled to the position.
LEMMA PaperFillIInv ==
  ASSUME IInv, NEW m \in Markets, NEW o \in Outcomes, NEW ask, PaperFill(m, o, ask)
  PROVE  IInv'
<1> PICK r \in Fillable(m, o, ask) :
    /\ resting' = resting \ {r}
    /\ quotes' = [x \in Markets |-> [y \in Outcomes |->
                    IF quotes[x][y] # NoOrder /\ Id(quotes[x][y]) = Id(r)
                    THEN NoOrder ELSE quotes[x][y]]]
    /\ openOrderCount' = OpenCount(quotes')
    /\ positions' = [positions EXCEPT ![m] = @ + r.size]
    /\ totalPosition' = totalPosition + r.size
    /\ fills' = fills \cup {[id |-> Id(r), market |-> m, size |-> r.size]}
    /\ UNCHANGED <<now, batches, settled, accepted>>
  BY DEF PaperFill
<1>1. TypeOK /\ Tracked
  BY TrackedOrderByOrder DEF IInv
<1>2. r \in resting /\ r.market = m /\ r.outcome = o /\ r # NoOrder /\ r \in Order
      /\ r.size \in Nat /\ Id(r) \in OrderIds
  BY <1>1, NoOrderAssumption DEF Fillable, TypeOK, Order, Id, OrderIds, Kinds
<1>3. quotes[m][o] = r
  BY <1>1, <1>2 DEF Tracked
<1>4. \A x \in Markets, y \in Outcomes :
        quotes'[x][y] = IF x = m /\ y = o THEN NoOrder ELSE quotes[x][y]
  <2>1. \A x \in Markets, y \in Outcomes :
          quotes[x][y] # NoOrder /\ Id(quotes[x][y]) = Id(r) => x = m /\ y = o
    BY <1>1, <1>2 DEF IInv, NamesInv, Tracked
  <2> QED
    BY <1>2, <1>3, <2>1
<1>5. TypeOK'
  <2>1. quotes' \in [Markets -> [Outcomes -> Order \cup {NoOrder}]]
    BY <1>1 DEF TypeOK
  <2>2. openOrderCount' \in Nat
    BY OpenCountType
  <2> QED
    BY <1>1, <1>2, <2>1, <2>2 DEF TypeOK
<1>6. Tracked'
  <2>1. \A s \in resting : s # r => s.market # m \/ s.outcome # o
    BY <1>1, <1>3 DEF Tracked
  <2>2. \A s \in resting : s.market \in Markets /\ s.outcome \in Outcomes
    BY <1>1 DEF TypeOK, Order
  <2>3. \A x \in Markets, y \in Outcomes :
          quotes[x][y] = r /\ r # NoOrder => x = m /\ y = o
    BY <1>1, <1>2 DEF Tracked
  <2> QED
    BY <1>1, <1>2, <1>4, <2>1, <2>2, <2>3 DEF Tracked
<1>7. (TypeOK => (TrackedIffResting <=> Tracked))'
  BY TrackedOrderByOrder, PTL
<1>8. NamesInv' /\ SizesInv'
  BY DEF IInv, NamesInv, SizesInv
<1>9. HistoryInv'
  BY <1>2 DEF IInv, HistoryInv, NamesInv
<1>10. ExposureBound'
  <2>1. \A x \in Markets, y \in Outcomes : SizeAsked(quotes[x], y) \in Nat
    BY <1>1 DEF SizeAsked, TypeOK, Order
  <2>2. \A x \in Markets \ {m} : positions'[x] = positions[x] /\ RestingSize(x)' = RestingSize(x)
    BY <1>1, <1>4 DEF TypeOK, RestingSize, SizeAsked, Outcomes
  <2>3. positions'[m] = positions[m] + r.size
    BY <1>1 DEF TypeOK
  <2>4. RestingSize(m)' + r.size = RestingSize(m)
    BY <1>2, <1>3, <1>4, <2>1 DEF RestingSize, SizeAsked, Outcomes
  <2>5. RestingSize(m)' \in Nat
    BY <1>4, <2>1 DEF RestingSize, SizeAsked, Outcomes
  <2>6. positions'[m] + RestingSize(m)' = positions[m] + RestingSize(m)
    BY <1>1, <1>2, <2>3, <2>4, <2>5 DEF TypeOK
  <2> QED
    BY <2>2, <2>6 DEF IInv, ExposureBound
<1> QED
  BY <1>5, <1>6, <1>7, <1>8, <1>9, <1>10 DEF IInv

\* A settlement empties its market and leaves the others alone.
LEMMA SettleIInv ==
  ASSUME IInv, NEW m \in Markets, Settle(m)
  PROVE  IInv'
<1>1. TypeOK /\ Tracked
  BY TrackedOrderByOrder DEF IInv
<1>2. /\ resting' = resting \ RestingOf(m)
      /\ \A o \in Outcomes : quotes'[m][o] = NoOrder
      /\ \A x \in Markets \ {m} : quotes'[x] = quotes[x] /\ positions'[x] = positions[x]
      /\ positions'[m] = 0
      /\ UNCHANGED <<now, batches, accepted, fills>>
  BY <1>1 DEF Settle, TypeOK, NoQuotes
<1>3. TypeOK'
  <2>1. quotes' \in [Markets -> [Outcomes -> Order \cup {NoOrder}]]
    BY <1>1 DEF Settle, TypeOK, NoQuotes
  <2>2. openOrderCount' \in Nat
    BY OpenCountType DEF Settle
  <2>3. positions' \in [Markets -> Nat] /\ totalPosition' \in Nat
    BY <1>1 DEF Settle, TypeOK
  <2> QED
    BY <1>1, <1>2, <2>1, <2>2, <2>3 DEF TypeOK, Settle
<1>4. Tracked'
  <2>1. \A r \in resting' : r.market \in Markets \ {m} /\ r \in resting
    BY <1>1, <1>2 DEF RestingOf, TypeOK, Order
  <2>2. \A r \in resting : r.market # m => r \in resting'
    BY <1>2 DEF RestingOf
  <2> QED
    BY <1>1, <1>2, <2>1, <2>2 DEF Tracked
<1>5. (TypeOK => (TrackedIffResting <=> Tracked))'
  BY TrackedOrderByOrder, PTL
<1>6. NamesInv' /\ SizesInv' /\ HistoryInv'
  BY <1>2 DEF IInv, NamesInv, SizesInv, HistoryInv
<1>7. ExposureBound'
  <2>1. RestingSize(m)' = 0
    BY <1>2 DEF RestingSize, SizeAsked, Outcomes
  <2>2. 0 <= MaxPositionPerMarket + (IF EnableTakers THEN 3 ELSE 1) * MaxOrderSize
    BY EngineAssumption
  <2>3. \A x \in Markets \ {m} : positions'[x] = positions[x] /\ RestingSize(x)' = RestingSize(x)
    BY <1>2 DEF RestingSize, SizeAsked
  <2> QED
    BY <1>2, <2>1, <2>2, <2>3 DEF IInv, ExposureBound
<1> QED
  BY <1>3, <1>4, <1>5, <1>6, <1>7 DEF IInv

----------------------------------------------------------------------------
(* The theorems *)

\* The empty engine satisfies the invariant.
LEMMA InitIInv == Init => IInv
<1> SUFFICES ASSUME Init PROVE IInv
  OBVIOUS
<1>1. TypeOK
  BY EngineAssumption DEF Init, TypeOK, NoQuotes
<1>2. \A m \in Markets, o \in Outcomes : quotes[m][o] = NoOrder /\ positions[m] = 0
  BY DEF Init, NoQuotes
<1>3. Tracked /\ NamesInv /\ SizesInv /\ HistoryInv
  BY <1>2 DEF Init, Tracked, NamesInv, SizesInv, HistoryInv
<1>4. ExposureBound
  BY <1>2, EngineAssumption DEF ExposureBound, RestingSize, SizeAsked, Outcomes
<1> QED
  BY <1>1, <1>3, <1>4, TrackedOrderByOrder DEF IInv

\* Every step keeps the invariant.
LEMMA NextIInv == IInv /\ [Next]_vars => IInv'
<1> SUFFICES ASSUME IInv, [Next]_vars PROVE IInv'
  OBVIOUS
<1> USE DEF IInv
<1>1. CASE Tick
  BY <1>1 DEF Tick, TypeOK, TrackedIffResting, QuotesOf, NamesInv, SizesInv, HistoryInv,
              ExposureBound, RestingSize, SizeAsked
<1>2. ASSUME NEW m \in Markets, NEW feedsOk \in BOOLEAN, NEW makers \in Wanted,
             NEW takers \in WantedTakers, NEW delay \in 0..MaxApplyDelay,
             Evaluate(m, feedsOk, makers, takers, delay)
      PROVE  IInv'
  <2>1. now + delay \in Nat
    BY EngineAssumption DEF TypeOK
  <2>2. now' \in Nat /\ settled' \subseteq Markets /\ batches < MaxBatches
    BY <1>2, <2>1 DEF Evaluate, TypeOK
  <2>3. LET allowed == Allowed(m, feedsOk)
            makersOk == Filtered(m, makers)
            placed == IF Places(m, allowed, makersOk) THEN makersOk ELSE NoQuotes
            bought == IF allowed THEN Filtered(m, takers) ELSE NoQuotes
            cancel == Cancels(m, allowed, makersOk)
        IN Batch(m, cancel, placed, bought, now + delay)
             /\ Execute(m, cancel, placed, bought, now + delay)
    BY <1>2, <2>1, <2>2, EvaluateBatch DEF Evaluate
  <2> QED
    BY <2>2, <2>3, ExecuteIInv
<1>3. ASSUME NEW m \in Markets, CancelActive(m)
      PROVE  IInv'
  <2>1. Batch(m, TRUE, NoQuotes, NoQuotes, now)
    BY EngineAssumption DEF Batch, NoQuotes, Asked, SizeAsked, TypeOK
  <2>2. Execute(m, TRUE, NoQuotes, NoQuotes, now) /\ now' \in Nat /\ settled' \subseteq Markets
    BY <1>3 DEF CancelActive, TypeOK
  <2> QED
    BY <2>1, <2>2, ExecuteIInv
<1>4. ASSUME NEW m \in Markets, NEW o \in Outcomes, NEW ask \in Prices, PaperFill(m, o, ask)
      PROVE  IInv'
  BY <1>4, PaperFillIInv
<1>5. ASSUME NEW m \in Markets, Settle(m)
      PROVE  IInv'
  BY <1>5, SettleIInv
<1>6. CASE UNCHANGED vars
  BY <1>6 DEF vars, TypeOK, TrackedIffResting, QuotesOf, NamesInv, SizesInv, HistoryInv,
              ExposureBound, RestingSize, SizeAsked
<1> QED
  BY <1>1, <1>2, <1>3, <1>4, <1>5, <1>6 DEF Next

\* The strengthened invariant holds in every reachable state.
THEOREM Invariance == Spec => []IInv
<1>1. Init => IInv
  BY InitIInv
<1>2. IInv /\ [Next]_vars => IInv'
  BY NextIInv
<1> QED
  BY <1>1, <1>2, PTL DEF Spec

\* The state of the risk manager, the order manager and the execution client keeps
\* its types: in particular the positions never go below zero.
THEOREM TypeCorrect == Spec => []TypeOK
<1>1. IInv => TypeOK
  BY DEF IInv
<1> QED
  BY <1>1, Invariance, PTL

\* OrderManager::open_order_ids is the key set of PaperExecutionClient::resting_orders
\* whatever is evaluated, cancelled, filled or settled.
THEOREM TrackedIsResting == Spec => []TrackedIffResting
<1>1. IInv => TrackedIffResting
  BY DEF IInv
<1> QED
  BY <1>1, Invariance, PTL

\* The bound that RiskManager::filter_decisions does enforce on one market, although
\* it projects each order alone.
THEOREM ExposureIsBounded == Spec => []ExposureBound
<1>1. IInv => ExposureBound
  BY DEF IInv
<1> QED
  BY <1>1, Invariance, PTL

\* What OrderManager::reconcile leaves of a market, in every reachable state and for every
\* answer of the strategy and of the risk manager: only quotes that are wanted and that
\* have not expired.
THEOREM KeepsOnlyWanted == Spec => []ReconcileKeepsOnlyWanted
<1>1. TypeOK => ReconcileKeepsOnlyWanted
  <2> SUFFICES ASSUME TypeOK, NEW m \in Markets, NEW allowed \in BOOLEAN, NEW makers \in Wanted, NEW o \in Outcomes,
                      QuoteAfter(m, allowed, makers, o) # NoOrder
               PROVE  LET q == QuoteAfter(m, allowed, makers, o)
                      IN  /\ allowed /\ makers[o] # NoOrder /\ SameQuote(q, makers[o])
                          /\ q \in resting => ~Expired(q, now)
    BY DEF ReconcileKeepsOnlyWanted
  <2>1. CASE Places(m, allowed, makers) /\ makers[o] # NoOrder
    <3>1. makers[o] \in Terms /\ resting \subseteq Order
      BY <2>1 DEF Wanted, TypeOK
    <3>2. makers[o] \notin Order
      <4>1. \A r \in Order : "batch" \in DOMAIN r
        BY DEF Order
      <4>2. \A t \in Terms : "batch" \notin DOMAIN t
        BY DEF Terms
      <4> QED
        BY <3>1, <4>1, <4>2
    <3> QED
      BY <2>1, <3>1, <3>2 DEF QuoteAfter, Places, SameQuote
  <2>2. CASE ~(Places(m, allowed, makers) /\ makers[o] # NoOrder)
    <3>1. ~Cancels(m, allowed, makers) /\ QuoteAfter(m, allowed, makers, o) = quotes[m][o]
      BY <2>2 DEF QuoteAfter
    <3>2. quotes[m][o] \in QuotesOf(m)
      BY <3>1 DEF QuotesOf
    <3>3. allowed /\ ~NeedsCancel(m, makers)
      BY <3>1, <3>2 DEF Cancels
    <3> QED
      BY <3>1, <3>2, <3>3 DEF NeedsCancel
  <2> QED
    BY <2>1, <2>2
<1> QED
  BY <1>1, TypeCorrect, PTL

----------------------------------------------------------------------------
(* PaperEngine implements OrderLifecycle *)

\* How a step changes what rests, what was filled and what was accepted.
StepFacts ==
  /\ accepted \subseteq accepted' /\ fills \subseteq fills'
  /\ \A r \in resting' : r \in resting \/ Id(r) \notin accepted
  /\ \A f \in fills' : f \in fills \/ f.id \notin accepted
                        \/ \E r \in resting : Id(r) = f.id
  /\ \A id \in accepted' : \/ id \in accepted
                           \/ \E r \in resting' : Id(r) = id
                           \/ \E f \in fills' : f.id = id

\* What a batch may do to orders of any age: place new ones, never touch old ones.
LEMMA ExecuteStepFacts ==
  ASSUME IInv, NEW m \in Markets, NEW cancel, NEW makers, NEW takers, NEW ts,
         Batch(m, cancel, makers, takers, ts), Execute(m, cancel, makers, takers, ts)
  PROVE  StepFacts
<1> DEFINE order(o) == MakerOrder(m, o, makers[o], ts)
           taken(o) == [id |-> <<batches + 1, o, "taker">>, market |-> m, size |-> takers[o].size]
           made == {order(o) : o \in Asked(makers)}
           bought == {taken(o) : o \in Asked(takers)}
<1>1. \A r \in made : Id(r) = <<batches + 1, r.outcome, "maker">>
  BY MakerOrderType DEF Asked, Batch, IInv, TypeOK
<1>2. \A f \in bought : f.id[1] = batches + 1
  OBVIOUS
<1>3. /\ \A r \in resting' : r \in resting \/ r \in made
      /\ made \subseteq resting'
      /\ fills' = fills \cup bought
      /\ accepted' = accepted \cup {Id(r) : r \in made} \cup {f.id : f \in bought}
  BY DEF Execute
<1>4. \A id \in accepted : id[1] # batches + 1
  BY DEF IInv, HistoryInv, TypeOK, OrderIds
<1>5. \A r \in made : Id(r) \notin accepted
  <2>1. \A r \in made : Id(r)[1] = batches + 1
    BY <1>1
  <2> QED
    BY <2>1, <1>4
<1>6. \A f \in bought : f.id \notin accepted
  BY <1>2, <1>4
<1> HIDE DEF made, bought
<1>7. \A r \in resting' : r \in resting \/ Id(r) \notin accepted
  BY <1>3, <1>5
<1>8. \A f \in fills' : f \in fills \/ f.id \notin accepted
  BY <1>3, <1>6
<1>9. \A id \in accepted' : \/ id \in accepted
                            \/ \E r \in resting' : Id(r) = id
                            \/ \E f \in fills' : f.id = id
  BY <1>3
<1>10. accepted \subseteq accepted' /\ fills \subseteq fills'
  BY <1>3
<1>11. \A f \in fills' : \/ f \in fills \/ f.id \notin accepted
                         \/ \E r \in resting : Id(r) = f.id
  BY <1>8
<1> QED
  BY <1>7, <1>9, <1>10, <1>11 DEF StepFacts

\* Every step of the engine treats orders so.
LEMMA NextStepFacts == IInv /\ [Next]_vars => StepFacts
<1> SUFFICES ASSUME IInv, [Next]_vars PROVE StepFacts
  OBVIOUS
<1>1. CASE Tick \/ UNCHANGED vars
  BY <1>1 DEF Tick, vars, StepFacts
<1>2. ASSUME NEW m \in Markets, NEW feedsOk \in BOOLEAN, NEW makers \in Wanted,
             NEW takers \in WantedTakers, NEW delay \in 0..MaxApplyDelay,
             Evaluate(m, feedsOk, makers, takers, delay)
      PROVE  StepFacts
  <2>1. now + delay \in Nat /\ batches < MaxBatches /\ TypeOK
    BY <1>2, EngineAssumption DEF Evaluate, IInv, TypeOK
  <2>2. LET allowed == Allowed(m, feedsOk)
            makersOk == Filtered(m, makers)
            placed == IF Places(m, allowed, makersOk) THEN makersOk ELSE NoQuotes
            bought == IF allowed THEN Filtered(m, takers) ELSE NoQuotes
            cancel == Cancels(m, allowed, makersOk)
        IN Batch(m, cancel, placed, bought, now + delay)
             /\ Execute(m, cancel, placed, bought, now + delay)
    BY <1>2, <2>1, EvaluateBatch DEF Evaluate
  <2> QED
    BY <2>2, ExecuteStepFacts
<1>3. ASSUME NEW m \in Markets, CancelActive(m)
      PROVE  StepFacts
  <2>1. Batch(m, TRUE, NoQuotes, NoQuotes, now)
    BY EngineAssumption DEF Batch, NoQuotes, Asked, SizeAsked, IInv, TypeOK
  <2>2. Execute(m, TRUE, NoQuotes, NoQuotes, now)
    BY <1>3 DEF CancelActive
  <2> QED
    BY <2>1, <2>2, ExecuteStepFacts
<1>4. ASSUME NEW m \in Markets, NEW o \in Outcomes, NEW ask \in Prices, PaperFill(m, o, ask)
      PROVE  StepFacts
  <2>1. PICK r \in resting :
          /\ resting' = resting \ {r}
          /\ fills' = fills \cup {[id |-> Id(r), market |-> m, size |-> r.size]}
          /\ accepted' = accepted
    BY <1>4 DEF PaperFill, Fillable
  <2>2. \A f \in fills' : f \in fills \/ f.id = Id(r)
    BY <2>1
  <2> QED
    BY <2>1, <2>2 DEF StepFacts
<1>5. ASSUME NEW m \in Markets, Settle(m)
      PROVE  StepFacts
  BY <1>5 DEF Settle, StepFacts
<1> QED
  BY <1>1, <1>2, <1>3, <1>4, <1>5 DEF Next

\* One step moves every order along an edge of its life.
LEMMA StepMoves ==
  ASSUME IInv, StepFacts, NEW id \in OrderIds, OrderStatus(id)' # OrderStatus(id)
  PROVE  <<OrderStatus(id), OrderStatus(id)'>> \in Life!Edges
<1>1. /\ \A r \in resting : Id(r) \in accepted
      /\ \A f \in fills : f.id \in accepted
  BY DEF IInv, HistoryInv
<1>2. CASE \E r \in resting : Id(r) = id
  BY <1>1, <1>2 DEF StepFacts, OrderStatus, Life!Edges
<1>3. CASE (~ \E r \in resting : Id(r) = id) /\ id \in accepted
  <2>1. ~ \E r \in resting' : Id(r) = id
    BY <1>3 DEF StepFacts
  <2>2. (\E f \in fills : f.id = id) <=> (\E f \in fills' : f.id = id)
    BY <1>3 DEF StepFacts
  <2> QED
    BY <1>3, <2>1, <2>2 DEF StepFacts, OrderStatus
<1>4. CASE id \notin accepted
  <2>1. OrderStatus(id) = "new"
    BY <1>1, <1>4 DEF OrderStatus
  <2> QED
    BY <1>4, <2>1 DEF StepFacts, OrderStatus, Life!Edges
<1> QED
  BY <1>2, <1>3, <1>4

\* Whatever the interleaving of batches, books, cancels and settlements, an order
\* goes through its life once: accepted, then filled or closed, then untouched.
THEOREM ImplementsLifecycle == Spec => LifeSpec
<1>1. Init => Life!Init
  BY DEF Init, Life!Init, OrderStatus
<1>2. IInv /\ [Next]_vars => [Life!Move]_([id \in OrderIds |-> OrderStatus(id)])
  <2> SUFFICES ASSUME IInv, [Next]_vars
               PROVE  Life!Move
    OBVIOUS
  <2>1. StepFacts
    BY NextStepFacts
  <2>2. \A id \in OrderIds : OrderStatus(id)' \in Life!Status
    BY DEF OrderStatus, Life!Status
  <2>3. \A id \in OrderIds : OrderStatus(id)' # OrderStatus(id) =>
          <<OrderStatus(id), OrderStatus(id)'>> \in Life!Edges
    BY <2>1, StepMoves
  <2> QED
    BY <2>2, <2>3 DEF Life!Move
<1> QED
  BY <1>1, <1>2, Invariance, PTL DEF Spec, LifeSpec, Life!Spec


----------------------------------------------------------------------------
(* Sums.  The library's induction theorems take the formula as a parameter,  *)
(* which the provers cannot instantiate; its theorem about the minimum of a  *)
(* set takes none.                                                           *)

\* A set of natural numbers has a least element.
LEMMA LeastNatural ==
  ASSUME NEW T \in SUBSET Nat, T # {}
  PROVE  \E n \in T : \A m \in T : n <= m
<1>1. IsWellFoundedOn({ss \in Nat \X Nat : ss[1] < ss[2]}, Nat)
  BY NatLessThanWellFounded DEF OpToRel
<1>2. PICK R : R = {ss \in Nat \X Nat : ss[1] < ss[2]}
  OBVIOUS
<1>3. IsWellFoundedOn(R, Nat)
  BY <1>1, <1>2
<1>4. \E x \in T : \A y \in T : ~(<<y, x>> \in R)
  BY <1>3, WFMin
<1>5. \A x, y \in Nat : ~(<<y, x>> \in R) => x <= y
  BY <1>2
<1> QED
  BY <1>4, <1>5

\* A set of subsets of a finite set that holds each one whose proper subsets it holds,
\* holds them all.
LEMMA SubsetInduction ==
  ASSUME NEW S, IsFiniteSet(S), NEW A,
         \A s \in SUBSET S : (\A t \in SUBSET s : t # s => t \in A) => s \in A
  PROVE  \A s \in SUBSET S : s \in A
<1>1. SUFFICES ASSUME NEW s0 \in SUBSET S, s0 \notin A
               PROVE  FALSE
  OBVIOUS
<1>2. \A s \in SUBSET S : IsFiniteSet(s) /\ Cardinality(s) \in Nat
  BY FS_Subset, FS_CardinalityType
<1>3. PICK N : N = {Cardinality(s) : s \in {u \in SUBSET S : u \notin A}}
  OBVIOUS
<1>4. N \subseteq Nat /\ N # {}
  BY <1>1, <1>2, <1>3
<1>5. PICK n \in N : \A m \in N : n <= m
  BY <1>4, LeastNatural
<1>6. PICK s \in SUBSET S : s \notin A /\ n = Cardinality(s)
  BY <1>3
<1>7. ASSUME NEW t \in SUBSET s, t # s
      PROVE  t \in A
  <2>1. Cardinality(t) <= Cardinality(s) /\ Cardinality(t) # Cardinality(s)
    BY <1>2, <1>7, FS_Subset
  <2>2. t \in SUBSET S
    BY <1>7
  <2>3. t \notin A => Cardinality(t) \in N
    BY <1>3, <2>2
  <2>4. t \notin A => n <= Cardinality(t)
    BY <1>5, <2>3
  <2> QED
    BY <1>2, <1>6, <2>1, <2>2, <2>4
<1> QED
  BY <1>6, <1>7

\* the sums of the values of w over the subsets of its domain
IsSum(T, w) ==
  /\ T \in [SUBSET DOMAIN w -> Nat] /\ T[{}] = 0
  /\ \A s \in SUBSET DOMAIN w : \A x \in s : T[s] = w[x] + T[s \ {x}]

Picked(s) == CHOOSE x \in s : TRUE

Recurs(T, w) == T = [s \in SUBSET DOMAIN w |-> IF s = {} THEN 0 ELSE w[Picked(s)] + T[s \ {Picked(s)}]]

\* There is a function as the one by which the library defines a sum.
LEMMA RecursionExists ==
  ASSUME NEW w, IsFiniteSet(DOMAIN w)
  PROVE  \E T : Recurs(T, w)
<1> DEFINE S == DOMAIN w
           UpTo(T, n) == /\ DOMAIN T = SUBSET S /\ T = [s \in SUBSET S |-> T[s]]
                         /\ \A s \in SUBSET S : Cardinality(s) <= n =>
                              T[s] = IF s = {} THEN 0 ELSE w[Picked(s)] + T[s \ {Picked(s)}]
<1>1. \A s \in SUBSET S : IsFiniteSet(s) /\ Cardinality(s) \in Nat /\ Cardinality(s) <= Cardinality(S)
  BY FS_Subset, FS_CardinalityType
<1>2. \A s \in SUBSET S : s # {} => Picked(s) \in s
  BY DEF Picked
<1>3. \A s \in SUBSET S : s # {} => /\ s \ {Picked(s)} \in SUBSET S
                                    /\ Cardinality(s \ {Picked(s)}) = Cardinality(s) - 1
  <2>1. SUFFICES ASSUME NEW s \in SUBSET S, s # {}
                 PROVE  /\ s \ {Picked(s)} \in SUBSET S
                        /\ Cardinality(s \ {Picked(s)}) = Cardinality(s) - 1
    OBVIOUS
  <2>2. IsFiniteSet(s) /\ Picked(s) \in s
    BY <1>1, <1>2, <2>1
  <2> QED
    BY <2>2, FS_RemoveElement
<1>4. \A s \in SUBSET S : Cardinality(s) <= 0 => s = {}
  BY <1>1, FS_EmptySet
<1>5. \E T : UpTo(T, 0)
  <2>1. UpTo([s \in SUBSET S |-> 0], 0)
    BY <1>4
  <2> QED
    BY <2>1
<1>6. ASSUME NEW n \in Nat, NEW T, UpTo(T, n)
      PROVE  \E U : UpTo(U, n + 1)
  <2> DEFINE U == [s \in SUBSET S |-> IF s = {} THEN 0 ELSE w[Picked(s)] + T[s \ {Picked(s)}]]
  <2>1. \A s \in SUBSET S : Cardinality(s) <= n => U[s] = T[s]
    BY <1>6
  <2>2. ASSUME NEW s \in SUBSET S, s # {}, Cardinality(s) <= n + 1
        PROVE  U[s \ {Picked(s)}] = T[s \ {Picked(s)}]
    <3>1. PICK r : r = s \ {Picked(s)}
      OBVIOUS
    <3>2. r \in SUBSET S /\ Cardinality(r) = Cardinality(s) - 1
      BY <1>3, <2>2, <3>1
    <3>3. Cardinality(r) <= n
      BY <1>1, <2>2, <3>2
    <3> HIDE DEF U
    <3> QED
      BY <2>1, <3>1, <3>2, <3>3
  <2>3. UpTo(U, n + 1)
    BY <2>2
  <2> QED
    BY <2>3
<1> HIDE DEF UpTo
<1>7. \A n \in Nat : \E T : UpTo(T, n)
  <2>1. PICK N : N = {n \in Nat : ~\E T : UpTo(T, n)}
    OBVIOUS
  <2>2. SUFFICES ASSUME N # {}
                 PROVE  FALSE
    BY <2>1
  <2>3. PICK n \in N : \A m \in N : n <= m
    BY <2>1, <2>2, LeastNatural
  <2>4. n \in Nat /\ n # 0
    BY <1>5, <2>1
  <2>5. n - 1 \in Nat /\ n - 1 \notin N
    BY <2>1, <2>3, <2>4
  <2>6. \E T : UpTo(T, n - 1)
    BY <2>1, <2>5
  <2>7. (n - 1) + 1 = n
    BY <2>4
  <2>8. \E T : UpTo(T, n)
    BY <1>6, <2>5, <2>6, <2>7
  <2> QED
    BY <2>1, <2>8
<1>8. PICK T : UpTo(T, Cardinality(S))
  BY <1>1, <1>7
<1>9. Recurs(T, w)
  BY <1>1, <1>8 DEF Recurs, UpTo
<1> QED
  BY <1>9

\* A function as that one gives the sums.
LEMMA RecursionSums ==
  ASSUME NEW w, IsFiniteSet(DOMAIN w), w \in [DOMAIN w -> Nat], NEW T, Recurs(T, w)
  PROVE  IsSum(T, w)
<1> DEFINE S == DOMAIN w
<1>1. \A s \in SUBSET S : s # {} => Picked(s) \in s
  BY DEF Picked
<1>2. DOMAIN T = SUBSET S /\ T[{}] = 0
  BY DEF Recurs
<1>3. \A s \in SUBSET S : s # {} => T[s] = w[Picked(s)] + T[s \ {Picked(s)}]
  BY DEF Recurs
<1>4. \A s \in SUBSET S : T[s] \in Nat
  <2>1. PICK A : A = {s \in SUBSET S : T[s] \in Nat}
    OBVIOUS
  <2>2. ASSUME NEW s \in SUBSET S, \A t \in SUBSET s : t # s => t \in A
        PROVE  s \in A
    <3>1. CASE s = {}
      BY <1>2, <2>1, <3>1
    <3>2. CASE s # {}
      <4>1. Picked(s) \in s /\ s \ {Picked(s)} \in SUBSET s /\ s \ {Picked(s)} # s
        BY <1>1, <3>2
      <4>2. T[s \ {Picked(s)}] \in Nat /\ w[Picked(s)] \in Nat
        BY <2>1, <2>2, <4>1
      <4>3. T[s] = w[Picked(s)] + T[s \ {Picked(s)}]
        BY <1>3, <3>2
      <4>4. T[s] \in Nat
        BY <4>2, <4>3
      <4> QED
        BY <2>1, <4>4
    <3> QED
      BY <3>1, <3>2
  <2>3. \A s \in SUBSET S : s \in A
    BY <2>2, SubsetInduction
  <2> QED
    BY <2>1, <2>3
<1>5. \A s \in SUBSET S : \A x \in s : T[s] = w[x] + T[s \ {x}]
  <2>1. PICK A : A = {s \in SUBSET S : \A x \in s : T[s] = w[x] + T[s \ {x}]}
    OBVIOUS
  <2>2. ASSUME NEW s \in SUBSET S, \A t \in SUBSET s : t # s => t \in A
        PROVE  s \in A
    <3>1. SUFFICES ASSUME NEW x \in s
                   PROVE  T[s] = w[x] + T[s \ {x}]
      BY <2>1
    <3>2. PICK c \in s : T[s] = w[c] + T[s \ {c}]
      BY <1>1, <1>3, <3>1
    <3>3. CASE c = x
      BY <3>2, <3>3
    <3>4. CASE c # x
      <4>1. s \ {c} \in A /\ x \in s \ {c} /\ s \ {x} \in A /\ c \in s \ {x}
        BY <2>2, <3>2, <3>1, <3>4
      <4>2. T[s \ {c}] = w[x] + T[(s \ {c}) \ {x}] /\ T[s \ {x}] = w[c] + T[(s \ {x}) \ {c}]
        BY <2>1, <4>1
      <4>3. (s \ {c}) \ {x} = (s \ {x}) \ {c}
        OBVIOUS
      <4>4. PICK r : r = (s \ {x}) \ {c}
        OBVIOUS
      <4>5. T[r] \in Nat /\ w[c] \in Nat /\ w[x] \in Nat
        BY <1>4, <3>1, <3>2, <4>4
      <4>6. T[s \ {c}] = w[x] + T[r] /\ T[s \ {x}] = w[c] + T[r]
        BY <4>2, <4>3, <4>4
      <4> QED
        BY <3>2, <4>5, <4>6
    <3> QED
      BY <3>3, <3>4
  <2>3. \A s \in SUBSET S : s \in A
    BY <2>2, SubsetInduction
  <2> QED
    BY <2>1, <2>3
<1>6. T \in [SUBSET S -> Nat]
  BY <1>4 DEF Recurs
<1> QED
  BY <1>2, <1>5, <1>6 DEF IsSum

\* The library's sum is one of these.
LEMMA SumIs ==
  ASSUME NEW w, IsFiniteSet(DOMAIN w), w \in [DOMAIN w -> Nat]
  PROVE  \E T : IsSum(T, w) /\ SumFunction(w) = T[DOMAIN w]
<1> DEFINE It == CHOOSE T : T = [s \in SUBSET DOMAIN w |->
                   IF s = {} THEN 0
                   ELSE w[CHOOSE x \in s : TRUE] + T[s \ {CHOOSE x \in s : TRUE}]]
<1>1. SumFunction(w) = It[DOMAIN w]
  BY DEF SumFunction, SumFunctionOnSet, FoldFunctionOnSet, MapThenFoldSet
<1>2. Recurs(It, w)
  <2>1. \E T : T = [s \in SUBSET DOMAIN w |->
                   IF s = {} THEN 0
                   ELSE w[CHOOSE x \in s : TRUE] + T[s \ {CHOOSE x \in s : TRUE}]]
    BY RecursionExists DEF Recurs, Picked
  <2> QED
    BY <2>1 DEF Recurs, Picked
<1>3. IsSum(It, w)
  BY <1>2, RecursionSums
<1> QED
  BY <1>1, <1>3

\* Sums over the same values are the same.
LEMMA SameSums ==
  ASSUME NEW v, NEW w, NEW T, NEW U, IsSum(T, v), IsSum(U, w),
         NEW C \in SUBSET DOMAIN v, IsFiniteSet(C), C \subseteq DOMAIN w, \A x \in C : v[x] = w[x]
  PROVE  T[C] = U[C]
<1>1. PICK A : A = {s \in SUBSET C : T[s] = U[s]}
  OBVIOUS
<1>2. ASSUME NEW s \in SUBSET C, \A t \in SUBSET s : t # s => t \in A
      PROVE  s \in A
  <2>1. CASE s = {}
    BY <1>1, <2>1 DEF IsSum
  <2>2. CASE s # {}
    <3>1. PICK x \in s : TRUE
      BY <2>2
    <3>2. s \ {x} \in A
      BY <1>2
    <3>3. T[s] = v[x] + T[s \ {x}] /\ U[s] = w[x] + U[s \ {x}]
      BY DEF IsSum
    <3> QED
      BY <1>1, <3>2, <3>3
  <2> QED
    BY <2>1, <2>2
<1>3. \A s \in SUBSET C : s \in A
  BY <1>2, SubsetInduction
<1> QED
  BY <1>1, <1>3

\* One value is taken out of a sum of natural numbers.
LEMMA SumSplit ==
  ASSUME NEW w, IsFiniteSet(DOMAIN w), w \in [DOMAIN w -> Nat], NEW x \in DOMAIN w
  PROVE  /\ SumFunction(w) = w[x] + SumFunction([y \in DOMAIN w \ {x} |-> w[y]])
         /\ SumFunction([y \in DOMAIN w \ {x} |-> w[y]]) \in Nat
<1>1. PICK v : v = [y \in DOMAIN w \ {x} |-> w[y]]
  OBVIOUS
<1>2. /\ DOMAIN v = DOMAIN w \ {x} /\ v \in [DOMAIN v -> Nat] /\ IsFiniteSet(DOMAIN v)
      /\ \A y \in DOMAIN v : v[y] = w[y]
  BY <1>1, FS_Subset
<1>3. PICK T : IsSum(T, v) /\ SumFunction(v) = T[DOMAIN v]
  BY <1>2, SumIs
<1>4. PICK U : IsSum(U, w) /\ SumFunction(w) = U[DOMAIN w]
  BY SumIs
<1>5. T[DOMAIN v] = U[DOMAIN v]
  BY <1>2, <1>3, <1>4, SameSums
<1>6. U[DOMAIN w] = w[x] + U[DOMAIN v]
  BY <1>2, <1>4 DEF IsSum
<1>7. T[DOMAIN v] \in Nat
  BY <1>3 DEF IsSum
<1> QED
  BY <1>1, <1>3, <1>4, <1>5, <1>6, <1>7

\* A sum of nothing, or of zeros, is zero.
LEMMA SumZero ==
  ASSUME NEW w, IsFiniteSet(DOMAIN w), \A x \in DOMAIN w : w[x] = 0
  PROVE  w \in [DOMAIN w -> Nat] => SumFunction(w) = 0
<1>1. SUFFICES ASSUME w \in [DOMAIN w -> Nat]
               PROVE  SumFunction(w) = 0
  OBVIOUS
<1>2. PICK T : IsSum(T, w) /\ SumFunction(w) = T[DOMAIN w]
  BY <1>1, SumIs
<1>3. PICK A : A = {s \in SUBSET DOMAIN w : T[s] = 0}
  OBVIOUS
<1>4. ASSUME NEW s \in SUBSET DOMAIN w, \A t \in SUBSET s : t # s => t \in A
      PROVE  s \in A
  <2>1. CASE s = {}
    BY <1>2, <1>3, <2>1 DEF IsSum
  <2>2. CASE s # {}
    <3>1. PICK x \in s : TRUE
      BY <2>2
    <3>2. s \ {x} \in A
      BY <1>4
    <3>3. T[s] = w[x] + T[s \ {x}] /\ w[x] = 0
      BY <1>2 DEF IsSum
    <3> QED
      BY <1>3, <3>2, <3>3
  <2> QED
    BY <2>1, <2>2
<1>5. \A s \in SUBSET DOMAIN w : s \in A
  BY <1>4, SubsetInduction
<1> QED
  BY <1>2, <1>3, <1>5

\* A sum of natural numbers is one.
LEMMA SumType ==
  ASSUME NEW w, IsFiniteSet(DOMAIN w), w \in [DOMAIN w -> Nat]
  PROVE  SumFunction(w) \in Nat
<1>1. PICK T : IsSum(T, w) /\ SumFunction(w) = T[DOMAIN w]
  BY SumIs
<1> QED
  BY <1>1 DEF IsSum

\* One value of a sum is changed.
LEMMA SumUpdate ==
  ASSUME NEW D, IsFiniteSet(D), NEW p \in [D -> Nat], NEW q \in [D -> Nat], NEW m \in D,
         \A x \in D \ {m} : q[x] = p[x]
  PROVE  /\ SumFunction(p) \in Nat /\ SumFunction(q) \in Nat /\ p[m] <= SumFunction(p)
         /\ SumFunction(q) + p[m] = SumFunction(p) + q[m]
<1>1. DOMAIN q = D /\ DOMAIN p = D /\ p[m] \in Nat /\ q[m] \in Nat
  OBVIOUS
<1>2. PICK r : r = [y \in D \ {m} |-> p[y]]
  OBVIOUS
<1>3. r = [y \in D \ {m} |-> q[y]]
  BY <1>2
<1>4. SumFunction(p) = p[m] + SumFunction(r) /\ SumFunction(r) \in Nat
  BY <1>1, <1>2, SumSplit
<1>5. SumFunction(q) = q[m] + SumFunction(r)
  BY <1>1, <1>3, SumSplit
<1> QED
  BY <1>1, <1>4, <1>5

\* Sizes add up to a natural number.
LEMMA SizeType ==
  ASSUME NEW F, IsFiniteSet(F), \A g \in F : g.size \in Nat
  PROVE  SizeOf(F) \in Nat
<1>1. PICK w : w = [g \in F |-> g.size]
  OBVIOUS
<1>2. DOMAIN w = F /\ w \in [DOMAIN w -> Nat]
  BY <1>1
<1> QED
  BY <1>1, <1>2, SumType DEF SizeOf

\* One more fill adds its size.
LEMMA SizeAdd ==
  ASSUME NEW F, IsFiniteSet(F), \A g \in F : g.size \in Nat, NEW f, f \notin F, f.size \in Nat
  PROVE  /\ IsFiniteSet(F \cup {f}) /\ (\A g \in F \cup {f} : g.size \in Nat)
         /\ SizeOf(F \cup {f}) = SizeOf(F) + f.size
         /\ SizeOf(F) \in Nat
<1>1. IsFiniteSet(F \cup {f})
  BY FS_AddElement
<1>2. PICK w : w = [g \in F \cup {f} |-> g.size]
  OBVIOUS
<1>3. DOMAIN w = F \cup {f} /\ w \in [DOMAIN w -> Nat] /\ w[f] = f.size /\ f \in DOMAIN w
  BY <1>2
<1>4. [y \in DOMAIN w \ {f} |-> w[y]] = [g \in F |-> g.size]
  BY <1>2, <1>3
<1>5. SumFunction(w) = w[f] + SumFunction([g \in F |-> g.size]) /\ SumFunction([g \in F |-> g.size]) \in Nat
  BY <1>1, <1>3, <1>4, SumSplit
<1> QED
  BY <1>1, <1>2, <1>3, <1>5 DEF SizeOf

----------------------------------------------------------------------------
(* The ledgers *)

FilledIn(m) == {f \in fills : f.market = m}

\* a settled market is over, so nothing is bought in it any more
LedgerInv ==
  /\ LedgersAgree
  /\ IsFiniteSet(fills)
  /\ \A m \in settled : EndTs[m] <= now

\* What was filled in a market is a finite set of sizes.
LEMMA FilledType ==
  ASSUME TypeOK, LedgerInv, NEW m
  PROVE  IsFiniteSet(FilledIn(m)) /\ \A f \in FilledIn(m) : f.size \in Nat
<1>1. IsFiniteSet(FilledIn(m))
  BY FS_Subset DEF FilledIn, LedgerInv
<1> QED
  BY <1>1 DEF FilledIn, TypeOK

\* A step that buys in a market that is not settled, and counts what it buys there and in
\* the total, keeps the ledgers.
LEMMA Buys ==
  ASSUME TypeOK, LedgerInv, NEW m \in Markets \ settled, NEW size \in Nat,
         settled' = settled, now' \in Nat, now <= now', IsFiniteSet(fills'),
         openOrderCount' = OpenCount(quotes'),
         positions' = [positions EXCEPT ![m] = @ + size],
         totalPosition' = totalPosition + size,
         \A x \in Markets \ {m} : FilledIn(x)' = FilledIn(x),
         SizeOf(FilledIn(m)') = SizeOf(FilledIn(m)) + size
  PROVE  LedgerInv'
<1>1. positions \in [Markets -> Nat] /\ now \in Nat /\ totalPosition = SumFunction(positions)
  BY DEF TypeOK, LedgerInv, LedgersAgree
<1>2. PICK v \in Nat : v = positions[m] + size
  BY <1>1
<1>3. /\ positions' = [positions EXCEPT ![m] = v] /\ positions' \in [Markets -> Nat]
      /\ positions'[m] = v /\ \A x \in Markets \ {m} : positions'[x] = positions[x]
  BY <1>1, <1>2
<1>4. /\ SumFunction(positions) \in Nat /\ SumFunction(positions') \in Nat
      /\ SumFunction(positions') + positions[m] = SumFunction(positions) + v
  <2>1. IsFiniteSet(Markets) /\ m \in Markets
    BY EngineAssumption
  <2>2. PICK p, q : p = positions /\ q = positions'
    OBVIOUS
  <2>3. p \in [Markets -> Nat] /\ q \in [Markets -> Nat] /\ \A x \in Markets \ {m} : q[x] = p[x]
    BY <1>1, <1>3, <2>2
  <2>4. /\ SumFunction(p) \in Nat /\ SumFunction(q) \in Nat
        /\ SumFunction(q) + p[m] = SumFunction(p) + q[m]
    BY <2>1, <2>3, SumUpdate
  <2> QED
    BY <1>3, <2>2, <2>4
<1>5. totalPosition' = SumFunction(positions')
  <2>1. positions[m] \in Nat
    BY <1>1
  <2> QED
    BY <1>1, <1>2, <1>4, <2>1
<1>6. \A x \in Markets : positions'[x] = IF x \in settled' THEN 0 ELSE SizeOf(FilledIn(x)')
  <2>1. SUFFICES ASSUME NEW x \in Markets
                 PROVE  positions'[x] = IF x \in settled' THEN 0 ELSE SizeOf(FilledIn(x)')
    OBVIOUS
  <2>2. positions[x] = IF x \in settled THEN 0 ELSE SizeOf(FilledIn(x))
    BY DEF LedgerInv, LedgersAgree, FilledIn
  <2>3. CASE x = m
    BY <1>1, <1>2, <1>3, <2>2, <2>3
  <2>4. CASE x # m
    BY <1>1, <1>3, <2>2, <2>4
  <2> QED
    BY <2>3, <2>4
<1>7. \A x \in settled' : EndTs[x] <= now'
  BY <1>1, EngineAssumption DEF LedgerInv, TypeOK
<1> QED
  BY <1>5, <1>6, <1>7 DEF LedgerInv, LedgersAgree, FilledIn

\* A batch counts each fill once.
LEMMA ExecuteLedger ==
  ASSUME IInv, LedgerInv, NEW m \in Markets \ settled, NEW cancel, NEW makers, NEW takers, NEW ts,
         Batch(m, cancel, makers, takers, ts), Execute(m, cancel, makers, takers, ts),
         settled' = settled, now' \in Nat, now <= now'
  PROVE  LedgerInv'
<1> DEFINE taken(o) == [id |-> <<batches + 1, o, "taker">>, market |-> m, size |-> takers[o].size]
           up == SizeAsked(takers, "up")
           down == SizeAsked(takers, "down")
           F == FilledIn(m)
           U == IF takers["up"] # NoOrder THEN F \cup {taken("up")} ELSE F
           V == IF takers["down"] # NoOrder THEN U \cup {taken("down")} ELSE U
<1>1. TypeOK /\ m \in Markets
  BY DEF IInv
<1>2. \A o \in Outcomes : takers[o] # NoOrder => takers[o].size \in Nat
  BY DEF Batch, ClippedTerms
<1>3. up \in Nat /\ down \in Nat
  BY <1>2 DEF SizeAsked, Outcomes
<1>4. \A o \in Outcomes : taken(o) \notin fills
  <2>1. \A f \in fills : f.id[1] <= batches /\ batches \in Nat
    BY DEF IInv, HistoryInv, TypeOK
  <2>2. \A o \in Outcomes : taken(o).id[1] = batches + 1
    OBVIOUS
  <2> QED
    BY <2>1, <2>2
<1>5. fills' = fills \cup {taken(o) : o \in Asked(takers)}
  BY DEF Execute
<1>6. Asked(takers) = {o \in {"up", "down"} : takers[o] # NoOrder}
  BY DEF Asked, Outcomes
<1>7. FilledIn(m)' = V
  BY <1>5, <1>6 DEF FilledIn
<1>8. \A x \in Markets \ {m} : FilledIn(x)' = FilledIn(x)
  BY <1>5 DEF FilledIn
<1>9. taken("up") # taken("down") /\ taken("up") \notin F /\ taken("down") \notin U
  <2>1. taken("up").id # taken("down").id
    OBVIOUS
  <2>2. taken("up") \notin fills /\ taken("down") \notin fills
    BY <1>4 DEF Outcomes
  <2> QED
    BY <2>1, <2>2 DEF FilledIn
<1>10. /\ IsFiniteSet(U) /\ (\A g \in U : g.size \in Nat)
       /\ SizeOf(U) = SizeOf(F) + up /\ SizeOf(F) \in Nat
  <2>1. IsFiniteSet(F) /\ \A g \in F : g.size \in Nat
    BY <1>1, FilledType
  <2>2. CASE takers["up"] # NoOrder
    <3>1. taken("up").size \in Nat /\ taken("up").size = up
      BY <1>2, <2>2 DEF SizeAsked, Outcomes
    <3>2. PICK f : f = taken("up")
      OBVIOUS
    <3>3. U = F \cup {f} /\ f \notin F /\ f.size \in Nat /\ f.size = up
      BY <1>9, <2>2, <3>1, <3>2
    <3> QED
      BY <2>1, <3>3, SizeAdd
  <2>3. CASE takers["up"] = NoOrder
    <3>1. up = 0 /\ U = F
      BY <2>3 DEF SizeAsked
    <3>2. SizeOf(F) \in Nat
      BY <2>1, SizeType
    <3> QED
      BY <2>1, <3>1, <3>2
  <2> QED
    BY <2>2, <2>3
<1>11. IsFiniteSet(V) /\ SizeOf(V) = SizeOf(U) + down
  <2>1. CASE takers["down"] # NoOrder
    <3>1. taken("down").size \in Nat /\ taken("down").size = down
      BY <1>2, <2>1 DEF SizeAsked, Outcomes
    <3>2. PICK f : f = taken("down")
      OBVIOUS
    <3>3. V = U \cup {f} /\ f \notin U /\ f.size \in Nat /\ f.size = down
      BY <1>9, <2>1, <3>1, <3>2
    <3> QED
      BY <1>10, <3>3, SizeAdd
  <2>2. CASE takers["down"] = NoOrder
    <3>1. down = 0 /\ V = U
      BY <2>2 DEF SizeAsked
    <3>2. SizeOf(U) \in Nat
      BY <1>10, SizeType
    <3> QED
      BY <1>10, <3>1, <3>2
  <2> QED
    BY <2>1, <2>2
<1>12. SizeOf(FilledIn(m)') = SizeOf(FilledIn(m)) + (up + down)
  BY <1>3, <1>7, <1>10, <1>11
<1>13. IsFiniteSet(fills')
  <2>1. IsFiniteSet(fills)
    BY DEF LedgerInv
  <2>2. fills' \subseteq fills \cup V
    BY <1>5, <1>6
  <2> QED
    BY <1>11, <2>1, <2>2, FS_Union, FS_Subset
<1>14. openOrderCount' = OpenCount(quotes')
  <2>1. CASE cancel \/ Asked(makers) \cup Asked(takers) # {}
    BY <2>1 DEF Execute
  <2>2. CASE ~(cancel \/ Asked(makers) \cup Asked(takers) # {})
    <3>1. openOrderCount' = openOrderCount /\ \A o \in Outcomes : makers[o] = NoOrder
      BY <2>2 DEF Execute, Asked
    <3>2. quotes' = [quotes EXCEPT ![m] = [o \in Outcomes |-> quotes[m][o]]]
      BY <2>2, <3>1 DEF Execute
    <3>3. quotes \in [Markets -> [Outcomes -> Order \cup {NoOrder}]]
      BY <1>1 DEF TypeOK
    <3>4. [o \in Outcomes |-> quotes[m][o]] = quotes[m]
      BY <3>3
    <3>5. quotes' = quotes
      BY <3>2, <3>3, <3>4
    <3> QED
      BY <3>1, <3>5 DEF LedgerInv, LedgersAgree
  <2> QED
    BY <2>1, <2>2
<1>15. positions' = [positions EXCEPT ![m] = @ + (up + down)] /\ totalPosition' = totalPosition + (up + down)
  BY <1>1, <1>3 DEF Execute, TypeOK
<1>16. now <= now' /\ up + down \in Nat
  BY <1>3
<1> HIDE DEF up, down
<1> QED
  BY <1>1, <1>8, <1>12, <1>13, <1>14, <1>15, <1>16, Buys

\* A resting order that fills is counted once, and not in a settled market.
LEMMA PaperFillLedger ==
  ASSUME IInv, LedgerInv, NEW m \in Markets, NEW o \in Outcomes, NEW ask, PaperFill(m, o, ask)
  PROVE  LedgerInv'
<1>1. TypeOK
  BY DEF IInv
<1>2. PICK r \in Fillable(m, o, ask) :
        /\ openOrderCount' = OpenCount(quotes')
        /\ positions' = [positions EXCEPT ![m] = @ + r.size]
        /\ totalPosition' = totalPosition + r.size
        /\ fills' = fills \cup {[id |-> Id(r), market |-> m, size |-> r.size]}
        /\ UNCHANGED <<now, settled>>
  BY DEF PaperFill
<1>3. r \in resting /\ r.size \in Nat /\ Active(m, now)
  BY <1>1 DEF Fillable, TypeOK, Order
<1>4. m \in Markets \ settled
  <2>1. now < EndTs[m] /\ now \in Nat /\ EndTs[m] \in Nat
    BY <1>1, <1>3, EngineAssumption DEF Active, TypeOK
  <2> QED
    BY <2>1 DEF LedgerInv
<1>5. PICK f : f = [id |-> Id(r), market |-> m, size |-> r.size]
  OBVIOUS
<1>6. f.id = Id(r) /\ f.market = m /\ f.size = r.size
  BY <1>5
<1>7. f \notin fills
  BY <1>3, <1>6 DEF IInv, HistoryInv
<1>8. fills' = fills \cup {f}
  BY <1>2, <1>5
<1>9. FilledIn(m)' = FilledIn(m) \cup {f} /\ \A x \in Markets \ {m} : FilledIn(x)' = FilledIn(x)
  BY <1>6, <1>8 DEF FilledIn
<1>10. SizeOf(FilledIn(m)') = SizeOf(FilledIn(m)) + r.size
  <2>1. IsFiniteSet(FilledIn(m)) /\ \A g \in FilledIn(m) : g.size \in Nat
    BY <1>1, FilledType
  <2>2. f \notin FilledIn(m) /\ f.size \in Nat
    BY <1>3, <1>6, <1>7 DEF FilledIn
  <2>3. SizeOf(FilledIn(m) \cup {f}) = SizeOf(FilledIn(m)) + f.size
    BY <2>1, <2>2, SizeAdd
  <2> QED
    BY <1>6, <1>9, <2>3
<1>11. IsFiniteSet(fills')
  BY <1>8, FS_AddElement DEF LedgerInv
<1>12. now' \in Nat /\ now <= now' /\ settled' = settled
  BY <1>1, <1>2 DEF TypeOK
<1> QED
  BY <1>1, <1>2, <1>3, <1>4, <1>9, <1>10, <1>11, <1>12, Buys

\* A settlement takes the position of its market out of the total, which is never less.
LEMMA SettleLedger ==
  ASSUME TypeOK, LedgerInv, NEW m \in Markets, Settle(m)
  PROVE  LedgerInv'
<1>1. /\ positions \in [Markets -> Nat] /\ totalPosition = SumFunction(positions)
      /\ positions' = [positions EXCEPT ![m] = 0] /\ UNCHANGED <<now, fills>>
      /\ settled' = settled \cup {m} /\ EndTs[m] <= now /\ openOrderCount' = OpenCount(quotes')
      /\ totalPosition' = IF positions[m] <= totalPosition THEN totalPosition - positions[m] ELSE 0
  BY DEF TypeOK, LedgerInv, LedgersAgree, Settle
<1>2. PICK p, q : p = positions /\ q = positions'
  OBVIOUS
<1>3. /\ p \in [Markets -> Nat] /\ q \in [Markets -> Nat] /\ q[m] = 0
      /\ \A x \in Markets \ {m} : q[x] = p[x]
  BY <1>1, <1>2
<1>4. /\ SumFunction(p) \in Nat /\ SumFunction(q) \in Nat /\ p[m] <= SumFunction(p)
      /\ SumFunction(q) + p[m] = SumFunction(p) + q[m]
  <2>1. IsFiniteSet(Markets)
    BY EngineAssumption
  <2> QED
    BY <1>3, <2>1, SumUpdate
<1>5. totalPosition' = SumFunction(positions')
  <2>1. totalPosition = SumFunction(p) /\ positions[m] = p[m] /\ p[m] \in Nat
    BY <1>1, <1>2, <1>3
  <2>2. totalPosition' = SumFunction(p) - p[m]
    BY <1>1, <1>4, <2>1
  <2> QED
    BY <1>2, <1>3, <1>4, <2>1, <2>2
<1>6. \A x \in Markets : positions'[x] = IF x \in settled' THEN 0 ELSE SizeOf(FilledIn(x)')
  <2>1. \A x \in Markets : positions[x] = IF x \in settled THEN 0 ELSE SizeOf(FilledIn(x))
    BY DEF LedgerInv, LedgersAgree, FilledIn
  <2>2. \A x \in Markets : FilledIn(x)' = FilledIn(x)
    BY <1>1 DEF FilledIn
  <2> QED
    BY <1>1, <2>1, <2>2
<1>7. IsFiniteSet(fills') /\ \A x \in settled' : EndTs[x] <= now'
  BY <1>1 DEF LedgerInv
<1> QED
  BY <1>1, <1>5, <1>6, <1>7 DEF LedgerInv, LedgersAgree, FilledIn

\* Nothing is bought, quoted or settled at first.
LEMMA InitLedger ==
  ASSUME Init
  PROVE  LedgerInv
<1>1. IsFiniteSet(Markets) /\ positions = [m \in Markets |-> 0] /\ fills = {} /\ settled = {}
  BY EngineAssumption DEF Init
<1>2. SumFunction(positions) = 0
  BY <1>1, SumZero
<1>3. \A m \in Markets : SizeOf({f \in fills : f.market = m}) = 0
  <2>1. SUFFICES SizeOf({}) = 0
    BY <1>1
  <2>2. PICK w : w = [f \in {} |-> f.size]
    OBVIOUS
  <2>3. DOMAIN w = {} /\ w \in [DOMAIN w -> Nat]
    BY <2>2
  <2>4. IsFiniteSet(DOMAIN w) /\ \A x \in DOMAIN w : w[x] = 0
    BY <2>3, FS_EmptySet
  <2> QED
    BY <2>2, <2>3, <2>4, SumZero DEF SizeOf
<1>4. OpenCount(quotes) = 0
  <2>1. {k \in Markets \X Outcomes : quotes[k[1]][k[2]] # NoOrder} = {}
    BY DEF Init, NoQuotes
  <2> QED
    BY <2>1, FS_EmptySet DEF OpenCount
<1>5. IsFiniteSet(fills)
  BY <1>1, FS_EmptySet
<1> QED
  BY <1>1, <1>2, <1>3, <1>4, <1>5 DEF LedgerInv, LedgersAgree, Init

\* Every step keeps the ledgers.
LEMMA NextLedger == IInv /\ LedgerInv /\ [Next]_vars => LedgerInv'
<1> SUFFICES ASSUME IInv, LedgerInv, [Next]_vars PROVE LedgerInv'
  OBVIOUS
<1>1. TypeOK
  BY DEF IInv
<1>2. CASE Tick \/ UNCHANGED vars
  <2>1. /\ UNCHANGED <<quotes, positions, totalPosition, openOrderCount, settled, fills>>
        /\ now' = now \/ now' = now + 1
    BY <1>2 DEF Tick, vars
  <2>2. \A m \in settled : EndTs[m] <= now'
    BY <1>1, <2>1, EngineAssumption DEF LedgerInv, TypeOK
  <2>3. LedgersAgree'
    BY <2>1 DEF LedgerInv, LedgersAgree, OpenCount
  <2> QED
    BY <2>1, <2>2, <2>3 DEF LedgerInv
<1>3. ASSUME NEW m \in Markets, NEW feedsOk \in BOOLEAN, NEW makers \in Wanted,
             NEW takers \in WantedTakers, NEW delay \in 0..MaxApplyDelay,
             Evaluate(m, feedsOk, makers, takers, delay)
      PROVE  LedgerInv'
  <2>1. now + delay \in Nat /\ now <= now + delay
    BY <1>1, EngineAssumption DEF TypeOK
  <2>2. now' = now + delay /\ settled' = settled /\ batches < MaxBatches /\ m \in Markets \ settled
    BY <1>3 DEF Evaluate
  <2>3. LET allowed == Allowed(m, feedsOk)
            makersOk == Filtered(m, makers)
            placed == IF Places(m, allowed, makersOk) THEN makersOk ELSE NoQuotes
            bought == IF allowed THEN Filtered(m, takers) ELSE NoQuotes
            cancel == Cancels(m, allowed, makersOk)
        IN Batch(m, cancel, placed, bought, now + delay)
             /\ Execute(m, cancel, placed, bought, now + delay)
    BY <1>1, <1>3, <2>1, <2>2, EvaluateBatch DEF Evaluate
  <2> QED
    BY <2>1, <2>2, <2>3, ExecuteLedger
<1>4. ASSUME NEW m \in Markets, CancelActive(m)
      PROVE  LedgerInv'
  <2>1. Batch(m, TRUE, NoQuotes, NoQuotes, now)
    BY <1>1, EngineAssumption DEF Batch, NoQuotes, Asked, SizeAsked, TypeOK
  <2>2. /\ Execute(m, TRUE, NoQuotes, NoQuotes, now)
        /\ now' = now /\ settled' = settled /\ m \in Markets \ settled
    BY <1>4 DEF CancelActive
  <2>3. now \in Nat /\ now <= now
    BY <1>1 DEF TypeOK
  <2> QED
    BY <2>1, <2>2, <2>3, ExecuteLedger
<1>5. ASSUME NEW m \in Markets, NEW o \in Outcomes, NEW ask \in Prices, PaperFill(m, o, ask)
      PROVE  LedgerInv'
  BY <1>5, PaperFillLedger
<1>6. ASSUME NEW m \in Markets, Settle(m)
      PROVE  LedgerInv'
  BY <1>1, <1>6, SettleLedger
<1> QED
  BY <1>2, <1>3, <1>4, <1>5, <1>6 DEF Next

\* Over any number of fills and settlements, the position of each market is the sum of
\* its fills until it is settled, the total position the sum of the positions, and the
\* cached count the number of open quotes: no fill is lost or counted twice
\* (RiskManager::on_fill, on_settlement, OrderManager::open_order_count).
THEOREM LedgersAddUp == Spec => []LedgersAgree
<1>1. Init => LedgerInv
  BY InitLedger
<1>2. IInv /\ LedgerInv /\ [Next]_vars => LedgerInv'
  BY NextLedger
<1>3. LedgerInv => LedgersAgree
  BY DEF LedgerInv
<1> QED
  BY <1>1, <1>2, <1>3, Invariance, PTL DEF Spec
=============================================================================
