------------------------- MODULE FundedOrder_proofs -------------------------
(* Proofs about FundedOrder, for any number of children, intents, dates and   *)
(* lapses.  The argument: a child writes its own reservation before it reads  *)
(* those of the others; a consumed authorization sends one order; so what is   *)
(* at risk is reserved until it is over, and a child that passed its second    *)
(* preflight saw that nothing else was.                                        *)
EXTENDS FundedOrder, TLAPS

\* the steps of a child that has sent its order, that has consumed its authorization,
\* that has written its reservation
Ordered    == {"answer", "emergency", "preserve"} \cup Submitted \cup Reporting
Authorized == Ordered \cup {"orders2", "risk2", "send"}
Holding    == Authorized \cup {"consume"}

\* the steps in which the reservation is as it was written
Fresh == Reserved \cup {"send", "answer"}

Blob(c) == <<child[c].intent, child[c].date>>

\* an order at risk, or about to be
Exposed(i) == AtRisk(i) \/ \E c \in Children : child[c].pc = "send" /\ child[c].intent = i

ChildInv ==
  \A c \in Children : IF child[c].pc = "idle" THEN child[c] = Idle ELSE child[c].intent \in Intents

\* a reservation has one owner
ReservationInv ==
  /\ \A c \in Children :
       /\ child[c].pc \in Holding => reservations[Blob(c)].state # "none"
       /\ child[c].pc \in Fresh => reservations[Blob(c)] = Reservation("reserved", FALSE)
  /\ \A c, e \in Children :
       child[c].pc \in Holding /\ child[e].pc \in Holding /\ Blob(c) = Blob(e) => c = e

\* an authorization has one owner and pays for one order
OnceInv ==
  /\ \A i \in Intents : order[i] # "none" => i \in consumed
  /\ \A c \in Children : child[c].pc \in Authorized =>
       /\ child[c].intent \in consumed
       /\ child[c].pc \in Ordered <=> order[child[c].intent] # "none"
  /\ \A c, e \in Children :
       child[c].pc \in Authorized /\ child[e].pc \in Authorized /\ child[c].intent = child[e].intent => c = e

\* a result is of a closed order, and only what has won is redeemed
VenueInv ==
  /\ \A i \in Intents :
       /\ position[i] # "none" => order[i] \in {"live", "closed"}
       /\ position[i] \in {"won", "lost", "redeemed"} => order[i] = "closed"
       /\ i \in relayed \cup redeeming => position[i] \in {"won", "redeemed"}
       /\ redeemer \in {"verified", "settled"} /\ i \in redeeming => position[i] = "redeemed"

\* what is at risk has an unresolved reservation that no child gives back
SafeInv ==
  \A i \in Intents : AtRisk(i) =>
    \E d \in Dates : /\ ~IsResolved(reservations[<<i, d>>])
                     /\ \A c \in Children : child[c].pc \in Reserved \cup {"send"} => Blob(c) # <<i, d>>

OneInv == \A i, j \in Intents : Exposed(i) /\ Exposed(j) => i = j

EvidenceInv ==
  /\ \A c \in Children :
       /\ child[c].pc \in {"orders3", "publish"} =>
            ~child[c].filled /\ order[child[c].intent] = "closed" /\ position[child[c].intent] = "none"
       /\ child[c].pc = "upload" =>
            IF child[c].filled THEN position[child[c].intent] # "none"
                               ELSE position[child[c].intent] = "none" /\ child[c].intent \in terminal
  /\ EvidenceIsTrue

IInv == TypeOK /\ ChildInv /\ ReservationInv /\ OnceInv /\ VenueInv /\ SafeInv /\ OneInv /\ EvidenceInv

\* a child's locals, and the steps that leave its intent and its reservation alone
ChildStates == [pc : Steps, intent : Intents \cup {Nobody}, date : Dates,
                sawOpen : BOOLEAN, filled : BOOLEAN]

Same(c) == child'[c].intent = child[c].intent /\ child'[c].date = child[c].date

----------------------------------------------------------------------------
(* What a step may change *)

\* A child that goes on keeps its intent, its reservation and what it knows of a fill.
LEMMA Goes ==
  ASSUME TypeOK, NEW c \in Children, NEW to \in Steps, NEW filled \in BOOLEAN,
         \/ child' = [child EXCEPT ![c].pc = to] /\ filled = child[c].filled
         \/ child' = [child EXCEPT ![c].pc = to, ![c].filled = filled]
  PROVE  /\ child' \in [Children -> ChildStates] /\ \A e \in Children \ {c} : child'[e] = child[e]
         /\ Same(c) /\ child'[c].pc = to /\ child'[c].filled = filled
<1> DEFINE P == child[c]
<1>1. P \in ChildStates /\ child \in [Children -> ChildStates]
  BY DEF TypeOK, ChildStates
<1>2. CASE child' = [child EXCEPT ![c].pc = to] /\ filled = child[c].filled
  <2>1. child' = [child EXCEPT ![c] = [P EXCEPT !.pc = to]]
    BY <1>1, <1>2
  <2>2. [P EXCEPT !.pc = to] \in ChildStates
    BY <1>1 DEF ChildStates
  <2> QED
    BY <1>1, <1>2, <2>1, <2>2 DEF Same, ChildStates
<1>3. CASE child' = [child EXCEPT ![c].pc = to, ![c].filled = filled]
  <2>1. child' = [child EXCEPT ![c] = [P EXCEPT !.pc = to, !.filled = filled]]
    BY <1>1, <1>3
  <2>2. [P EXCEPT !.pc = to, !.filled = filled] \in ChildStates
    BY <1>1 DEF ChildStates
  <2> QED
    BY <1>1, <1>3, <2>1, <2>2 DEF Same, ChildStates
<1> QED
  BY <1>2, <1>3

\* A child that leaves, or dies, is idle again.
LEMMA Leaves ==
  ASSUME TypeOK, NEW c \in Children, child' = [child EXCEPT ![c] = Idle]
  PROVE  /\ child' \in [Children -> ChildStates] /\ \A e \in Children \ {c} : child'[e] = child[e]
         /\ child'[c] = Idle
<1>1. Idle \in ChildStates
  BY OrderAssumption DEF Idle, ChildStates, Steps, Dates
<1> QED
  BY <1>1 DEF TypeOK, ChildStates

\* The answers a child reads of the open orders are another of its locals.
LEMMA Reads ==
  ASSUME TypeOK, NEW c \in Children, NEW from \in Steps, NEW to \in Steps, ReadOpenOrders(c, from, to)
  PROVE  /\ child' \in [Children -> ChildStates] /\ \A e \in Children \ {c} : child'[e] = child[e]
         /\ Same(c) /\ child[c].pc = from /\ child'[c].pc = to /\ child'[c].filled = child[c].filled
<1> DEFINE P == child[c]
<1>1. P \in ChildStates /\ child \in [Children -> ChildStates]
  BY DEF TypeOK, ChildStates
<1>2. PICK saw \in BOOLEAN : child' = [child EXCEPT ![c].pc = to, ![c].sawOpen = saw]
  BY DEF ReadOpenOrders
<1>3. child' = [child EXCEPT ![c] = [P EXCEPT !.pc = to, !.sawOpen = saw]]
  BY <1>1, <1>2
<1>4. [P EXCEPT !.pc = to, !.sawOpen = saw] \in ChildStates
  BY <1>1 DEF ChildStates
<1> QED
  BY <1>1, <1>3, <1>4 DEF Same, ChildStates, ReadOpenOrders

\* from one step to the next, with the same intent, reservation and knowledge of a fill
Edge(c, from, to) ==
  child[c].pc = from /\ child'[c].pc = to /\ Same(c) /\ child'[c].filled = child[c].filled

Edges(c) ==
  \/ Edge(c, "orders", "risk") \/ Edge(c, "risk", "risk")
  \/ Edge(c, "orders2", "risk2") \/ Edge(c, "risk2", "risk2")
  \/ Edge(c, "answer", "resting") \/ Edge(c, "answer", "emergency")
  \/ Edge(c, "resting", "reconcile") \/ Edge(c, "resting", "emergency") \/ Edge(c, "reconcile", "emergency")
  \/ Edge(c, "emergency", "preserve")
  \/ Edge(c, "orders3", "publish") \/ Edge(c, "publish", "publish")

Moved(c) ==
  \/ child'[c] = Idle
  \/ child'[c].pc = "orders"
  \/ child'[c].pc # "idle" /\ Edges(c)
  \/ FirstPreflight(c) /\ Edge(c, "risk", "reserve")
  \/ ReserveRisk(c) /\ child'[c].pc = "consume" /\ child'[c].intent = child[c].intent
  \/ ConsumeAuthorization(c) /\ Edge(c, "consume", "orders2")
  \/ SecondPreflight(c) /\ Edge(c, "risk2", "send")
  \/ SendOrder(c) /\ Edge(c, "send", "answer")
  \/ Reconcile(c) /\ child[c].pc = "reconcile" /\ child'[c].pc \in {"orders3", "upload"} /\ Same(c)
  \/ PublishNoFill(c) /\ Edge(c, "publish", "upload")

\* The steps of a child, as moves from one step to the next.
LEMMA Moves ==
  ASSUME TypeOK, ChildInv, NEW c \in Children, ChildStep(c)
  PROVE  /\ child' \in [Children -> ChildStates]
         /\ \A e \in Children \ {c} : child'[e] = child[e]
         /\ IF child'[c].pc = "idle" THEN child'[c] = Idle ELSE child'[c].intent \in Intents
         /\ Moved(c)
<1> DEFINE Q == /\ child' \in [Children -> ChildStates]
                /\ \A e \in Children \ {c} : child'[e] = child[e]
<1>1. child[c] \in ChildStates /\ child[c].pc \in Steps /\ child \in [Children -> ChildStates]
      /\ child[c].filled \in BOOLEAN
  BY DEF TypeOK, ChildStates
<1>2. child[c].pc # "idle" => child[c].intent \in Intents
  BY DEF ChildInv
<1>3. /\ "idle" \in Steps /\ "orders" \in Steps /\ "risk" \in Steps /\ "reserve" \in Steps
      /\ "consume" \in Steps /\ "orders2" \in Steps /\ "risk2" \in Steps /\ "send" \in Steps
      /\ "answer" \in Steps /\ "resting" \in Steps /\ "reconcile" \in Steps /\ "emergency" \in Steps
      /\ "preserve" \in Steps /\ "orders3" \in Steps /\ "publish" \in Steps /\ "upload" \in Steps
  BY DEF Steps, Unreserved, Reserved, Submitted, Reporting
<1>4. ASSUME NEW from \in Steps, NEW to \in Steps, Goto(c, from, to)
      PROVE  Q /\ Edge(c, from, to)
  BY <1>1, <1>4, Goes DEF Goto, Edge
<1>5. ASSUME child' = [child EXCEPT ![c] = Idle]
      PROVE  Q /\ child'[c] = Idle /\ child'[c].pc = "idle"
  BY <1>5, Leaves DEF Idle
<1>6. ASSUME NEW from \in Steps, NEW to \in Steps, Edge(c, from, to), from # "idle", to # "idle"
      PROVE  child'[c].intent \in Intents /\ child'[c].pc # "idle"
  BY <1>2, <1>6 DEF Edge, Same
<1>7. CASE AcquireLease(c)
  <2>1. PICK i \in Intents : child' = [child EXCEPT ![c].intent = i, ![c].pc = "orders"]
    BY <1>7 DEF AcquireLease
  <2>2. child' = [child EXCEPT ![c] = [child[c] EXCEPT !.intent = i, !.pc = "orders"]]
    BY <1>1, <2>1
  <2>3. [child[c] EXCEPT !.intent = i, !.pc = "orders"] \in ChildStates
    BY <1>1, <1>3 DEF ChildStates
  <2> QED
    BY <1>1, <2>2, <2>3 DEF ChildStates, Moved
<1>8. CASE ReadOpenOrders(c, "orders", "risk")
  <2>1. Q /\ Edge(c, "orders", "risk")
    BY <1>3, <1>8, Reads DEF Edge
  <2> QED
    BY <1>3, <1>6, <2>1 DEF Moved, Edges
<1>9. CASE ReadOpenOrders(c, "orders2", "risk2")
  <2>1. Q /\ Edge(c, "orders2", "risk2")
    BY <1>3, <1>9, Reads DEF Edge
  <2> QED
    BY <1>3, <1>6, <2>1 DEF Moved, Edges
<1>10. CASE ReadOpenOrders(c, "orders3", "publish")
  <2>1. Q /\ Edge(c, "orders3", "publish")
    BY <1>3, <1>10, Reads DEF Edge
  <2> QED
    BY <1>3, <1>6, <2>1 DEF Moved, Edges
<1>11. CASE SettleReported(c, "risk") \/ SettleReported(c, "risk2") \/ SettleReported(c, "publish")
  <2>1. child' = child /\ (child[c].pc = "risk" \/ child[c].pc = "risk2" \/ child[c].pc = "publish")
    BY <1>11 DEF SettleReported
  <2>2. Q /\ Same(c) /\ child'[c].filled = child[c].filled /\ child'[c].pc = child[c].pc /\ child[c].pc # "idle"
    BY <1>1, <2>1 DEF Same
  <2>3. Edges(c)
    BY <2>1, <2>2 DEF Edge, Edges
  <2> QED
    BY <1>2, <2>2, <2>3 DEF Moved, Same
<1>12. CASE FirstPreflight(c)
  <2>1. Q /\ Edge(c, "risk", "reserve")
    BY <1>3, <1>4, <1>12 DEF FirstPreflight, Preflight
  <2> QED
    BY <1>3, <1>6, <1>12, <2>1 DEF Moved
<1>13. CASE ConsumeAuthorization(c)
  <2>1. Q /\ Edge(c, "consume", "orders2")
    BY <1>3, <1>4, <1>13 DEF ConsumeAuthorization
  <2> QED
    BY <1>3, <1>6, <1>13, <2>1 DEF Moved
<1>14. CASE SecondPreflight(c)
  <2>1. Q /\ Edge(c, "risk2", "send")
    BY <1>3, <1>4, <1>14 DEF SecondPreflight, Preflight
  <2> QED
    BY <1>3, <1>6, <1>14, <2>1 DEF Moved
<1>15. CASE SendOrder(c)
  <2>1. Q /\ Edge(c, "send", "answer")
    BY <1>3, <1>4, <1>15 DEF SendOrder
  <2> QED
    BY <1>3, <1>6, <1>15, <2>1 DEF Moved
<1>16. CASE CancelOrder(c) \/ EmergencyCancel(c) \/ ReconcileIncomplete(c) \/ Acknowledged(c)
  <2>1. \/ Goto(c, "resting", "reconcile") \/ Goto(c, "emergency", "preserve")
        \/ Goto(c, "reconcile", "emergency") \/ Goto(c, "answer", "resting") \/ Goto(c, "answer", "emergency")
    BY <1>16 DEF CancelOrder, EmergencyCancel, ReconcileIncomplete, Acknowledged
  <2>2. Q /\ \/ Edge(c, "resting", "reconcile") \/ Edge(c, "emergency", "preserve")
             \/ Edge(c, "reconcile", "emergency") \/ Edge(c, "answer", "resting") \/ Edge(c, "answer", "emergency")
    BY <1>3, <1>4, <2>1
  <2>3. Edges(c) /\ child'[c].pc # "idle" /\ child'[c].intent \in Intents
    BY <1>3, <1>6, <2>2 DEF Edges
  <2> QED
    BY <2>2, <2>3 DEF Moved
<1>17. CASE ReserveRisk(c)
  <2>1. PICK d \in Dates : child' = [child EXCEPT ![c].pc = "consume", ![c].date = d]
    BY <1>17 DEF ReserveRisk
  <2>2. child' = [child EXCEPT ![c] = [child[c] EXCEPT !.pc = "consume", !.date = d]]
    BY <1>1, <2>1
  <2>3. [child[c] EXCEPT !.pc = "consume", !.date = d] \in ChildStates
    BY <1>1, <1>3 DEF ChildStates
  <2>4. child[c].pc = "reserve"
    BY <1>17 DEF ReserveRisk
  <2> QED
    BY <1>1, <1>2, <1>17, <2>2, <2>3, <2>4 DEF ChildStates, Moved
<1>18. CASE FailUnreserved(c) \/ LoseReservation(c) \/ FailReserved(c) \/ NotAcknowledged(c)
            \/ PreserveRisk(c) \/ UploadSummary(c) \/ FailReporting(c) \/ Crash(c)
  <2>1. child' = [child EXCEPT ![c] = Idle]
    BY <1>18 DEF FailUnreserved, LoseReservation, FailReserved, NotAcknowledged,
                 PreserveRisk, UploadSummary, FailReporting, Crash, Leave
  <2> QED
    BY <1>5, <2>1 DEF Moved
<1>19. CASE Reconcile(c)
  <2>1. child[c].pc = "reconcile"
    BY <1>19 DEF Reconcile
  <2>2. CASE child' = [child EXCEPT ![c].pc = "emergency"]
    <3>1. Q /\ Edge(c, "reconcile", "emergency")
      BY <1>1, <1>3, <2>1, <2>2, Goes DEF Edge
    <3> QED
      BY <1>3, <1>6, <3>1 DEF Moved, Edges
  <2>3. ASSUME NEW to \in {"upload", "orders3"}, NEW filled \in BOOLEAN,
               child' = [child EXCEPT ![c].pc = to, ![c].filled = filled]
        PROVE  Q /\ Same(c) /\ child'[c].pc = to
    BY <1>1, <1>3, <2>3, Goes
  <2>4. ASSUME child' # [child EXCEPT ![c].pc = "emergency"]
        PROVE  \E to \in {"upload", "orders3"}, filled \in BOOLEAN :
                 child' = [child EXCEPT ![c].pc = to, ![c].filled = filled]
    BY <1>19, <2>4 DEF Reconcile
  <2> QED
    BY <1>2, <1>19, <2>1, <2>2, <2>3, <2>4 DEF Moved, Same
<1>20. CASE FailSubmitted(c)
  <2>1. child[c].pc \in {"resting", "reconcile"} /\ child' = [child EXCEPT ![c].pc = "emergency"]
    BY <1>20 DEF FailSubmitted, Submitted
  <2>2. Q /\ Edge(c, child[c].pc, "emergency")
    BY <1>1, <1>3, <2>1, Goes DEF Edge
  <2>3. Edges(c) /\ child'[c].pc # "idle" /\ child'[c].intent \in Intents
    BY <1>1, <1>3, <1>6, <2>1, <2>2 DEF Edges
  <2> QED
    BY <2>2, <2>3 DEF Moved
<1>21. CASE PublishNoFill(c)
  <2>1. Q /\ Edge(c, "publish", "upload")
    BY <1>3, <1>4, <1>21 DEF PublishNoFill
  <2> QED
    BY <1>3, <1>6, <1>21, <2>1 DEF Moved
<1> QED
  BY <1>7, <1>8, <1>9, <1>10, <1>11, <1>12, <1>13, <1>14, <1>15, <1>16, <1>17, <1>18, <1>19, <1>20, <1>21
  DEF ChildStep

\* Where a child may come from: it holds a reservation since it wrote it, and may send
\* since it consumed its authorization.
LEMMA Phases ==
  ASSUME NEW c \in Children, Moved(c)
  PROVE  /\ child'[c].pc \in Holding => ReserveRisk(c) \/ (child[c].pc \in Holding /\ Same(c))
         /\ child'[c].pc \in Authorized => ConsumeAuthorization(c) \/ child[c].pc \in Authorized
         /\ child'[c].pc \in Ordered => SendOrder(c) \/ child[c].pc \in Ordered
         /\ child'[c].pc \in Authorized \ Ordered => child[c].pc \notin Ordered
         /\ child'[c].pc \in Fresh => ReserveRisk(c) \/ child[c].pc \in Fresh
         /\ child'[c].pc \in Reserved \cup {"send"} => ReserveRisk(c) \/ child[c].pc \in Reserved \cup {"send"}
         /\ child'[c].pc = "send" => SecondPreflight(c)
         /\ child'[c].pc \in {"orders3", "publish", "upload"} =>
              \/ Reconcile(c)
              \/ PublishNoFill(c) /\ Edge(c, "publish", "upload")
              \/ Edge(c, "orders3", "publish")
              \/ Edge(c, "publish", "publish")
<1> USE DEF Moved, Edges, Edge, Idle
<1>1. child'[c].pc \in Holding => ReserveRisk(c) \/ (child[c].pc \in Holding /\ Same(c))
  BY DEF Holding, Authorized, Ordered, Submitted, Reporting
<1>2. child'[c].pc \in Authorized => ConsumeAuthorization(c) \/ child[c].pc \in Authorized
  BY DEF Authorized, Ordered, Submitted, Reporting
<1>3. child'[c].pc \in Ordered => SendOrder(c) \/ child[c].pc \in Ordered
  BY DEF Ordered, Submitted, Reporting
<1>4. child'[c].pc \in Authorized \ Ordered => child[c].pc \notin Ordered
  BY DEF Authorized, Ordered, Submitted, Reporting
<1>5. child'[c].pc \in Fresh => ReserveRisk(c) \/ child[c].pc \in Fresh
  BY DEF Fresh, Reserved
<1>6. child'[c].pc \in Reserved \cup {"send"} => ReserveRisk(c) \/ child[c].pc \in Reserved \cup {"send"}
  BY DEF Reserved
<1>7. child'[c].pc = "send" => SecondPreflight(c)
  OBVIOUS
<1>8. child'[c].pc \in {"orders3", "publish", "upload"} =>
        \/ Reconcile(c)
        \/ PublishNoFill(c) /\ Edge(c, "publish", "upload")
        \/ Edge(c, "orders3", "publish")
        \/ Edge(c, "publish", "publish")
  OBVIOUS
<1> QED
  BY <1>1, <1>2, <1>3, <1>4, <1>5, <1>6, <1>7, <1>8

\* A step of anybody else leaves the children as they are.
LEMMA Others ==
  ASSUME [Next]_vars, ~\E c \in Children : ChildStep(c)
  PROVE  child' = child /\ UNCHANGED <<consumed, summaries>>
<1>1. CASE LeaseLapses
  BY <1>1 DEF LeaseLapses, evidence
<1>2. CASE RedeemerStep
  BY <1>2 DEF RedeemerStep, PrepareRedemption, SubmitRedemption, AbandonRedemption, VerifyRedemption,
     SettleRedeemed, PublishRedeemed, EndRedemption, evidence
<1>3. ASSUME NEW i \in Intents, VenueStep(i)
      PROVE  child' = child /\ UNCHANGED <<consumed, summaries>>
  BY <1>3 DEF VenueStep, Accept, Reject, Close, Fill, Resolve, evidence
<1>4. CASE Redeem \/ RelayerFails
  BY <1>4 DEF Redeem, RelayerFails, evidence
<1>5. CASE UNCHANGED vars
  BY <1>5 DEF vars, evidence
<1> QED
  BY <1>1, <1>2, <1>3, <1>4, <1>5 DEF Next

\* What a step writes into the reservations: nothing, a new one, the state of a
\* reservation it holds, or the settlement of positions that have a result.
Writes(c) ==
  \/ UNCHANGED reservations
  \/ child[c].pc = "reserve" /\ \E d \in Dates : NewReservation(child[c].intent, d)
  \/ child[c].pc \in Reserved /\ child'[c] = Idle /\ Finalize(c, "released_no_order", FALSE)
  \/ /\ child[c].pc \in Ordered /\ child[c].pc \notin Reserved \cup {"send"}
     /\ child'[c].pc \notin Fresh
     /\ \E state \in ReservationStates \ {"none"}, matched \in BOOLEAN :
          /\ Finalize(c, state, matched)
          /\ ~IsResolved(Reservation(state, matched)) \/ ~AtRisk(child[c].intent)

Settles == \E S \in SUBSET Intents :
  reservations' = Settled(S) /\ \A i \in S : position[i] \in {"won", "lost", "redeemed"}

\* No step writes any other reservation.
LEMMA ReservationWrites ==
  ASSUME TypeOK, VenueInv, [Next]_vars
  PROVE  \/ UNCHANGED reservations
         \/ \E c \in Children : ChildStep(c) /\ Writes(c)
         \/ Settles /\ UNCHANGED <<child, order, position, relayed>>
<1>1. ASSUME NEW c \in Children, ChildStep(c)
      PROVE  UNCHANGED reservations \/ Writes(c) \/ (Settles /\ UNCHANGED <<child, order, position, relayed>>)
  <2>1. CASE SettleReported(c, "risk") \/ SettleReported(c, "risk2") \/ SettleReported(c, "publish")
    <3>1. PICK i \in Intents : position[i] \in {"won", "lost"} /\ reservations' = Settled({i})
      BY <2>1 DEF SettleReported
    <3>2. {i} \in SUBSET Intents /\ \A j \in {i} : position[j] \in {"won", "lost", "redeemed"}
      BY <3>1
    <3> QED
      BY <2>1, <3>1, <3>2 DEF SettleReported, Settles, venue
  <2>2. CASE ReserveRisk(c) \/ LoseReservation(c)
    BY <2>2 DEF ReserveRisk, LoseReservation, Writes
  <2>3. CASE FailReserved(c)
    <3>1. child[c].pc \in Reserved /\ child'[c] = Idle
      BY <2>3, Leaves DEF FailReserved, Leave
    <3> QED
      BY <2>3, <3>1 DEF FailReserved, Writes
  <2>4. CASE Acknowledged(c) /\ reservations' # reservations
    <3>1. Goto(c, "answer", "resting") /\ Finalize(c, "submitted_pending_reconciliation", FALSE)
      BY <2>4 DEF Acknowledged
    <3>2. child[c].pc = "answer" /\ child'[c].pc = "resting"
      BY <3>1, Goes DEF Goto, Steps, Submitted, TypeOK
    <3>3. ~IsResolved(Reservation("submitted_pending_reconciliation", FALSE))
          /\ "submitted_pending_reconciliation" \in ReservationStates \ {"none"}
      BY DEF IsResolved, Reservation, ReservationStates
    <3> QED
      BY <3>1, <3>2, <3>3 DEF Writes, Ordered, Reserved, Fresh
  <2>5. CASE Reconcile(c)
    <3> DEFINE filled == position[child[c].intent] # "none"
               state  == IF filled THEN "position_unresolved" ELSE "finalized_no_fill"
    <3>1. child[c].pc = "reconcile" /\ child'[c].pc \in {"emergency", "orders3", "upload"}
      <4>1. \E to \in {"emergency", "orders3", "upload"}, f \in BOOLEAN :
              \/ child' = [child EXCEPT ![c].pc = to]
              \/ child' = [child EXCEPT ![c].pc = to, ![c].filled = f]
        BY <2>5 DEF Reconcile
      <4> QED
        BY <2>5, <4>1 DEF Reconcile, TypeOK
    <3>2. state \in ReservationStates \ {"none"} /\ filled \in BOOLEAN
      BY DEF ReservationStates
    <3>3. Finalize(c, state, filled)
      BY <2>5 DEF Reconcile
    <3>4. ~IsResolved(Reservation(state, filled)) \/ ~AtRisk(child[c].intent)
      BY <2>5 DEF Reconcile, IsResolved, Reservation, AtRisk
    <3> QED
      BY <3>1, <3>2, <3>3, <3>4 DEF Writes, Ordered, Submitted, Reserved, Fresh
  <2>6. ASSUME NEW matched \in BOOLEAN
        PROVE  "unresolved_reconciliation" \in ReservationStates \ {"none"}
               /\ ~IsResolved(Reservation("unresolved_reconciliation", matched))
    BY DEF IsResolved, Reservation, ReservationStates
  <2>7. CASE ReconcileIncomplete(c)
    <3>1. child[c].pc = "reconcile" /\ child'[c].pc = "emergency"
      BY <2>7, Goes DEF ReconcileIncomplete, Goto, Steps, TypeOK
    <3>2. \E matched \in BOOLEAN : Finalize(c, "unresolved_reconciliation", matched)
      BY <2>7 DEF ReconcileIncomplete
    <3> QED
      BY <2>6, <3>1, <3>2 DEF Writes, Ordered, Submitted, Reserved, Fresh
  <2>8. CASE PreserveRisk(c) /\ reservations' # reservations
    <3>1. child[c].pc = "preserve" /\ child'[c] = Idle
      BY <2>8, Leaves DEF PreserveRisk, Leave
    <3>2. \E matched \in BOOLEAN : Finalize(c, "unresolved_reconciliation", matched)
      BY <2>8 DEF PreserveRisk
    <3> QED
      BY <2>6, <3>1, <3>2 DEF Writes, Ordered, Reserved, Fresh, Idle
  <2>9. CASE AcquireLease(c) \/ FirstPreflight(c) \/ ConsumeAuthorization(c) \/ SecondPreflight(c)
             \/ ReadOpenOrders(c, "orders", "risk") \/ ReadOpenOrders(c, "orders2", "risk2")
             \/ ReadOpenOrders(c, "orders3", "publish")
    BY <2>9 DEF AcquireLease, FirstPreflight, ConsumeAuthorization, SecondPreflight, Preflight,
                ReadOpenOrders, evidence
  <2>10. CASE FailUnreserved(c) \/ SendOrder(c) \/ NotAcknowledged(c) \/ CancelOrder(c) \/ FailSubmitted(c)
              \/ EmergencyCancel(c) \/ PublishNoFill(c) \/ UploadSummary(c) \/ FailReporting(c) \/ Crash(c)
    BY <2>10 DEF FailUnreserved, SendOrder, NotAcknowledged, CancelOrder, FailSubmitted, EmergencyCancel,
                 PublishNoFill, UploadSummary, FailReporting, Crash, evidence
  <2> QED
    BY <1>1, <2>1, <2>2, <2>3, <2>4, <2>5, <2>7, <2>8, <2>9, <2>10 DEF ChildStep
<1>2. CASE SettleRedeemed
  BY <1>2 DEF SettleRedeemed, Settles, TypeOK, VenueInv, venue
<1>3. CASE RedeemerStep /\ ~SettleRedeemed
  BY <1>3 DEF RedeemerStep, PrepareRedemption, SubmitRedemption, AbandonRedemption, VerifyRedemption,
              PublishRedeemed, EndRedemption, evidence
<1>4. CASE LeaseLapses \/ Redeem \/ RelayerFails \/ UNCHANGED vars
  BY <1>4 DEF LeaseLapses, Redeem, RelayerFails, vars, evidence
<1>5. ASSUME NEW i \in Intents, VenueStep(i)
      PROVE  UNCHANGED reservations
  BY <1>5 DEF VenueStep, Accept, Reject, Close, Fill, Resolve, evidence
<1> QED
  BY <1>1, <1>2, <1>3, <1>4, <1>5 DEF Next

\* What a child may touch of the venue and of the evidence.
LEMMA ChildTouches ==
  ASSUME NEW c \in Children, ChildStep(c)
  PROVE  /\ UNCHANGED <<position, relayed, redeeming, redeemer>>
         /\ consumed \subseteq consumed'
         /\ order' = order \/ SendOrder(c) \/ CancelOrder(c) \/ CancelAll
         /\ terminal' = terminal \/ PublishNoFill(c)
         /\ summaries' = summaries \/ PreserveRisk(c) \/ UploadSummary(c)
<1> USE DEF evidence, venue, worker
<1>1. CASE AcquireLease(c) \/ FirstPreflight(c) \/ ReserveRisk(c) \/ ConsumeAuthorization(c) \/ SecondPreflight(c)
           \/ ReadOpenOrders(c, "orders", "risk") \/ ReadOpenOrders(c, "orders2", "risk2")
           \/ ReadOpenOrders(c, "orders3", "publish")
  BY <1>1 DEF AcquireLease, FirstPreflight, ReserveRisk, ConsumeAuthorization, SecondPreflight, Preflight,
              ReadOpenOrders
<1>2. CASE SettleReported(c, "risk") \/ SettleReported(c, "risk2") \/ SettleReported(c, "publish")
           \/ FailUnreserved(c) \/ LoseReservation(c) \/ FailReserved(c) \/ Acknowledged(c) \/ Reconcile(c)
  BY <1>2 DEF SettleReported, FailUnreserved, LoseReservation, FailReserved, Acknowledged, Reconcile
<1>3. CASE ReconcileIncomplete(c) \/ FailSubmitted(c) \/ PreserveRisk(c) \/ PublishNoFill(c) \/ UploadSummary(c)
           \/ FailReporting(c) \/ Crash(c)
  BY <1>3 DEF ReconcileIncomplete, FailSubmitted, PreserveRisk, PublishNoFill, UploadSummary,
              FailReporting, Crash
<1>4. CASE SendOrder(c) \/ NotAcknowledged(c) \/ CancelOrder(c) \/ EmergencyCancel(c)
  BY <1>4 DEF SendOrder, NotAcknowledged, CancelOrder, EmergencyCancel
<1> QED
  BY <1>1, <1>2, <1>3, <1>4 DEF ChildStep

\* An order is sent once, by the child that consumed its authorization, and what was
\* closed stays closed.
LEMMA OrderMoves ==
  ASSUME TypeOK, ChildInv, OnceInv, [Next]_vars
  PROVE  /\ order' \in [Intents -> {"none", "sent", "live", "closed", "rejected"}]
         /\ \A i \in Intents :
              \/ order'[i] = order[i]
              \/ /\ order[i] = "none" /\ order'[i] = "sent"
                 /\ \E c \in Children : SendOrder(c) /\ child[c].intent = i
              \/ order[i] = "sent" /\ order'[i] \in {"live", "rejected"}
              \/ order[i] # "none" /\ order'[i] = "closed"
<1> USE DEF TypeOK
<1>1. ASSUME NEW c \in Children, SendOrder(c)
      PROVE  child[c].intent \in Intents /\ order[child[c].intent] = "none"
             /\ order' = [order EXCEPT ![child[c].intent] = "sent"]
  BY <1>1 DEF SendOrder, Goto, ChildInv, OnceInv, Authorized, Ordered, Submitted, Reporting
<1>2. CASE \E c \in Children : SendOrder(c)
  BY <1>1, <1>2
<1>3. ASSUME NEW c \in Children, CancelOrder(c)
      PROVE  /\ child[c].intent \in Intents /\ order[child[c].intent] # "none"
             /\ order' = [order EXCEPT ![child[c].intent] = "closed"] \/ order' = order
  BY <1>3 DEF CancelOrder, Goto, ChildInv, OnceInv, Authorized, Ordered, Submitted, Reporting
<1>4. CASE \E c \in Children : CancelOrder(c)
  BY <1>3, <1>4
<1>5. CASE CancelAll
  BY <1>5 DEF CancelAll
<1>6. ASSUME NEW c \in Children, ChildStep(c)
      PROVE  order' = order \/ SendOrder(c) \/ CancelOrder(c) \/ CancelAll
  BY <1>6, ChildTouches
<1>7. CASE RedeemerStep \/ LeaseLapses \/ Redeem \/ RelayerFails \/ UNCHANGED vars
  BY <1>7 DEF RedeemerStep, PrepareRedemption, SubmitRedemption, AbandonRedemption, VerifyRedemption,
     SettleRedeemed, PublishRedeemed, EndRedemption, LeaseLapses, Redeem, RelayerFails, vars, venue
<1>8. ASSUME NEW i \in Intents, VenueStep(i)
      PROVE  /\ order' \in [Intents -> {"none", "sent", "live", "closed", "rejected"}]
             /\ \A j \in Intents : \/ order'[j] = order[j]
                                   \/ order[j] = "sent" /\ order'[j] \in {"live", "rejected"}
                                   \/ order[j] # "none" /\ order'[j] = "closed"
  BY <1>8 DEF VenueStep, Accept, Reject, Close, Fill, Resolve
<1> QED
  BY <1>2, <1>4, <1>5, <1>6, <1>7, <1>8 DEF Next

\* A position is bought by a live order, resolved by the venue and redeemed by the relayer.
LEMMA PositionMoves ==
  ASSUME TypeOK, [Next]_vars
  PROVE  /\ position' \in [Intents -> {"none", "held", "won", "lost", "redeemed"}]
         /\ \A i \in Intents :
              \/ position'[i] = position[i]
              \/ position'[i] = "held" /\ position[i] = "none" /\ order[i] = "live" /\ order'[i] = "live"
              \/ position'[i] \in {"won", "lost"} /\ position[i] = "held" /\ order[i] = "closed"
              \/ position'[i] = "redeemed" /\ i \in relayed
<1> USE DEF TypeOK
<1>1. ASSUME NEW c \in Children, ChildStep(c)
      PROVE  position' = position
  BY <1>1, ChildTouches
<1>2. CASE RedeemerStep \/ LeaseLapses \/ RelayerFails \/ UNCHANGED vars
  BY <1>2 DEF RedeemerStep, PrepareRedemption, SubmitRedemption, AbandonRedemption, VerifyRedemption,
     SettleRedeemed, PublishRedeemed, EndRedemption, LeaseLapses, RelayerFails, vars, venue
<1>3. CASE Redeem
  BY <1>3 DEF Redeem
<1>4. ASSUME NEW i \in Intents, VenueStep(i)
      PROVE  /\ position' \in [Intents -> {"none", "held", "won", "lost", "redeemed"}]
             /\ \A j \in Intents :
                  \/ position'[j] = position[j]
                  \/ position'[j] = "held" /\ position[j] = "none" /\ order[j] = "live" /\ order'[j] = "live"
                  \/ position'[j] \in {"won", "lost"} /\ position[j] = "held" /\ order[j] = "closed"
  BY <1>4 DEF VenueStep, Accept, Reject, Close, Fill, Resolve
<1> QED
  BY <1>1, <1>2, <1>3, <1>4 DEF Next

----------------------------------------------------------------------------
(* The invariant *)

\* Every step keeps what a child says of itself.
LEMMA ChildNext ==
  ASSUME TypeOK, ChildInv, [Next]_vars
  PROVE  ChildInv'
<1>1. ASSUME NEW c \in Children, ChildStep(c)
      PROVE  ChildInv'
  BY <1>1, Moves DEF ChildInv
<1>2. CASE ~\E c \in Children : ChildStep(c)
  BY <1>2, Others DEF ChildInv
<1> QED
  BY <1>1, <1>2

\* The reservation a child writes has no owner yet.
LEMMA NewBlob ==
  ASSUME TypeOK, ChildInv, NEW c \in Children, ReserveRisk(c)
  PROVE  /\ Blob(c)' \in Intents \X Dates /\ child'[c].pc = "consume" /\ child[c].pc = "reserve"
         /\ child'[c].intent = child[c].intent
         /\ reservations[Blob(c)'].state = "none"
         /\ reservations' = [reservations EXCEPT ![Blob(c)'] = Reservation("reserved", FALSE)]
<1>1. PICK d \in Dates : /\ NewReservation(child[c].intent, d)
                         /\ child' = [child EXCEPT ![c].pc = "consume", ![c].date = d]
  BY DEF ReserveRisk
<1>2. child[c].pc = "reserve" /\ child[c].intent \in Intents
  BY DEF ReserveRisk, ChildInv
<1>3. child'[c].pc = "consume" /\ child'[c].date = d /\ child'[c].intent = child[c].intent
  BY <1>1 DEF TypeOK
<1>4. d >= d
  BY OrderAssumption DEF Dates
<1>5. reservations[<<child[c].intent, d>>].state = "none"
  BY <1>1, <1>4 DEF NewReservation
<1>6. Blob(c)' = <<child[c].intent, d>>
  BY <1>3 DEF Blob
<1>7. reservations' = [reservations EXCEPT ![<<child[c].intent, d>>] = Reservation("reserved", FALSE)]
  BY <1>1 DEF NewReservation
<1> QED
  BY <1>2, <1>3, <1>5, <1>6, <1>7

\* What writing the reservations leaves of the others: a new one was not there, a
\* finalized one is that of the child, a settled one had matched.
LEMMA Written ==
  ASSUME TypeOK, ChildInv, ReservationInv, NEW b \in Intents \X Dates
  PROVE  /\ \A c \in Children : Writes(c) =>
              \/ reservations'[b] = reservations[b]
              \/ child[c].pc = "reserve" /\ reservations[b].state = "none" /\ b[1] = child[c].intent
                 /\ reservations'[b] = Reservation("reserved", FALSE)
              \/ child[c].pc \in Holding /\ b = Blob(c) /\ reservations'[b].state # "none"
                 /\ child'[c].pc \notin Fresh
         /\ Settles =>
              \/ reservations'[b] = reservations[b]
              \/ /\ reservations[b].matched /\ reservations'[b] = Reservation("position_settled", TRUE)
                 /\ position[b[1]] \in {"won", "lost", "redeemed"}
<1>1. ASSUME NEW c \in Children, Writes(c)
      PROVE  \/ reservations'[b] = reservations[b]
             \/ child[c].pc = "reserve" /\ reservations[b].state = "none" /\ b[1] = child[c].intent
                /\ reservations'[b] = Reservation("reserved", FALSE)
             \/ child[c].pc \in Holding /\ b = Blob(c) /\ reservations'[b].state # "none"
                /\ child'[c].pc \notin Fresh
  <2>1. CASE child[c].pc = "reserve" /\ \E d \in Dates : NewReservation(child[c].intent, d)
    <3>1. PICK d \in Dates : NewReservation(child[c].intent, d)
      BY <2>1
    <3>2. d >= d
      BY OrderAssumption DEF Dates
    <3>3. reservations[<<child[c].intent, d>>].state = "none"
      BY <3>1, <3>2 DEF NewReservation
    <3>4. reservations' = [reservations EXCEPT ![<<child[c].intent, d>>] = Reservation("reserved", FALSE)]
      BY <3>1 DEF NewReservation
    <3>5. CASE b = <<child[c].intent, d>>
      BY <2>1, <3>3, <3>4, <3>5 DEF TypeOK
    <3>6. CASE b # <<child[c].intent, d>>
      BY <3>4, <3>6 DEF TypeOK
    <3> QED
      BY <3>5, <3>6
  <2>2. CASE child[c].pc \in Reserved /\ child'[c] = Idle /\ Finalize(c, "released_no_order", FALSE)
    BY <2>2 DEF Finalize, Blob, TypeOK, Reservation, Reserved, Holding, Authorized, Fresh, Idle
  <2>3. ASSUME NEW state \in ReservationStates \ {"none"}, NEW matched \in BOOLEAN,
               child[c].pc \in Ordered, child'[c].pc \notin Fresh, Finalize(c, state, matched)
        PROVE  \/ reservations'[b] = reservations[b]
               \/ child[c].pc \in Holding /\ b = Blob(c) /\ reservations'[b].state # "none"
                  /\ child'[c].pc \notin Fresh
    BY <2>3 DEF Finalize, Blob, TypeOK, Reservation, Holding, Authorized
  <2> QED
    BY <1>1, <2>1, <2>2, <2>3 DEF Writes
<1>2. ASSUME Settles
      PROVE  \/ reservations'[b] = reservations[b]
             \/ /\ reservations[b].matched /\ reservations'[b] = Reservation("position_settled", TRUE)
                /\ position[b[1]] \in {"won", "lost", "redeemed"}
  BY <1>2 DEF Settles, Settled
<1> QED
  BY <1>1, <1>2

\* No two children hold the same reservation, and it is as its owner left it.
LEMMA ReservationNext ==
  ASSUME TypeOK, ChildInv, VenueInv, ReservationInv, [Next]_vars
  PROVE  ReservationInv'
<1>1. ASSUME NEW e \in Children, child[e].pc \in Holding
      PROVE  Blob(e) \in Intents \X Dates
  BY <1>1 DEF ChildInv, TypeOK, Blob, Holding, Authorized, Ordered, Submitted, Reporting
<1>2. ASSUME NEW pc, pc \in Fresh
      PROVE  pc \in Holding /\ pc # "reserve"
  BY <1>2 DEF Fresh, Reserved, Holding, Authorized, Ordered
<1>3. \A r : r = Reservation("reserved", FALSE) => r.state = "reserved" /\ ~r.matched
  BY DEF Reservation
<1>4. Reservation("position_settled", TRUE).state = "position_settled"
  BY DEF Reservation
<1>5. CASE child' = child /\ (UNCHANGED reservations \/ Settles)
  <2> \A e \in Children : Blob(e)' = Blob(e) /\ child'[e] = child[e]
    BY <1>5 DEF Blob
  <2>1. ASSUME NEW e \in Children, child'[e].pc \in Holding
        PROVE  reservations'[Blob(e)'].state # "none"
    <3>1. Blob(e) \in Intents \X Dates /\ reservations[Blob(e)].state # "none"
      BY <1>1, <2>1 DEF ReservationInv
    <3>2. \/ reservations'[Blob(e)] = reservations[Blob(e)]
          \/ reservations'[Blob(e)] = Reservation("position_settled", TRUE)
      BY <1>5, <3>1, Written
    <3> QED
      BY <1>4, <3>1, <3>2
  <2>2. ASSUME NEW e \in Children, child'[e].pc \in Fresh
        PROVE  reservations'[Blob(e)'] = Reservation("reserved", FALSE)
    <3>1. Blob(e) \in Intents \X Dates /\ reservations[Blob(e)] = Reservation("reserved", FALSE)
      BY <1>1, <1>2, <2>2 DEF ReservationInv
    <3>2. reservations'[Blob(e)] = reservations[Blob(e)]
      BY <1>3, <1>5, <3>1, Written
    <3> QED
      BY <3>1, <3>2
  <2>3. ASSUME NEW e \in Children, NEW f \in Children, child'[e].pc \in Holding, child'[f].pc \in Holding,
               Blob(e)' = Blob(f)'
        PROVE  e = f
    BY <2>3 DEF ReservationInv
  <2> QED
    BY <2>1, <2>2, <2>3 DEF ReservationInv
<1>6. ASSUME NEW c \in Children, ChildStep(c), Writes(c)
      PROVE  ReservationInv'
  <2>1. Moved(c) /\ \A e \in Children \ {c} : child'[e] = child[e]
    BY <1>6, Moves
  <2>2. ASSUME NEW e \in Children, e # c
        PROVE  /\ Blob(e)' = Blob(e) /\ child'[e].pc = child[e].pc
               /\ child[e].pc \in Holding => reservations'[Blob(e)].state # "none"
               /\ child[e].pc \in Fresh => reservations'[Blob(e)] = Reservation("reserved", FALSE)
    <3>1. Blob(e)' = Blob(e) /\ child'[e].pc = child[e].pc
      BY <2>1, <2>2 DEF Blob
    <3>2. child[e].pc \in Holding => reservations'[Blob(e)].state # "none"
      BY <1>1, <1>3, <1>6, Written
      DEF ReservationInv
    <3>3. child[e].pc \in Fresh => reservations'[Blob(e)] = Reservation("reserved", FALSE)
      BY <1>1, <1>2, <1>3, <1>6, <2>2, Written DEF ReservationInv
    <3> QED
      BY <3>1, <3>2, <3>3
  <2>3. CASE ReserveRisk(c)
    <3>1. /\ Blob(c)' \in Intents \X Dates /\ reservations[Blob(c)'].state = "none"
          /\ reservations' = [reservations EXCEPT ![Blob(c)'] = Reservation("reserved", FALSE)]
      BY <2>3, NewBlob
    <3>2. reservations'[Blob(c)'] = Reservation("reserved", FALSE)
      BY <3>1 DEF TypeOK
    <3>3. ASSUME NEW e \in Children, e # c, child'[e].pc \in Holding
          PROVE  Blob(e)' # Blob(c)'
      BY <2>2, <3>1, <3>3 DEF ReservationInv
    <3>4. ASSUME NEW e \in Children
          PROVE  /\ child'[e].pc \in Holding => reservations'[Blob(e)'].state # "none"
                 /\ child'[e].pc \in Fresh => reservations'[Blob(e)'] = Reservation("reserved", FALSE)
      BY <1>3, <2>2, <3>2
    <3>5. ASSUME NEW e \in Children, NEW f \in Children, child'[e].pc \in Holding, child'[f].pc \in Holding,
                 Blob(e)' = Blob(f)'
          PROVE  e = f
      <4>1. CASE e = c \/ f = c
        BY <3>3, <3>5, <4>1 DEF Blob
      <4>2. CASE e # c /\ f # c
        <5>1. child[e].pc \in Holding /\ child[f].pc \in Holding /\ Blob(e)' = Blob(e) /\ Blob(f)' = Blob(f)
          BY <2>2, <3>5, <4>2
        <5> QED
          BY <3>5, <5>1 DEF ReservationInv
      <4> QED
        BY <4>1, <4>2
    <3> QED
      BY <3>4, <3>5 DEF ReservationInv
  <2>4. CASE ~ReserveRisk(c)
    <3>1. child'[c].pc \in Holding => child[c].pc \in Holding /\ Blob(c)' = Blob(c)
      BY <2>1, <2>4, Phases DEF Same, Blob
    <3>2. child'[c].pc \in Fresh => child[c].pc \in Fresh
      BY <2>1, <2>4, Phases
    <3>3. child'[c].pc \in Holding => reservations'[Blob(c)'].state # "none"
      <4>1. ASSUME child'[c].pc \in Holding
            PROVE  Blob(c) \in Intents \X Dates /\ reservations[Blob(c)].state # "none"
        BY <1>1, <3>1, <4>1 DEF ReservationInv
      <4>2. ASSUME child'[c].pc \in Holding
            PROVE  \/ reservations'[Blob(c)] = reservations[Blob(c)]
                   \/ reservations'[Blob(c)].state # "none"
        BY <1>6, <4>1, <4>2, Written
      <4> QED
        BY <3>1, <4>1, <4>2
    <3>4. child'[c].pc \in Fresh => reservations'[Blob(c)'] = Reservation("reserved", FALSE)
      <4>1. ASSUME child'[c].pc \in Fresh
            PROVE  /\ Blob(c) \in Intents \X Dates /\ reservations[Blob(c)] = Reservation("reserved", FALSE)
                   /\ child[c].pc # "reserve" /\ Blob(c)' = Blob(c)
        BY <1>1, <1>2, <3>1, <3>2, <4>1 DEF ReservationInv
      <4>2. ASSUME child'[c].pc \in Fresh
            PROVE  reservations'[Blob(c)] = reservations[Blob(c)]
        BY <1>6, <4>1, <4>2, Written
      <4> QED
        BY <4>1, <4>2
    <3>5. ASSUME NEW e \in Children, NEW f \in Children, child'[e].pc \in Holding, child'[f].pc \in Holding,
                 Blob(e)' = Blob(f)'
          PROVE  e = f
      <4>1. child[e].pc \in Holding /\ child[f].pc \in Holding /\ Blob(e) = Blob(f)
        <5>1. \A g \in Children : child'[g].pc \in Holding => child[g].pc \in Holding /\ Blob(g)' = Blob(g)
          BY <2>2, <3>1
        <5> QED
          BY <3>5, <5>1
      <4> QED
        BY <4>1 DEF ReservationInv
    <3> QED
      BY <2>2, <3>3, <3>4, <3>5 DEF ReservationInv
  <2> QED
    BY <2>3, <2>4
<1>7. ASSUME NEW c \in Children, ChildStep(c), UNCHANGED reservations
      PROVE  ReservationInv'
  BY <1>6, <1>7 DEF Writes
<1> QED
  BY <1>5, <1>6, <1>7, ReservationWrites, Others

\* A consumed authorization has one owner, who sends its order once.
LEMMA OnceNext ==
  ASSUME TypeOK, ChildInv, OnceInv, [Next]_vars
  PROVE  OnceInv'
<1>1. \A i \in Intents :
        /\ order'[i] = "none" => order[i] = "none"
        /\ order[i] = "none" /\ order'[i] # "none" => \E g \in Children : SendOrder(g) /\ child[g].intent = i
  BY OrderMoves
<1>2. \A e \in Children : child[e].pc # "idle" => child[e].intent \in Intents
  BY DEF ChildInv
<1>3. /\ \A pc : pc \in Ordered => pc \in Authorized
      /\ \A pc : pc \in Authorized => pc \in Holding /\ pc # "idle" /\ pc # "consume"
      /\ "orders2" \in Authorized /\ "orders2" \notin Ordered /\ "send" \in Authorized /\ "answer" \in Ordered
  BY DEF Holding, Authorized, Ordered, Submitted, Reporting
<1>4. ASSUME NEW g \in Children, SendOrder(g)
      PROVE  child[g].pc = "send" /\ child'[g].pc = "answer"
  BY <1>4, Goes DEF SendOrder, Goto, Steps, TypeOK
<1>5. CASE ~\E c \in Children : ChildStep(c)
  <2>1. child' = child /\ consumed' = consumed /\ ~\E c \in Children : SendOrder(c)
    BY <1>5, Others DEF ChildStep
  <2>2. \A i \in Intents : order'[i] = "none" <=> order[i] = "none"
    BY <1>1, <2>1
  <2> QED
    BY <1>2, <1>3, <2>1, <2>2 DEF OnceInv
<1>6. ASSUME NEW c \in Children, ChildStep(c)
      PROVE  OnceInv'
  <2>1. Moved(c) /\ (\A e \in Children \ {c} : child'[e] = child[e]) /\ consumed \subseteq consumed'
    BY <1>6, Moves, ChildTouches
  <2>2. \/ child'[c].pc \notin Authorized
        \/ /\ child'[c].pc = "orders2" /\ Same(c) /\ child[c].intent \in Intents
           /\ child[c].intent \notin consumed /\ child[c].intent \in consumed' /\ order' = order
        \/ child'[c].pc \in Authorized /\ child[c].pc \in Authorized /\ Same(c)
    <3>1. CASE ConsumeAuthorization(c)
      <4>1. Goto(c, "consume", "orders2") /\ child[c].pc = "consume"
        BY <3>1 DEF ConsumeAuthorization, Goto
      <4>2. child'[c].pc = "orders2" /\ Same(c)
        BY <4>1, Goes DEF Goto, Steps, TypeOK, Reserved
      <4> QED
        BY <1>2, <3>1, <4>1, <4>2 DEF ConsumeAuthorization, venue
    <3>2. CASE ReserveRisk(c)
      BY <1>3, <3>2, NewBlob
    <3> QED
      BY <1>3, <2>1, <3>1, <3>2, Phases
  <2>3. ASSUME NEW i \in Intents, order'[i] # "none"
        PROVE  i \in consumed'
    <3>1. CASE order[i] # "none"
      BY <2>1, <3>1 DEF OnceInv
    <3>2. CASE order[i] = "none"
      <4>1. PICK g \in Children : SendOrder(g) /\ child[g].intent = i
        BY <1>1, <2>3, <3>2
      <4> QED
        BY <1>3, <1>4, <2>1, <4>1 DEF OnceInv
    <3> QED
      BY <3>1, <3>2
  <2>4. ASSUME NEW e \in Children, child[e].pc \in Authorized
        PROVE  /\ child[e].intent \in Intents /\ child[e].intent \in consumed
               /\ order'[child[e].intent] # "none" <=> (child[e].pc \in Ordered \/ SendOrder(e))
    <3>1. child[e].intent \in Intents /\ child[e].intent \in consumed
          /\ (child[e].pc \in Ordered <=> order[child[e].intent] # "none")
      BY <1>2, <1>3, <2>4 DEF OnceInv
    <3>2. ASSUME SendOrder(e)
          PROVE  order'[child[e].intent] # "none"
      BY <3>1, <3>2 DEF SendOrder, TypeOK
    <3>3. ASSUME order'[child[e].intent] # "none", child[e].pc \notin Ordered
          PROVE  SendOrder(e)
      <4>1. PICK g \in Children : SendOrder(g) /\ child[g].intent = child[e].intent
        BY <1>1, <3>1, <3>3
      <4>2. child[g].pc \in Authorized
        BY <1>3, <1>4, <4>1
      <4> QED
        BY <2>4, <4>1, <4>2 DEF OnceInv
    <3> QED
      BY <1>1, <3>1, <3>2, <3>3
  <2>5. ASSUME NEW e \in Children, child'[e].pc \in Authorized
        PROVE  child'[e].intent \in consumed' /\ (child'[e].pc \in Ordered <=> order'[child'[e].intent] # "none")
    <3>1. CASE e # c
      <4>1. child'[e] = child[e] /\ ~SendOrder(e)
        BY <1>4, <2>1, <3>1
      <4> QED
        BY <2>1, <2>4, <2>5, <4>1
    <3>2. CASE e = c /\ child[c].pc \in Authorized /\ Same(c)
      <4>1. child'[c].pc \in Ordered <=> (child[c].pc \in Ordered \/ SendOrder(c))
        BY <1>3, <1>4, <2>1, <2>5, <3>2, Phases
      <4> QED
        BY <2>1, <2>4, <3>2, <4>1 DEF Same
    <3>3. CASE e = c /\ child'[c].pc = "orders2" /\ Same(c) /\ child[c].intent \in Intents
               /\ child[c].intent \notin consumed /\ child[c].intent \in consumed' /\ order' = order
      BY <1>3, <3>3 DEF OnceInv, Same
    <3> QED
      BY <2>2, <2>5, <3>1, <3>2, <3>3
  <2>6. ASSUME NEW e \in Children, NEW f \in Children, child'[e].pc \in Authorized, child'[f].pc \in Authorized,
               child'[e].intent = child'[f].intent
        PROVE  e = f
    <3>1. ASSUME NEW g \in Children, child'[g].pc \in Authorized
          PROVE  \/ child[g].pc \in Authorized /\ child'[g].intent = child[g].intent
                 \/ g = c /\ child'[g].intent \notin consumed
      <4>1. CASE g # c
        BY <2>1, <3>1, <4>1
      <4>2. CASE g = c
        BY <2>2, <3>1, <4>2 DEF Same
      <4> QED
        BY <4>1, <4>2
    <3> QED
      BY <2>6, <3>1 DEF OnceInv
  <2> QED
    BY <2>3, <2>5, <2>6 DEF OnceInv
<1> QED
  BY <1>5, <1>6

\* A result is of a closed order, and only what has won is redeemed.
LEMMA VenueNext ==
  ASSUME TypeOK, ChildInv, OnceInv, VenueInv, [Next]_vars
  PROVE  VenueInv'
<1>1. ASSUME NEW i \in Intents
      PROVE  /\ position'[i] # "none" => order'[i] \in {"live", "closed"}
             /\ position'[i] \in {"won", "lost", "redeemed"} => order'[i] = "closed"
             /\ position[i] \in {"won", "redeemed"} => position'[i] \in {"won", "redeemed"}
             /\ position[i] = "redeemed" => position'[i] = "redeemed"
  BY OrderMoves, PositionMoves DEF VenueInv
<1>2. /\ \A i \in Intents : i \in relayed' \cup redeeming' => i \in relayed \cup redeeming \/ position[i] = "won"
      /\ \A i \in Intents :
           redeemer' \in {"verified", "settled"} /\ i \in redeeming' =>
             \/ redeemer \in {"verified", "settled"} /\ i \in redeeming
             \/ position[i] = "redeemed"
  <2>1. CASE PrepareRedemption
    BY <2>1 DEF PrepareRedemption, venue
  <2>2. CASE SubmitRedemption \/ AbandonRedemption \/ VerifyRedemption
    BY <2>2 DEF SubmitRedemption, AbandonRedemption, VerifyRedemption, StopRedeemer, venue
  <2>3. CASE SettleRedeemed \/ PublishRedeemed \/ EndRedemption
    BY <2>3 DEF SettleRedeemed, PublishRedeemed, EndRedemption, StopRedeemer, venue
  <2>4. CASE Redeem \/ RelayerFails \/ LeaseLapses \/ UNCHANGED vars
    BY <2>4 DEF Redeem, RelayerFails, LeaseLapses, vars, venue, worker
  <2>5. ASSUME NEW i \in Intents, VenueStep(i)
        PROVE  UNCHANGED <<relayed, redeeming, redeemer>>
    BY <2>5 DEF VenueStep, Accept, Reject, Close, Fill, Resolve, worker
  <2>6. ASSUME NEW c \in Children, ChildStep(c)
        PROVE  UNCHANGED <<relayed, redeeming, redeemer>>
    BY <2>6, ChildTouches
  <2> QED
    BY <2>1, <2>2, <2>3, <2>4, <2>5, <2>6 DEF Next, RedeemerStep
<1> QED
  BY <1>1, <1>2 DEF VenueInv

\* What is at risk keeps an unresolved reservation: the one it was sent with.
LEMMA SafeNext ==
  ASSUME TypeOK, ChildInv, ReservationInv, OnceInv, VenueInv, SafeInv, [Next]_vars
  PROVE  SafeInv'
<1> SUFFICES ASSUME NEW i \in Intents, AtRisk(i)'
             PROVE  \E d \in Dates :
                      /\ ~IsResolved(reservations'[<<i, d>>])
                      /\ \A c \in Children : child'[c].pc \in Reserved \cup {"send"} => Blob(c)' # <<i, d>>
  BY DEF SafeInv, IsResolved
<1>1. AtRisk(i) \/ \E c \in Children : SendOrder(c) /\ child[c].intent = i
  BY OrderMoves, PositionMoves DEF AtRisk, VenueInv
<1>2. /\ \A pc : pc \in Reserved \cup {"send"} => pc \in Fresh /\ pc \in Holding
      /\ \A pc : pc \in Fresh => pc \in Holding
      /\ "send" \in Fresh /\ "answer" \in Ordered /\ "reserve" \notin Holding /\ "idle" \notin Holding
  <2>1. /\ \A pc : pc \in Reserved \cup {"send"} => pc \in Fresh /\ pc \in Holding
        /\ \A pc : pc \in Fresh => pc \in Holding
        /\ "send" \in Fresh /\ "answer" \in Ordered
    BY DEF Fresh, Reserved, Holding, Authorized, Ordered
  <2>2. "reserve" \notin Holding /\ "idle" \notin Holding
    BY SMTT(30) DEF Holding, Authorized, Ordered, Submitted, Reporting
  <2> QED
    BY <2>1, <2>2
<1>3. ~IsResolved(Reservation("reserved", FALSE)) /\ \A r : r.state = "none" => IsResolved(r)
  BY DEF IsResolved, Reservation
<1>4. CASE \E c \in Children : SendOrder(c) /\ child[c].intent = i
  <2>1. PICK c \in Children : SendOrder(c) /\ child[c].intent = i
    BY <1>4
  <2>2. child[c].pc = "send" /\ child'[c].pc = "answer" /\ Blob(c) = <<i, child[c].date>> /\ child[c].date \in Dates
    BY <2>1, Goes DEF SendOrder, Goto, Steps, TypeOK, Blob
  <2>3. reservations'[Blob(c)] = Reservation("reserved", FALSE)
    BY <1>2, <2>1, <2>2 DEF ReservationInv, SendOrder, evidence
  <2>4. ASSUME NEW e \in Children, child'[e].pc \in Reserved \cup {"send"}
        PROVE  Blob(e)' # Blob(c)
    <3>1. e # c
      BY <1>2, <2>2, <2>4 DEF Reserved
    <3>2. child'[e] = child[e]
      BY <2>1, <3>1, Moves DEF ChildStep
    <3>3. child[e].pc \in Holding /\ child[c].pc \in Holding /\ Blob(e)' = Blob(e)
      BY <1>2, <2>2, <2>4, <3>2 DEF Blob
    <3> QED
      BY <3>1, <3>3 DEF ReservationInv
  <2> QED
    BY <1>3, <2>2, <2>3, <2>4
<1>5. CASE AtRisk(i)
  <2>1. PICK d \in Dates : /\ ~IsResolved(reservations[<<i, d>>])
                           /\ \A c \in Children : child[c].pc \in Reserved \cup {"send"} => Blob(c) # <<i, d>>
    BY <1>5 DEF SafeInv
  <2>2. <<i, d>> \in Intents \X Dates /\ reservations[<<i, d>>].state # "none"
    BY <1>3, <2>1
  <2>3. ~IsResolved(reservations'[<<i, d>>])
    <3>1. CASE UNCHANGED reservations
      BY <2>1, <3>1
    <3>2. CASE Settles
      <4>1. position[i] \notin {"won", "lost", "redeemed"}
        BY <1>5 DEF AtRisk, VenueInv
      <4> QED
        BY <2>1, <2>2, <3>2, <4>1, Written
    <3>3. ASSUME NEW c \in Children, ChildStep(c), Writes(c), reservations'[<<i, d>>] # reservations[<<i, d>>]
          PROVE  ~IsResolved(reservations'[<<i, d>>])
      <4>1. child[c].pc \in Holding /\ Blob(c) = <<i, d>>
        BY <2>2, <3>3, Written
      <4>2. child[c].pc \notin Reserved \cup {"send"} /\ child[c].pc # "reserve"
        BY <1>2, <2>1, <4>1
      <4>3. PICK state \in ReservationStates, matched \in BOOLEAN :
              /\ Finalize(c, state, matched)
              /\ ~IsResolved(Reservation(state, matched)) \/ ~AtRisk(child[c].intent)
        BY <3>3, <4>2 DEF Writes
      <4>4. child[c].intent = i
        BY <4>1 DEF Blob
      <4> QED
        BY <1>5, <2>2, <4>1, <4>3, <4>4 DEF Finalize, Blob, TypeOK
    <3> QED
      BY <2>1, <3>1, <3>2, <3>3, ReservationWrites
  <2>4. ASSUME NEW c \in Children, child'[c].pc \in Reserved \cup {"send"}
        PROVE  Blob(c)' # <<i, d>>
    <3>1. CASE ~ChildStep(c)
      <4>1. child'[c] = child[c]
        BY <3>1, Moves, Others
      <4> QED
        BY <2>1, <2>4, <4>1 DEF Blob
    <3>2. CASE ChildStep(c) /\ ~ReserveRisk(c)
      <4>1. child[c].pc \in Reserved \cup {"send"} /\ Same(c)
        BY <1>2, <2>4, <3>2, Moves, Phases
      <4> QED
        BY <2>1, <4>1 DEF Blob, Same
    <3>3. CASE ReserveRisk(c)
      BY <2>2, <3>3, NewBlob
    <3> QED
      BY <3>1, <3>2, <3>3
  <2> QED
    BY <2>3, <2>4
<1> QED
  BY <1>1, <1>4, <1>5

\* What is at risk or about to be has an unresolved reservation.
LEMMA ExposedIsUnresolved ==
  ASSUME TypeOK, ReservationInv, SafeInv, NEW i \in Intents, Exposed(i)
  PROVE  i \in Unresolved
<1>1. CASE AtRisk(i)
  BY <1>1 DEF SafeInv, Unresolved
<1>2. ASSUME NEW c \in Children, child[c].pc = "send", child[c].intent = i
      PROVE  i \in Unresolved
  <2>1. reservations[<<i, child[c].date>>] = Reservation("reserved", FALSE) /\ child[c].date \in Dates
    BY <1>2 DEF ReservationInv, Blob, Fresh, TypeOK
  <2> QED
    BY <2>1 DEF Unresolved, IsResolved, Reservation
<1> QED
  BY <1>1, <1>2 DEF Exposed

\* Nobody passes the second preflight while another intent is exposed.
LEMMA OneNext ==
  ASSUME TypeOK, ChildInv, ReservationInv, OnceInv, VenueInv, SafeInv, OneInv, [Next]_vars
  PROVE  OneInv'
<1>1. ASSUME NEW i \in Intents, Exposed(i)', ~Exposed(i)
      PROVE  Unresolved = {i}
  <2>1. ASSUME AtRisk(i)'
        PROVE  Exposed(i)
    <3>1. AtRisk(i) \/ \E c \in Children : SendOrder(c) /\ child[c].intent = i
      BY <2>1, OrderMoves, PositionMoves DEF AtRisk, VenueInv
    <3> QED
      BY <3>1 DEF Exposed, SendOrder, Goto
  <2>2. PICK c \in Children : child'[c].pc = "send" /\ child'[c].intent = i
    BY <1>1, <2>1 DEF Exposed, AtRisk
  <2>3. ChildStep(c) /\ Moved(c)
    <3>1. child'[c] # child[c]
      BY <1>1, <2>2 DEF Exposed
    <3> QED
      BY <3>1, Moves, Others
  <2>4. SecondPreflight(c)
    BY <2>2, <2>3, Phases
  <2>5. child'[c].intent = child[c].intent
    BY <2>4, Goes DEF SecondPreflight, Preflight, Goto, Same, Steps, TypeOK
  <2>6. reservations[Blob(c)] = Reservation("reserved", FALSE) /\ Blob(c) = <<i, child[c].date>>
        /\ child[c].date \in Dates
    BY <2>2, <2>4, <2>5 DEF SecondPreflight, Preflight, Goto, ReservationInv, Fresh, Reserved, Blob, TypeOK
  <2>7. i \in Unresolved
    BY <2>6 DEF Unresolved, IsResolved, Reservation
  <2> QED
    BY <2>2, <2>4, <2>5, <2>7 DEF SecondPreflight, Preflight
<1>2. ASSUME NEW i \in Intents, NEW j \in Intents, Exposed(i)', Exposed(j)'
      PROVE  i = j
  <2>1. CASE Exposed(i) /\ Exposed(j)
    BY <2>1 DEF OneInv
  <2>2. CASE ~Exposed(i)
    BY <1>1, <1>2, <2>2, ExposedIsUnresolved
  <2>3. CASE ~Exposed(j)
    BY <1>1, <1>2, <2>3, ExposedIsUnresolved
  <2> QED
    BY <2>1, <2>2, <2>3
<1> QED
  BY <1>2 DEF OneInv

\* A reconciled order is closed, and the child knows whether it filled.
LEMMA Reconciled ==
  ASSUME TypeOK, ChildInv, NEW c \in Children, Reconcile(c), child'[c].pc # "emergency"
  PROVE  /\ order' = order /\ position' = position /\ terminal' = terminal
         /\ child[c].intent \in Intents /\ order[child[c].intent] = "closed" /\ Same(c)
         /\ IF child'[c].filled THEN child'[c].pc = "upload" /\ position[child[c].intent] # "none"
                                ELSE child'[c].pc = "orders3" /\ position[child[c].intent] = "none"
<1> DEFINE filled == position[child[c].intent] # "none"
           to     == IF filled THEN "upload" ELSE "orders3"
<1>1. child[c].intent \in Intents
  BY DEF Reconcile, ChildInv
<1>2. child' # [child EXCEPT ![c].pc = "emergency"]
  BY DEF TypeOK
<1>3. child' = [child EXCEPT ![c].pc = to, ![c].filled = filled] /\ filled \in BOOLEAN
  BY <1>2 DEF Reconcile
<1>4. to \in Steps
  BY DEF Steps, Reporting
<1>5. Same(c) /\ child'[c].pc = to /\ child'[c].filled = filled
  <2> HIDE DEF filled, to
  <2> QED
    BY <1>3, <1>4, Goes
<1> QED
  BY <1>1, <1>5 DEF Reconcile, evidence, venue

\* A terminal artifact is published for an order that did not fill or was redeemed.
LEMMA TerminalMoves ==
  ASSUME [Next]_vars
  PROVE  /\ terminal \subseteq terminal'
         /\ \A i \in terminal' \ terminal :
              \/ \E c \in Children : PublishNoFill(c) /\ child[c].intent = i
              \/ /\ redeemer = "settled" /\ i \in redeeming
                 /\ UNCHANGED <<order, position, child, summaries>>
<1>1. ASSUME NEW c \in Children, ChildStep(c)
      PROVE  terminal' = terminal \/ PublishNoFill(c)
  BY <1>1, ChildTouches
<1>2. ASSUME NEW c \in Children, PublishNoFill(c)
      PROVE  terminal' = terminal \cup {child[c].intent}
  BY <1>2 DEF PublishNoFill
<1>3. CASE RedeemerStep
  BY <1>3 DEF RedeemerStep, PrepareRedemption, SubmitRedemption, AbandonRedemption, VerifyRedemption,
     SettleRedeemed, PublishRedeemed, EndRedemption, evidence, venue
<1>4. CASE LeaseLapses \/ Redeem \/ RelayerFails \/ UNCHANGED vars
  BY <1>4 DEF LeaseLapses, Redeem, RelayerFails, vars, evidence
<1>5. ASSUME NEW i \in Intents, VenueStep(i)
      PROVE  terminal' = terminal
  BY <1>5 DEF VenueStep, Accept, Reject, Close, Fill, Resolve, evidence
<1> QED
  BY <1>1, <1>2, <1>3, <1>4, <1>5 DEF Next

\* The evidence stays true.
LEMMA EvidenceNext ==
  ASSUME TypeOK, ChildInv, OnceInv, VenueInv, EvidenceInv, [Next]_vars
  PROVE  EvidenceInv'
<1>1. \A i \in Intents :
        /\ order[i] = "closed" => order'[i] = "closed"
        /\ order[i] = "closed" /\ position[i] = "none" => position'[i] = "none"
        /\ position[i] # "none" => position'[i] # "none"
        /\ position[i] = "redeemed" => position'[i] = "redeemed"
  BY OrderMoves, PositionMoves DEF VenueInv
<1>2. \A e \in Children : child[e].pc # "idle" => child[e].intent \in Intents
  BY DEF ChildInv
<1>3. terminal \subseteq terminal'
  BY TerminalMoves
<1>4. ASSUME NEW e \in Children,
             \/ child'[e] = child[e]
             \/ Edge(e, "orders3", "publish") \/ Edge(e, "publish", "publish")
      PROVE  /\ child'[e].pc \in {"orders3", "publish"} =>
                  ~child'[e].filled /\ order'[child'[e].intent] = "closed" /\ position'[child'[e].intent] = "none"
             /\ child'[e].pc = "upload" =>
                  IF child'[e].filled THEN position'[child'[e].intent] # "none"
                  ELSE position'[child'[e].intent] = "none" /\ child'[e].intent \in terminal'
  <2>1. child'[e].pc \in {"orders3", "publish", "upload"} =>
          child'[e].intent = child[e].intent /\ child'[e].filled = child[e].filled /\ child[e].intent \in Intents
    BY <1>2, <1>4 DEF Edge, Same
  <2>2. child'[e].pc \in {"orders3", "publish"} => child[e].pc \in {"orders3", "publish"}
    BY <1>4 DEF Edge
  <2>3. child'[e].pc = "upload" => child[e].pc = "upload"
    BY <1>4 DEF Edge
  <2> QED
    BY <1>1, <1>3, <2>1, <2>2, <2>3 DEF EvidenceInv, EvidenceIsTrue
<1>5. ASSUME NEW e \in Children, PublishNoFill(e)
      PROVE  /\ child[e].intent \in Intents /\ order[child[e].intent] = "closed"
             /\ position[child[e].intent] = "none" /\ ~child[e].filled /\ child[e].intent \in terminal'
  BY <1>2, <1>5 DEF PublishNoFill, Goto, EvidenceInv
<1>6. ASSUME NEW e \in Children
      PROVE  /\ child'[e].pc \in {"orders3", "publish"} =>
                  ~child'[e].filled /\ order'[child'[e].intent] = "closed" /\ position'[child'[e].intent] = "none"
             /\ child'[e].pc = "upload" =>
                  IF child'[e].filled THEN position'[child'[e].intent] # "none"
                  ELSE position'[child'[e].intent] = "none" /\ child'[e].intent \in terminal'
  <2>1. CASE ~ChildStep(e)
    BY <1>4, <2>1, Moves, Others
  <2>2. CASE ChildStep(e) /\ PublishNoFill(e) /\ Edge(e, "publish", "upload")
    BY <1>1, <1>5, <2>2 DEF Edge, Same
  <2>3. CASE Reconcile(e) /\ child'[e].pc # "emergency"
    BY <2>3, Reconciled DEF Same
  <2>4. CASE Edge(e, "orders3", "publish") \/ Edge(e, "publish", "publish")
    BY <1>4, <2>4
  <2> QED
    BY <2>1, <2>2, <2>3, <2>4, Moves, Phases
<1>7. ASSUME NEW i \in Intents, i \in terminal'
      PROVE  order'[i] = "closed" /\ position'[i] \in {"none", "redeemed"}
  <2>1. order[i] = "closed" /\ position[i] \in {"none", "redeemed"}
    BY <1>5, <1>7, TerminalMoves DEF EvidenceInv, EvidenceIsTrue, VenueInv
  <2> QED
    BY <1>1, <2>1
<1>8. ASSUME NEW i \in Intents
      PROVE  /\ summaries'[i] = "fill" => position'[i] # "none"
             /\ summaries'[i] = "no_fill" => position'[i] = "none" /\ i \in terminal'
  <2>1. CASE summaries'[i] = summaries[i]
    BY <1>1, <1>3, <2>1 DEF EvidenceInv, EvidenceIsTrue
  <2>2. ASSUME NEW c \in Children, PreserveRisk(c), summaries'[i] # summaries[i]
        PROVE  summaries'[i] = "failed"
    BY <2>2 DEF PreserveRisk, TypeOK
  <2>3. ASSUME NEW c \in Children, UploadSummary(c), summaries'[i] # summaries[i]
        PROVE  /\ summaries'[i] = "fill" => position'[i] # "none"
               /\ summaries'[i] = "no_fill" => position'[i] = "none" /\ i \in terminal'
    <3>1. child[c].pc = "upload" /\ child[c].intent = i
          /\ summaries'[i] = IF child[c].filled THEN "fill" ELSE "no_fill"
      BY <2>3 DEF UploadSummary, TypeOK
    <3>2. IF child[c].filled THEN position[i] # "none" ELSE position[i] = "none" /\ i \in terminal
      BY <3>1 DEF EvidenceInv
    <3> QED
      BY <1>1, <1>3, <3>1, <3>2 DEF EvidenceInv, EvidenceIsTrue
  <2> QED
    BY <2>1, <2>2, <2>3, ChildTouches, Others
<1> QED
  BY <1>6, <1>7, <1>8 DEF EvidenceInv, EvidenceIsTrue

\* Every step keeps the types of what the children and the worker hold.
LEMMA HolderTypes ==
  ASSUME TypeOK, ChildInv, [Next]_vars
  PROVE  /\ consumed' \subseteq Intents /\ terminal' \subseteq Intents
         /\ summaries' \in [Intents -> {"none", "no_fill", "fill", "failed"}]
         /\ lease' \in Children \cup {Redeemer, Nobody} /\ lapses' \in 0..MaxLapses
         /\ relayed' \subseteq Intents /\ redeeming' \subseteq Intents
         /\ redeemer' \in {"idle", "prepared", "submitted", "verified", "settled"}
         /\ control' \in {"resolved", "unresolved"}
<1> USE DEF evidence, venue, worker
<1>1. ASSUME NEW c \in Children, ChildStep(c)
      PROVE  /\ consumed' \subseteq Intents /\ lease' \in Children \cup {Redeemer, Nobody}
             /\ UNCHANGED <<control, lapses>>
  <2> USE DEF TypeOK
  <2>1. child[c].pc # "idle" => child[c].intent \in Intents
    BY DEF ChildInv
  <2>2. CASE AcquireLease(c) \/ FirstPreflight(c) \/ ReserveRisk(c) \/ SecondPreflight(c)
             \/ ReadOpenOrders(c, "orders", "risk") \/ ReadOpenOrders(c, "orders2", "risk2")
             \/ ReadOpenOrders(c, "orders3", "publish")
    BY <2>2 DEF AcquireLease, FirstPreflight, ReserveRisk, SecondPreflight, Preflight, ReadOpenOrders
  <2>3. CASE ConsumeAuthorization(c) \/ FailReserved(c)
    BY <2>1, <2>3 DEF ConsumeAuthorization, FailReserved, Goto, Leave, Reserved
  <2>4. CASE SettleReported(c, "risk") \/ SettleReported(c, "risk2") \/ SettleReported(c, "publish")
             \/ FailUnreserved(c) \/ LoseReservation(c) \/ Acknowledged(c) \/ Reconcile(c)
    BY <2>4 DEF SettleReported, FailUnreserved, LoseReservation, Acknowledged, Reconcile, Leave
  <2>5. CASE ReconcileIncomplete(c) \/ FailSubmitted(c) \/ PreserveRisk(c) \/ PublishNoFill(c) \/ UploadSummary(c)
             \/ FailReporting(c) \/ Crash(c)
    BY <2>5 DEF ReconcileIncomplete, FailSubmitted, PreserveRisk, PublishNoFill, UploadSummary,
                FailReporting, Crash, Leave
  <2>6. CASE SendOrder(c) \/ NotAcknowledged(c) \/ CancelOrder(c) \/ EmergencyCancel(c)
    BY <2>6 DEF SendOrder, NotAcknowledged, CancelOrder, EmergencyCancel, Leave
  <2> QED
    BY <1>1, <2>2, <2>3, <2>4, <2>5, <2>6 DEF ChildStep
<1>2. ASSUME ~\E c \in Children : ChildStep(c)
      PROVE  UNCHANGED <<consumed, summaries>>
  BY <1>2, Others
<1>3. CASE RedeemerStep
  BY <1>2, <1>3 DEF TypeOK, RedeemerStep, PrepareRedemption, SubmitRedemption, AbandonRedemption,
     VerifyRedemption, SettleRedeemed, PublishRedeemed, EndRedemption, StopRedeemer
<1>4. CASE LeaseLapses
  BY <1>4, OrderAssumption DEF TypeOK, LeaseLapses
<1>5. CASE Redeem \/ RelayerFails \/ UNCHANGED vars
  BY <1>5 DEF TypeOK, Redeem, RelayerFails, vars
<1>6. ASSUME NEW i \in Intents, VenueStep(i)
      PROVE  UNCHANGED <<evidence, lease, lapses, relayed, worker>>
  BY <1>6 DEF VenueStep, Accept, Reject, Close, Fill, Resolve
<1>7. ASSUME NEW c \in Children, ChildStep(c)
      PROVE  terminal' \subseteq Intents /\ summaries' \in [Intents -> {"none", "no_fill", "fill", "failed"}]
  <2>1. CASE PublishNoFill(c)
    BY <2>1 DEF PublishNoFill, Goto, ChildInv, TypeOK
  <2>2. CASE PreserveRisk(c) \/ UploadSummary(c)
    BY <2>2 DEF PreserveRisk, UploadSummary, TypeOK
  <2> QED
    BY <1>7, <2>1, <2>2, ChildTouches DEF TypeOK
<1>8. ASSUME NEW c \in Children, ChildStep(c)
      PROVE  UNCHANGED <<relayed, redeeming, redeemer>>
  BY <1>8, ChildTouches
<1> QED
  BY <1>1, <1>3, <1>4, <1>5, <1>6, <1>7, <1>8 DEF Next, TypeOK

\* Every step keeps the types.
LEMMA TypeNext ==
  ASSUME TypeOK, ChildInv, OnceInv, VenueInv, [Next]_vars
  PROVE  TypeOK'
<1> DEFINE Blobs == [Intents \X Dates -> [state : ReservationStates, matched : BOOLEAN]]
<1>1. \A state \in ReservationStates, matched \in BOOLEAN :
        Reservation(state, matched) \in [state : ReservationStates, matched : BOOLEAN]
  BY DEF Reservation
<1>2. {"reserved", "released_no_order", "position_settled"} \subseteq ReservationStates
  BY DEF ReservationStates
<1>3. reservations' \in Blobs
  <2>1. CASE Settles
    <3>1. PICK S : reservations' = Settled(S)
      BY <2>1 DEF Settles
    <3>2. Reservation("position_settled", TRUE) \in [state : ReservationStates, matched : BOOLEAN]
      BY <1>1, <1>2
    <3>3. \A b \in Intents \X Dates : reservations[b] \in [state : ReservationStates, matched : BOOLEAN]
      BY DEF TypeOK
    <3> QED
      BY <3>1, <3>2, <3>3 DEF Settled
  <2>2. ASSUME NEW c \in Children, Writes(c)
        PROVE  reservations' \in Blobs
    <3>1. \E b : \E state \in ReservationStates, matched \in BOOLEAN :
            \/ reservations' = [reservations EXCEPT ![b] = Reservation(state, matched)]
            \/ UNCHANGED reservations
      BY <1>2, <2>2 DEF Writes, NewReservation, Finalize
    <3>2. reservations \in Blobs
      BY DEF TypeOK
    <3> QED
      BY <1>1, <3>1, <3>2
  <2> QED
    BY <2>1, <2>2, ReservationWrites DEF TypeOK
<1>4. child' \in [Children -> ChildStates]
  BY Moves, Others DEF TypeOK, ChildStates
<1> QED
  BY <1>3, <1>4, OrderMoves, PositionMoves, HolderTypes DEF TypeOK, ChildStates

----------------------------------------------------------------------------
(* Theorems *)

\* The invariant holds in every reachable state.
THEOREM Invariance == Spec => []IInv
<1>1. Init => IInv
  <2> SUFFICES ASSUME Init PROVE IInv
    OBVIOUS
  <2> USE DEF Init, Idle, Reservation
  <2>1. TypeOK
    BY OrderAssumption DEF TypeOK, ReservationStates, Steps, Dates
  <2>2. \A c \in Children : child[c].pc = "idle" /\ child[c] = Idle
    OBVIOUS
  <2>3. ChildInv /\ ReservationInv /\ OnceInv
    BY <2>2 DEF ChildInv, ReservationInv, OnceInv, Holding, Authorized, Ordered, Fresh, Reserved, Submitted, Reporting
  <2>4. VenueInv /\ SafeInv /\ OneInv /\ EvidenceInv
    BY <2>2 DEF VenueInv, SafeInv, OneInv, Exposed, AtRisk, EvidenceInv, EvidenceIsTrue
  <2> QED
    BY <2>1, <2>3, <2>4 DEF IInv
<1>2. IInv /\ [Next]_vars => IInv'
  <2> SUFFICES ASSUME IInv, [Next]_vars PROVE IInv'
    OBVIOUS
  <2> USE DEF IInv
  <2>1. TypeOK' /\ ChildInv' /\ OnceInv'
    BY TypeNext, ChildNext, OnceNext
  <2>2. VenueInv' /\ ReservationInv'
    BY VenueNext, ReservationNext
  <2>3. SafeInv' /\ OneInv'
    BY SafeNext, OneNext
  <2>4. EvidenceInv'
    BY EvidenceNext
  <2> QED
    BY <2>1, <2>2, <2>3, <2>4
<1> QED
  BY <1>1, <1>2, PTL DEF Spec

\* The variables keep their types.
THEOREM TypeCorrect == Spec => []TypeOK
<1>1. IInv => TypeOK
  BY DEF IInv
<1> QED
  BY <1>1, Invariance, PTL

\* Money at the venue is reserved: no reservation is released, finalized or settled
\* while the order of its intent may still take money.
THEOREM CapitalReserved == Spec => []ReleasedCapitalIsSafe
<1>1. IInv => ReleasedCapitalIsSafe
  BY ExposedIsUnresolved DEF IInv, ReleasedCapitalIsSafe, Exposed
<1> QED
  BY <1>1, Invariance, PTL

\* However many children run, lapse and die, one order is at risk at a time.
THEOREM OneAtRisk == Spec => []OneOrderAtRisk
<1>1. IInv => OneOrderAtRisk
  BY DEF IInv, OneInv, Exposed, OneOrderAtRisk
<1> QED
  BY <1>1, Invariance, PTL

\* What is published about an order is true, and stays so.
THEOREM TrueEvidence == Spec => []EvidenceIsTrue
<1>1. IInv => EvidenceIsTrue
  BY DEF IInv, EvidenceInv
<1> QED
  BY <1>1, Invariance, PTL

\* One authorization pays for one order.
THEOREM OneOrderPerAuthorization == Spec => SentOnce
<1>1. IInv /\ [Next]_vars => [\A i \in Intents : order'[i] = "sent" => order[i] \in {"none", "sent"}]_vars
  BY OrderMoves DEF IInv
<1> QED
  BY <1>1, Invariance, PTL DEF Spec, SentOnce
=============================================================================
