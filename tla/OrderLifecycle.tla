-------------------------- MODULE OrderLifecycle --------------------------
(* What the paper trading engine promises about one order: it is accepted   *)
(* once, a maker order rests until it is filled or closed, a taker order is *)
(* filled as it is accepted, and an order that was filled or closed is      *)
(* never touched again.  One step may move many orders: a cancel/replace    *)
(* closes every quote of a market and accepts new ones in one step.         *)

CONSTANT Orders                         \* order ids

VARIABLE status

Status == {"new", "resting", "filled", "closed"}

TypeOK == status \in [Orders -> Status]

Init == status = [id \in Orders |-> "new"]

Edges == { <<"new", "resting">>, <<"new", "filled">>,
           <<"resting", "filled">>, <<"resting", "closed">> }

Move ==
  /\ status' \in [Orders -> Status]
  /\ \A id \in Orders : status'[id] # status[id] => <<status[id], status'[id]>> \in Edges

Spec == Init /\ [][Move]_status

===========================================================================
