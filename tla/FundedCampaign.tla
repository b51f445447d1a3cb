--------------------------- MODULE FundedCampaign ---------------------------
(* What the funded ladder promises, whoever moves it: a campaign is started  *)
(* once, every stage is granted before it spends and passed before the next, *)
(* stages are taken one at a time, and a campaign that has stopped or has    *)
(* reached the last checkpoint never moves again.                            *)
EXTENDS Naturals

CONSTANT Stages          \* number of checkpoints of the ladder

VARIABLES status, stage  \* the checkpoint being worked towards, from 0

Init == status = "none" /\ stage = 0

Start == /\ status = "none"
         /\ \/ status' = "waiting" /\ stage' = 1
            \/ status' = "stopped" /\ stage' = 0

Grant == status = "waiting" /\ status' = "spending" /\ UNCHANGED stage

Pass == /\ status = "spending"
        /\ IF stage + 1 < Stages THEN status' = "waiting" /\ stage' = stage + 1
                                 ELSE status' = "go" /\ UNCHANGED stage

Stop == status \in {"waiting", "spending"} /\ status' = "stopped" /\ UNCHANGED stage

Next == Start \/ Grant \/ Pass \/ Stop

Spec == Init /\ [][Next]_<<status, stage>>
=============================================================================
