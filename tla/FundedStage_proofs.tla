------------------------- MODULE FundedStage_proofs -------------------------
(* Theorems of FundedStage, for any stage, any decisions and any number of   *)
(* executions: its types, the quota, that no order replaces another, and     *)
(* that a checkpoint is exact.                                               *)
(*                                                                          *)
(* The argument: without overlap, what an execution listed is still what is  *)
(* stored when it decides, so it authorizes only when everything authorized  *)
(* before is complete.  With overlap that is lost, and the chain holds: a    *)
(* document is written once, after the documents its chain names, and a      *)
(* checkpoint is published only while its last document is the only one of   *)
(* its length.                                                               *)
EXTENDS FundedStage, FiniteSetTheorems, TLAPS

\* What the documents say of a decision.
DocumentInv ==
  /\ spent \subseteq authorizations /\ filled \subseteq spent /\ terminal \subseteq spent
  /\ pending \subseteq filled /\ Completed \subseteq terminal

\* The order an execution is at, by its step.
OrderOf(c) ==
  /\ run[c].waiting \subseteq pending
  /\ run[c].pc = "child" => run[c].decision \in authorizations
  /\ run[c].pc \in {"sent", "located"} => run[c].decision \in spent
  /\ run[c].pc = "located" => run[c].decision \in filled \cup terminal
  /\ run[c].pc = "settle" => run[c].decision \in pending
  /\ run[c].pc \in {"chain", "progress"} => run[c].decision \in terminal
  /\ run[c].guarded \/ run[c].pc = "block" => run[c].decision \in Decisions
OrderInv == \A c \in Controllers : OrderOf(c)

\* The first n entries of a chain are different completed decisions.
Exact(s, n) == \A i \in 1..n : s[i] \in Completed /\ \A j \in 1..n : s[i] = s[j] => i = j

\* A chain that is about to be written: completed orders, then its own.
Extends(s, d) == Len(s) >= 1 /\ s[Len(s)] = d /\ Exact(s, Len(s) - 1)

ChainInv ==
  /\ \A d \in Completed : Exact(progress[d], Len(progress[d]))
  /\ \A c \in Controllers : run[c].pc = "progress" => Extends(run[c].chain, run[c].decision)
  /\ \A s \in checkpoints : Len(s) = Quota /\ \E d \in Completed : progress[d] = s
  /\ \A s, t \in checkpoints : s = t

\* Without overlap: one execution at a time, whose listings are exact when it decides.
Listed(c) ==
  /\ run[c].pc \in {"idle", "consume", "authorize_stage", "block_check"} => run[c].listed = {}
  /\ run[c].pc \in {"list", "decide", "order"} =>
        /\ "authorizations" \in run[c].listed => run[c].attempted = authorizations
        /\ "completed" \in run[c].listed => run[c].completed = Completed
        /\ "pending" \in run[c].listed => run[c].waiting = pending
  /\ run[c].pc \in {"decide", "order"} => run[c].listed = Listings
  /\ run[c].pc = "order" =>
        Orphans(c) = {} /\ run[c].waiting \subseteq run[c].completed /\ Cardinality(run[c].attempted) < Quota

\* Past its check for a stage block, an execution knows there is none.
Unchecked == {"idle", "consume", "authorize_stage", "block_check", "block"}

Cleared(c) == run[c].pc \notin Unchecked => blocks = {}

SoloInv ==
  ~overlapped =>
    /\ \A c, o \in Controllers : run[c].pc # "idle" /\ run[o].pc # "idle" => c = o
    /\ Cardinality(authorizations) <= Quota
    /\ \A c \in Controllers : Listed(c) /\ Cleared(c)

IInv == TypeOK /\ DocumentInv /\ OrderInv /\ ChainInv /\ SoloInv

-----------------------------------------------------------------------------

\* The other executions, and what an execution knows, stay as they are.
Others(c) == \A o \in Controllers \ {c} : run'[o] = run[o]
SameListing(c) ==
  /\ run'[c].listed = run[c].listed /\ run'[c].attempted = run[c].attempted
  /\ run'[c].completed = run[c].completed /\ run'[c].waiting = run[c].waiting
SameOrder(c) ==
  /\ run'[c].decision = run[c].decision /\ run'[c].chain = run[c].chain /\ run'[c].guarded = run[c].guarded

\* Documents are only added.
Later ==
  /\ authorizations \subseteq authorizations' /\ spent \subseteq spent' /\ filled \subseteq filled'
  /\ terminal \subseteq terminal' /\ pending \subseteq pending'
  /\ Completed \subseteq Completed' /\ \A d \in Completed : progress'[d] = progress[d]

\* An execution that does nothing.
LEMMA IdleIsTyped ==
  /\ Idle \in Executions /\ Idle.pc = "idle" /\ Idle.listed = {} /\ Idle.waiting = {} /\ ~Idle.guarded
BY DEF Idle, Executions, Steps

\* The sets of decisions are finite.
LEMMA FiniteDecisions ==
  ASSUME NEW S \in SUBSET Decisions
  PROVE  IsFiniteSet(S) /\ Cardinality(S) \in Nat
BY StageAssumption, FS_Subset, FS_CardinalityType

\* End and Goto touch one execution.
LEMMA Moves ==
  ASSUME TypeOK, NEW c \in Controllers
  PROVE  /\ End(c) => run' \in [Controllers -> Executions] /\ run'[c] = Idle /\ Others(c)
         /\ \A pc \in Steps : Goto(c, pc) =>
              run' \in [Controllers -> Executions] /\ run'[c].pc = pc /\ SameListing(c) /\ SameOrder(c) /\ Others(c)
<1>1. ASSUME End(c)
      PROVE  run' \in [Controllers -> Executions] /\ run'[c] = Idle /\ Others(c)
  BY <1>1, IdleIsTyped DEF TypeOK, End, Others
<1>2. ASSUME NEW pc \in Steps, Goto(c, pc)
      PROVE  run' \in [Controllers -> Executions] /\ run'[c].pc = pc /\ SameListing(c) /\ SameOrder(c) /\ Others(c)
  BY <1>2 DEF TypeOK, Goto, Executions, Others, SameListing, SameOrder
<1> QED
  BY <1>1, <1>2

\* An execution that takes up a decision keeps its listings.
LEMMA Takes ==
  ASSUME TypeOK, NEW c \in Controllers, NEW pc \in Steps, NEW d \in Decisions,
         run' = [run EXCEPT ![c].pc = pc, ![c].decision = d]
  PROVE  /\ run' \in [Controllers -> Executions] /\ Others(c)
         /\ SameListing(c) /\ run'[c].guarded = run[c].guarded
         /\ run'[c].pc = pc /\ run'[c].decision = d
BY DEF TypeOK, Executions, Others, SameListing

\* The ends of Decide.
LEMMA Decides ==
  ASSUME TypeOK, NEW c \in Controllers, Decide(c)
  PROVE  /\ run[c].pc = "decide" /\ UNCHANGED <<canonical, consumed, authorizations, children, evidence, overlapped>>
         /\ run' \in [Controllers -> Executions] /\ Others(c)
         /\ \/ run'[c] = Idle
            \/ run'[c].pc = "checkpoint" /\ SameListing(c) /\ SameOrder(c)
            \/ /\ run'[c].pc = "order" /\ SameListing(c) /\ SameOrder(c)
               /\ Orphans(c) = {} /\ run[c].waiting \subseteq run[c].completed /\ Cardinality(run[c].attempted) < Quota
            \/ /\ SameListing(c) /\ run'[c].guarded = run[c].guarded /\ run'[c].decision \in Decisions
               /\ \/ run'[c].pc = "block"
                  \/ run'[c].pc = "settle" /\ run'[c].decision \in run[c].waiting
<1> USE DEF Decide, At
<1>1. run[c] \in Executions /\ {"block", "settle", "checkpoint", "order"} \subseteq Steps
  BY DEF TypeOK, Steps
<1>2. Orphans(c) \subseteq Decisions /\ run[c].waiting \subseteq Decisions /\ run[c].attempted \subseteq Decisions
  BY <1>1 DEF Executions, Orphans
<1>3. ASSUME NEW d \in Orphans(c), run' = [run EXCEPT ![c].pc = "block", ![c].decision = d]
      PROVE  /\ run' \in [Controllers -> Executions] /\ Others(c)
             /\ SameListing(c) /\ run'[c].guarded = run[c].guarded /\ run'[c].decision \in Decisions
             /\ run'[c].pc = "block"
  <2>1. d \in Decisions
    BY <1>2, <1>3
  <2> QED
    BY <1>1, <1>3, <2>1, Takes
<1>4. ASSUME NEW d \in run[c].waiting, run' = [run EXCEPT ![c].pc = "settle", ![c].decision = d]
      PROVE  /\ run' \in [Controllers -> Executions] /\ Others(c)
             /\ SameListing(c) /\ run'[c].guarded = run[c].guarded /\ run'[c].decision \in Decisions
             /\ run'[c].pc = "settle" /\ run'[c].decision \in run[c].waiting
  <2>1. d \in Decisions
    BY <1>2, <1>4
  <2> QED
    BY <1>1, <1>4, <2>1, Takes
<1>5. CASE Orphans(c) # {} \/ \E d \in run[c].waiting : run' = [run EXCEPT ![c].pc = "settle", ![c].decision = d]
  BY <1>3, <1>4, <1>5
<1>6. CASE Orphans(c) = {} /\ run[c].waiting \subseteq run[c].completed /\ End(c)
  BY <1>6, Moves
<1>7. CASE Orphans(c) = {} /\ run[c].waiting \subseteq run[c].completed /\ Goto(c, "checkpoint")
  BY <1>1, <1>7, Moves
<1>8. CASE /\ Orphans(c) = {} /\ run[c].waiting \subseteq run[c].completed
           /\ ~(Cardinality(run[c].attempted) >= Quota) /\ Goto(c, "order")
  <2>1. Cardinality(run[c].attempted) \in Nat /\ Quota \in Nat
    BY <1>2, FiniteDecisions, StageAssumption
  <2> QED
    BY <1>1, <1>8, <2>1, Moves
<1> QED
  BY <1>5, <1>6, <1>7, <1>8 DEF Proceed

\* AuthorizeOrder authorizes a new decision or ends.
LEMMA Authorizes ==
  ASSUME TypeOK, NEW c \in Controllers, AuthorizeOrder(c)
  PROVE  /\ run[c].pc = "order" /\ UNCHANGED <<canonical, consumed, children, evidence, overlapped>>
         /\ run' \in [Controllers -> Executions] /\ Others(c)
         /\ \/ run'[c] = Idle /\ UNCHANGED authorizations
            \/ /\ run'[c].pc = "child" /\ run'[c].decision \in Decisions /\ SameListing(c)
               /\ run'[c].decision \notin authorizations
               /\ authorizations' = authorizations \cup {run'[c].decision}
<1>1. ASSUME End(c)
      PROVE  run' \in [Controllers -> Executions] /\ Others(c) /\ run'[c] = Idle
  BY <1>1, Moves
<1>2. ASSUME NEW d \in Decisions, run' = [run EXCEPT ![c].pc = "child", ![c].decision = d, ![c].guarded = TRUE]
      PROVE  /\ run' \in [Controllers -> Executions] /\ Others(c)
             /\ run'[c].pc = "child" /\ run'[c].decision = d /\ SameListing(c)
  <2>1. "child" \in Steps
    BY DEF Steps
  <2> QED
    <3>1. run'[c] = [run[c] EXCEPT !.pc = "child", !.decision = d, !.guarded = TRUE]
      BY <1>2 DEF TypeOK, Executions
    <3>2. run'[c] \in Executions
      BY <2>1, <3>1 DEF TypeOK, Executions
    <3>3. Others(c) /\ run' \in [Controllers -> Executions]
      BY <1>2, <3>2 DEF TypeOK, Others
    <3> QED
      BY <3>1, <3>3 DEF TypeOK, Executions, SameListing
<1> QED
  BY <1>1, <1>2 DEF AuthorizeOrder, At

\* A document of the chain of n, when there is one.
LEMMA ChainIsTyped ==
  ASSUME TypeOK, NEW n \in Nat, IsChain(n)
  PROVE  /\ ChainOf(n) \in Seq(Decisions)
         /\ n = 0 => ChainOf(n) = <<>>
         /\ n >= 1 => \E d \in Documents(n) : ChainOf(n) = progress[d] /\ \A e \in Documents(n) : e = d
<1>1. CASE n = 0
  BY <1>1 DEF ChainOf
<1>2. CASE n >= 1
  <2>1. Cardinality(Documents(n)) = 1 /\ Documents(n) \subseteq Decisions
    BY <1>2 DEF IsChain, Documents, Completed
  <2>2. IsFiniteSet(Documents(n))
    BY <2>1, FiniteDecisions
  <2>3. PICK d : Documents(n) = {d}
    BY <2>1, <2>2, FS_Singleton
  <2>4. ChainOf(n) = progress[d]
    BY <1>2, <2>3 DEF ChainOf
  <2> QED
    BY <1>2, <2>1, <2>3, <2>4 DEF TypeOK
<1> QED
  BY <1>1, <1>2

\* The error of an execution blocks the stage or ends it.
LEMMA Fails ==
  ASSUME TypeOK, NEW c \in Controllers, Fail(c)
  PROVE  /\ run' \in [Controllers -> Executions] /\ Others(c)
         /\ \/ run'[c] = Idle
            \/ run'[c].pc = "block" /\ run[c].guarded /\ SameListing(c) /\ SameOrder(c)
<1>1. "block" \in Steps
  BY DEF Steps
<1> QED
  BY <1>1, Moves DEF Fail

\* LinkProgress extends a chain of completed orders, or fails.
LEMMA Links ==
  ASSUME TypeOK, NEW c \in Controllers, LinkProgress(c), run[c].decision \in Decisions
  PROVE  /\ run[c].pc = "chain" /\ UNCHANGED <<canonical, consumed, authorizations, children, evidence, overlapped>>
         /\ run' \in [Controllers -> Executions] /\ Others(c)
         /\ \/ run'[c] = Idle
            \/ run'[c].pc = "block" /\ run[c].guarded /\ SameListing(c) /\ SameOrder(c)
            \/ /\ run'[c].pc = "progress" /\ SameListing(c)
               /\ run'[c].decision = run[c].decision /\ run'[c].guarded = run[c].guarded
               /\ \E s \in Seq(Decisions) :
                    /\ run'[c].chain = Append(s, run[c].decision)
                    /\ s = <<>> \/ \E d \in Completed : s = progress[d]
<1> DEFINE n == Cardinality(run[c].completed)
<1>1. /\ run[c].pc = "chain" /\ UNCHANGED <<canonical, consumed, authorizations, children, evidence, overlapped>>
      /\ IF IsChain(n)
         THEN run' = [run EXCEPT ![c].pc = "progress", ![c].chain = Append(ChainOf(n), run[c].decision)]
         ELSE Fail(c)
  BY DEF LinkProgress, At
<1>2. CASE ~IsChain(n)
  BY <1>1, <1>2, Fails
<1>3. CASE IsChain(n)
  <2>1. n \in Nat
    BY FiniteDecisions DEF TypeOK, Executions
  <2>2. /\ ChainOf(n) \in Seq(Decisions)
        /\ ChainOf(n) = <<>> \/ \E d \in Completed : ChainOf(n) = progress[d]
    BY <1>3, <2>1, ChainIsTyped DEF Documents
  <2> DEFINE s == ChainOf(n)
  <2> HIDE DEF n, s
  <2>3. run' = [run EXCEPT ![c].pc = "progress", ![c].chain = Append(s, run[c].decision)]
    BY <1>1, <1>3 DEF s
  <2>4. s \in Seq(Decisions) /\ Append(s, run[c].decision) \in Seq(Decisions)
    BY <2>2 DEF s
  <2>5. "progress" \in Steps
    BY DEF Steps
  <2>6. /\ run' \in [Controllers -> Executions] /\ Others(c) /\ SameListing(c)
        /\ run'[c].pc = "progress" /\ run'[c].decision = run[c].decision /\ run'[c].guarded = run[c].guarded
        /\ run'[c].chain = Append(s, run[c].decision)
    BY <2>3, <2>4, <2>5 DEF TypeOK, Executions, Others, SameListing
  <2> QED
    BY <1>1, <2>2, <2>4, <2>6 DEF s
<1> QED
  BY <1>2, <1>3

\* ListStage adds one listing.
LEMMA Lists ==
  ASSUME TypeOK, NEW c \in Controllers, NEW what \in Listings, ListStage(c, what)
  PROVE  /\ run[c].pc = "list" /\ UNCHANGED <<canonical, consumed, authorizations, children, evidence, overlapped>>
         /\ run' \in [Controllers -> Executions] /\ Others(c) /\ SameOrder(c)
         /\ run'[c].listed = run[c].listed \cup {what}
         /\ run'[c].attempted = IF what = "authorizations" THEN authorizations ELSE run[c].attempted
         /\ run'[c].completed = IF what = "completed" THEN Completed ELSE run[c].completed
         /\ run'[c].waiting = IF what = "pending" THEN pending ELSE run[c].waiting
         /\ run'[c].pc = IF run'[c].listed = Listings THEN "decide" ELSE "list"
<1>1. run[c].pc = "list" /\ UNCHANGED <<canonical, consumed, authorizations, children, evidence, overlapped>>
  BY DEF ListStage, At
<1>2. "decide" \in Steps /\ Completed \in SUBSET Decisions /\ authorizations \in SUBSET Decisions
      /\ pending \in SUBSET Decisions /\ run[c].listed \cup {what} \in SUBSET Listings
  BY DEF Steps, Completed, TypeOK, Executions
<1> DEFINE full == run[c].listed \cup {what} = Listings
           attempted == IF what = "authorizations" THEN authorizations ELSE run[c].attempted
           completed == IF what = "completed" THEN Completed ELSE run[c].completed
           waiting == IF what = "pending" THEN pending ELSE run[c].waiting
<1>3. attempted \in SUBSET Decisions /\ completed \in SUBSET Decisions /\ waiting \in SUBSET Decisions
  BY <1>2 DEF TypeOK, Executions
<1>4. run' = [run EXCEPT ![c].listed = run[c].listed \cup {what}, ![c].attempted = attempted,
                         ![c].completed = completed, ![c].waiting = waiting,
                         ![c].pc = IF full THEN "decide" ELSE run[c].pc]
  BY DEF ListStage
<1> HIDE DEF full, attempted, completed, waiting
<1>5. /\ run' \in [Controllers -> Executions] /\ Others(c) /\ SameOrder(c)
      /\ run'[c].listed = run[c].listed \cup {what} /\ run'[c].attempted = attempted
      /\ run'[c].completed = completed /\ run'[c].waiting = waiting
      /\ run'[c].pc = IF full THEN "decide" ELSE run[c].pc
  <2>1. run'[c] = [run[c] EXCEPT !.listed = run[c].listed \cup {what}, !.attempted = attempted,
                                 !.completed = completed, !.waiting = waiting,
                                 !.pc = IF full THEN "decide" ELSE run[c].pc]
    BY <1>4 DEF TypeOK, Executions
  <2>2. run[c] \in Executions /\ (IF full THEN "decide" ELSE run[c].pc) \in Steps
    BY <1>2 DEF TypeOK, Executions
  <2>3. run'[c] \in Executions
    BY <1>2, <1>3, <2>1, <2>2 DEF Executions
  <2>4. Others(c) /\ run' \in [Controllers -> Executions]
    BY <1>4, <2>3 DEF TypeOK, Others
  <2> QED
    BY <2>1, <2>2, <2>4 DEF Executions, SameOrder
<1> QED
  BY <1>1, <1>5 DEF full, attempted, completed, waiting

\* The steps of an execution.
LEMMA StepNames ==
  /\ "idle" \in Steps /\ "consume" \in Steps /\ "authorize_stage" \in Steps /\ "block_check" \in Steps /\ "list" \in Steps
  /\ "decide" \in Steps /\ "settle" \in Steps /\ "order" \in Steps /\ "child" \in Steps /\ "sent" \in Steps
  /\ "located" \in Steps /\ "chain" \in Steps /\ "progress" \in Steps /\ "state" \in Steps /\ "checkpoint" \in Steps
  /\ "block" \in Steps
BY DEF Steps

\* Every step keeps the types.
LEMMA TypeNext ==
  ASSUME IInv, [Next]_vars
  PROVE  TypeOK'
<1> USE Moves, StepNames DEF IInv, TypeOK, At, children, evidence
<1>1. CASE MoveCanonical \/ Redeem
  <2>1. CASE MoveCanonical
    BY <2>1 DEF MoveCanonical
  <2>2. CASE Redeem
    <3>1. terminal' \in SUBSET Decisions
      BY <2>2 DEF Redeem
    <3> QED
      BY <2>2, <3>1 DEF Redeem
  <2> QED
    BY <1>1, <2>1, <2>2
<1>2. ASSUME NEW c \in Controllers, Start(c)
      PROVE  TypeOK'
  BY <1>2 DEF Start
<1>3. ASSUME NEW c \in Controllers, ConsumeGrant(c)
      PROVE  TypeOK'
  BY <1>3 DEF ConsumeGrant
<1>4. ASSUME NEW c \in Controllers, AuthorizeStage(c)
      PROVE  TypeOK'
  BY <1>4 DEF AuthorizeStage
<1>5. ASSUME NEW c \in Controllers, AssertNoStageBlock(c)
      PROVE  TypeOK'
  BY <1>5 DEF AssertNoStageBlock
<1>6. ASSUME NEW c \in Controllers, NEW what \in Listings, ListStage(c, what)
      PROVE  TypeOK'
  BY <1>6, Lists
<1>7. ASSUME NEW c \in Controllers, Decide(c)
      PROVE  TypeOK'
  BY <1>7, Decides
<1>8. ASSUME NEW c \in Controllers, AuthorizeOrder(c)
      PROVE  TypeOK'
  <2>1. authorizations' \in SUBSET Decisions /\ run' \in [Controllers -> Executions]
    BY <1>8, Authorizes
  <2>2. UNCHANGED <<canonical, consumed, children, evidence, overlapped>>
    BY <1>8, Authorizes
  <2> QED
    BY <2>1, <2>2
<1>9. ASSUME NEW c \in Controllers, ChildSends(c)
      PROVE  TypeOK'
  <2>1. run[c].decision \in Decisions
    BY <1>9 DEF ChildSends, OrderInv, OrderOf
  <2> QED
    BY <1>9, <2>1 DEF ChildSends
<1>10. ASSUME NEW c \in Controllers, ChildFails(c)
      PROVE  TypeOK'
  BY <1>10 DEF ChildFails
<1>11. ASSUME NEW c \in Controllers, ChildCompletes(c)
      PROVE  TypeOK'
  <2>1. run[c].decision \in Decisions
    BY <1>11 DEF ChildCompletes, OrderInv, OrderOf, DocumentInv
  <2> QED
    BY <1>11, <2>1 DEF ChildCompletes
<1>12. ASSUME NEW c \in Controllers, LocateSummary(c)
      PROVE  TypeOK'
  <2>1. run[c].decision \in Decisions
    BY <1>12 DEF LocateSummary, Finish, Fail, OrderInv, OrderOf, DocumentInv
  <2> QED
    BY <1>12, <2>1 DEF LocateSummary, Finish, Fail
<1>13. ASSUME NEW c \in Controllers, SettlePendingTerminal(c)
      PROVE  TypeOK'
  BY <1>13 DEF SettlePendingTerminal
<1>14. ASSUME NEW c \in Controllers, LinkProgress(c)
      PROVE  TypeOK'
  <2>1. run[c].decision \in Decisions
    BY <1>14 DEF LinkProgress, OrderInv, OrderOf
  <2> QED
    BY <1>14, <2>1, Links
<1>15. ASSUME NEW c \in Controllers, RecordProgress(c)
      PROVE  TypeOK'
  <2>1. run[c].decision \in Decisions /\ run[c].chain \in Seq(Decisions)
    BY <1>15 DEF RecordProgress, OrderInv, OrderOf, Executions
  <2> QED
    BY <1>15, <2>1, Fails DEF RecordProgress
<1>16. ASSUME NEW c \in Controllers, RecordState(c)
      PROVE  TypeOK'
  <2>1. Len(run[c].chain) \in Nat
    BY DEF Executions
  <2> QED
    BY <1>16, <2>1, Fails DEF RecordState, Finish
<1>17. ASSUME NEW c \in Controllers, PublishStageCheckpoint(c)
      PROVE  TypeOK'
  <2>1. IsChain(Quota) => ChainOf(Quota) \in Seq(Decisions)
    BY StageAssumption, ChainIsTyped
  <2> QED
    BY <1>17, <2>1, Fails DEF PublishStageCheckpoint, Finish
<1>18. ASSUME NEW c \in Controllers, WriteStageBlock(c)
      PROVE  TypeOK'
  <2>1. run[c].decision \in Decisions
    BY <1>18 DEF WriteStageBlock, OrderInv, OrderOf
  <2> QED
    BY <1>18, <2>1 DEF WriteStageBlock
<1>19. ASSUME NEW c \in Controllers, Crash(c)
      PROVE  TypeOK'
  BY <1>19 DEF Crash
<1>20. ASSUME NEW c \in Controllers, StoreFails(c)
      PROVE  TypeOK'
  BY <1>20 DEF StoreFails
<1>21. CASE UNCHANGED vars
  BY <1>21 DEF vars
<1> QED
  BY <1>1, <1>2, <1>3, <1>4, <1>5, <1>6, <1>7, <1>8, <1>9, <1>10, <1>11, <1>12,
     <1>13, <1>14, <1>15, <1>16, <1>17, <1>18, <1>19, <1>20, <1>21 DEF Next

\* Nothing that was written is taken back.
LEMMA DocumentsStay ==
  ASSUME IInv, [Next]_vars
  PROVE  Later
<1> USE DEF IInv, TypeOK, Later, Completed, At, children, evidence
<1>1. CASE MoveCanonical \/ Redeem
  BY <1>1 DEF MoveCanonical, Redeem, Completed
<1>2. ASSUME NEW c \in Controllers, Start(c)
      PROVE  Later
  BY <1>2 DEF Start, Completed
<1>3. ASSUME NEW c \in Controllers, ConsumeGrant(c)
      PROVE  Later
  BY <1>3 DEF ConsumeGrant, Completed
<1>4. ASSUME NEW c \in Controllers, AuthorizeStage(c)
      PROVE  Later
  BY <1>4 DEF AuthorizeStage, Completed
<1>5. ASSUME NEW c \in Controllers, AssertNoStageBlock(c)
      PROVE  Later
  BY <1>5 DEF AssertNoStageBlock, Completed
<1>6. ASSUME NEW c \in Controllers, NEW what \in Listings, ListStage(c, what)
      PROVE  Later
  BY <1>6 DEF ListStage, Completed
<1>7. ASSUME NEW c \in Controllers, Decide(c)
      PROVE  Later
  BY <1>7, Decides DEF Completed
<1>8. ASSUME NEW c \in Controllers, AuthorizeOrder(c)
      PROVE  Later
  BY <1>8, Authorizes DEF Completed
<1>9. ASSUME NEW c \in Controllers, ChildSends(c)
      PROVE  Later
  BY <1>9 DEF ChildSends, Completed
<1>10. ASSUME NEW c \in Controllers, ChildFails(c)
      PROVE  Later
  BY <1>10 DEF ChildFails, Completed
<1>11. ASSUME NEW c \in Controllers, ChildCompletes(c)
      PROVE  Later
  BY <1>11 DEF ChildCompletes, Completed
<1>12. ASSUME NEW c \in Controllers, LocateSummary(c)
      PROVE  Later
  BY <1>12 DEF LocateSummary, Finish, Fail, Completed
<1>13. ASSUME NEW c \in Controllers, SettlePendingTerminal(c)
      PROVE  Later
  BY <1>13 DEF SettlePendingTerminal, Completed
<1>14. ASSUME NEW c \in Controllers, LinkProgress(c)
      PROVE  Later
  BY <1>14 DEF LinkProgress, Completed
<1>15. ASSUME NEW c \in Controllers, RecordProgress(c)
      PROVE  Later
  <2>1. UNCHANGED progress \/ (progress[run[c].decision] = <<>> /\ progress' = [progress EXCEPT ![run[c].decision] = run[c].chain])
    BY <1>15 DEF RecordProgress
  <2>2. \A d \in Completed : progress'[d] = progress[d]
    BY <2>1 DEF Completed
  <2>3. Completed \subseteq Completed'
    BY <2>2 DEF Completed
  <2> QED
    BY <1>15, <2>2, <2>3 DEF RecordProgress
<1>16. ASSUME NEW c \in Controllers, RecordState(c)
      PROVE  Later
  BY <1>16 DEF RecordState, Finish, Fail, Completed
<1>17. ASSUME NEW c \in Controllers, PublishStageCheckpoint(c)
      PROVE  Later
  BY <1>17 DEF PublishStageCheckpoint, Finish, Fail, Completed
<1>18. ASSUME NEW c \in Controllers, WriteStageBlock(c)
      PROVE  Later
  BY <1>18 DEF WriteStageBlock, Completed
<1>19. ASSUME NEW c \in Controllers, Crash(c)
      PROVE  Later
  BY <1>19 DEF Crash, Completed
<1>20. ASSUME NEW c \in Controllers, StoreFails(c)
      PROVE  Later
  BY <1>20 DEF StoreFails, Completed
<1>21. CASE UNCHANGED vars
  BY <1>21 DEF vars
<1> QED
  BY <1>1, <1>2, <1>3, <1>4, <1>5, <1>6, <1>7, <1>8, <1>9, <1>10, <1>11, <1>12,
     <1>13, <1>14, <1>15, <1>16, <1>17, <1>18, <1>19, <1>20, <1>21 DEF Next

\* What is left to show about the executions is the one that moved.
LEMMA OneMoves ==
  ASSUME IInv, Later, NEW c \in Controllers, Others(c), OrderOf(c)'
  PROVE  OrderInv'
BY DEF IInv, OrderInv, OrderOf, Others, Later

\* An execution that has ended has no order.
LEMMA EndedIsFree ==
  ASSUME NEW c \in Controllers, run'[c] = Idle
  PROVE  OrderOf(c)'
BY IdleIsTyped DEF OrderOf

\* A document is written about an order that was authorized, sent and settled.
LEMMA DocumentNext ==
  ASSUME IInv, [Next]_vars
  PROVE  DocumentInv'
<1> USE DEF IInv, TypeOK, DocumentInv, At, children, evidence
<1>1. CASE MoveCanonical \/ Redeem
  BY <1>1 DEF MoveCanonical, Redeem, Completed
<1>2. ASSUME NEW c \in Controllers, Start(c)
      PROVE  DocumentInv'
  BY <1>2, StepNames DEF Start, OrderInv, OrderOf, Completed
<1>3. ASSUME NEW c \in Controllers, ConsumeGrant(c)
      PROVE  DocumentInv'
  BY <1>3, StepNames DEF ConsumeGrant, OrderInv, OrderOf, Completed
<1>4. ASSUME NEW c \in Controllers, AuthorizeStage(c)
      PROVE  DocumentInv'
  BY <1>4, StepNames DEF AuthorizeStage, OrderInv, OrderOf, Completed
<1>5. ASSUME NEW c \in Controllers, AssertNoStageBlock(c)
      PROVE  DocumentInv'
  BY <1>5, StepNames DEF AssertNoStageBlock, OrderInv, OrderOf, Completed
<1>6. ASSUME NEW c \in Controllers, NEW what \in Listings, ListStage(c, what)
      PROVE  DocumentInv'
  BY <1>6 DEF ListStage, Completed
<1>7. ASSUME NEW c \in Controllers, Decide(c)
      PROVE  DocumentInv'
  BY <1>7, Decides DEF Completed
<1>8. ASSUME NEW c \in Controllers, AuthorizeOrder(c)
      PROVE  DocumentInv'
  BY <1>8, Authorizes DEF Completed
<1>9. ASSUME NEW c \in Controllers, ChildSends(c)
      PROVE  DocumentInv'
  BY <1>9, StepNames DEF ChildSends, OrderInv, OrderOf, Completed
<1>10. ASSUME NEW c \in Controllers, ChildFails(c)
      PROVE  DocumentInv'
  BY <1>10, StepNames DEF ChildFails, OrderInv, OrderOf, Completed
<1>11. ASSUME NEW c \in Controllers, ChildCompletes(c)
      PROVE  DocumentInv'
  BY <1>11, StepNames DEF ChildCompletes, OrderInv, OrderOf, Completed
<1>12. ASSUME NEW c \in Controllers, LocateSummary(c)
      PROVE  DocumentInv'
  BY <1>12, StepNames DEF LocateSummary, Finish, Fail, OrderInv, OrderOf, Completed
<1>13. ASSUME NEW c \in Controllers, SettlePendingTerminal(c)
      PROVE  DocumentInv'
  BY <1>13, StepNames DEF SettlePendingTerminal, OrderInv, OrderOf, Completed
<1>14. ASSUME NEW c \in Controllers, LinkProgress(c)
      PROVE  DocumentInv'
  BY <1>14, StepNames DEF LinkProgress, Fail, OrderInv, OrderOf, Completed
<1>15. ASSUME NEW c \in Controllers, RecordProgress(c)
      PROVE  DocumentInv'
  <2>1. Completed' \subseteq Completed \cup {run[c].decision}
    BY <1>15 DEF RecordProgress, Completed
  <2>2. run[c].decision \in terminal /\ UNCHANGED <<authorizations, children, pending>>
    BY <1>15 DEF RecordProgress, OrderInv, OrderOf
  <2> QED
    BY <2>1, <2>2
<1>16. ASSUME NEW c \in Controllers, RecordState(c)
      PROVE  DocumentInv'
  BY <1>16, StepNames DEF RecordState, Finish, Fail, OrderInv, OrderOf, Completed
<1>17. ASSUME NEW c \in Controllers, PublishStageCheckpoint(c)
      PROVE  DocumentInv'
  BY <1>17, StepNames DEF PublishStageCheckpoint, Finish, Fail, OrderInv, OrderOf, Completed
<1>18. ASSUME NEW c \in Controllers, WriteStageBlock(c)
      PROVE  DocumentInv'
  BY <1>18, StepNames DEF WriteStageBlock, OrderInv, OrderOf, Completed
<1>19. ASSUME NEW c \in Controllers, Crash(c)
      PROVE  DocumentInv'
  BY <1>19, StepNames DEF Crash, OrderInv, OrderOf, Completed
<1>20. ASSUME NEW c \in Controllers, StoreFails(c)
      PROVE  DocumentInv'
  BY <1>20, StepNames DEF StoreFails, OrderInv, OrderOf, Completed
<1>21. CASE UNCHANGED vars
  BY <1>21 DEF vars, Completed
<1> QED
  BY <1>1, <1>2, <1>3, <1>4, <1>5, <1>6, <1>7, <1>8, <1>9, <1>10, <1>11, <1>12,
     <1>13, <1>14, <1>15, <1>16, <1>17, <1>18, <1>19, <1>20, <1>21 DEF Next

\* An execution goes on with an order at the stage its step says.
LEMMA OrderNext ==
  ASSUME IInv, [Next]_vars
  PROVE  OrderInv'
<1> USE DocumentsStay DEF IInv, TypeOK, At, children, evidence
<1>1. CASE MoveCanonical \/ Redeem
  BY <1>1 DEF MoveCanonical, Redeem, OrderInv, OrderOf
<1>2. ASSUME NEW c \in Controllers, Start(c)
      PROVE  OrderInv'
  <2>1. Others(c)
    BY <1>2, Moves, StepNames DEF Start
  <2>2. OrderOf(c)'
    BY <1>2, Moves, StepNames, EndedIsFree DEF Start, OrderInv, OrderOf, DocumentInv, SameListing, SameOrder
  <2> QED
    BY <2>1, <2>2, OneMoves
<1>3. ASSUME NEW c \in Controllers, ConsumeGrant(c)
      PROVE  OrderInv'
  <2>1. Others(c)
    BY <1>3, Moves, StepNames DEF ConsumeGrant
  <2>2. OrderOf(c)'
    BY <1>3, Moves, StepNames, EndedIsFree DEF ConsumeGrant, OrderInv, OrderOf, DocumentInv, SameListing, SameOrder
  <2> QED
    BY <2>1, <2>2, OneMoves
<1>4. ASSUME NEW c \in Controllers, AuthorizeStage(c)
      PROVE  OrderInv'
  <2>1. Others(c)
    BY <1>4, Moves, StepNames DEF AuthorizeStage
  <2>2. OrderOf(c)'
    BY <1>4, Moves, StepNames, EndedIsFree DEF AuthorizeStage, OrderInv, OrderOf, DocumentInv, SameListing, SameOrder
  <2> QED
    BY <2>1, <2>2, OneMoves
<1>5. ASSUME NEW c \in Controllers, AssertNoStageBlock(c)
      PROVE  OrderInv'
  <2>1. Others(c)
    BY <1>5, Moves, StepNames DEF AssertNoStageBlock
  <2>2. OrderOf(c)'
    BY <1>5, Moves, StepNames, EndedIsFree DEF AssertNoStageBlock, OrderInv, OrderOf, DocumentInv, SameListing, SameOrder
  <2> QED
    BY <2>1, <2>2, OneMoves
<1>6. ASSUME NEW c \in Controllers, NEW what \in Listings, ListStage(c, what)
      PROVE  OrderInv'
  <2>1. Others(c)
    BY <1>6, Lists
  <2>2. OrderOf(c)'
    BY <1>6, Lists, EndedIsFree DEF OrderInv, OrderOf, DocumentInv, SameListing, SameOrder
  <2> QED
    BY <2>1, <2>2, OneMoves
<1>7. ASSUME NEW c \in Controllers, Decide(c)
      PROVE  OrderInv'
  <2>1. Others(c)
    BY <1>7, Decides
  <2>2. OrderOf(c)'
    BY <1>7, Decides, EndedIsFree DEF OrderInv, OrderOf, DocumentInv, SameListing, SameOrder
  <2> QED
    BY <2>1, <2>2, OneMoves
<1>8. ASSUME NEW c \in Controllers, AuthorizeOrder(c)
      PROVE  OrderInv'
  <2>1. Others(c)
    BY <1>8, Authorizes
  <2>2. OrderOf(c)'
    BY <1>8, Authorizes, EndedIsFree DEF OrderInv, OrderOf, DocumentInv, SameListing, SameOrder
  <2> QED
    BY <2>1, <2>2, OneMoves
<1>9. ASSUME NEW c \in Controllers, ChildSends(c)
      PROVE  OrderInv'
  <2>1. Others(c)
    BY <1>9, Moves, StepNames DEF ChildSends
  <2>2. OrderOf(c)'
    BY <1>9, Moves, StepNames, EndedIsFree DEF ChildSends, OrderInv, OrderOf, DocumentInv, SameListing, SameOrder
  <2> QED
    BY <2>1, <2>2, OneMoves
<1>10. ASSUME NEW c \in Controllers, ChildFails(c)
      PROVE  OrderInv'
  <2>1. Others(c)
    BY <1>10, Moves, StepNames DEF ChildFails
  <2>2. OrderOf(c)'
    BY <1>10, Moves, StepNames, EndedIsFree DEF ChildFails, OrderInv, OrderOf, DocumentInv, SameListing, SameOrder
  <2> QED
    BY <2>1, <2>2, OneMoves
<1>11. ASSUME NEW c \in Controllers, ChildCompletes(c)
      PROVE  OrderInv'
  <2>1. Others(c)
    BY <1>11, Moves, StepNames DEF ChildCompletes
  <2>2. OrderOf(c)'
    BY <1>11, Moves, StepNames, EndedIsFree DEF ChildCompletes, OrderInv, OrderOf, DocumentInv, SameListing, SameOrder
  <2> QED
    BY <2>1, <2>2, OneMoves
<1>12. ASSUME NEW c \in Controllers, LocateSummary(c)
      PROVE  OrderInv'
  <2>1. Others(c)
    BY <1>12, Moves, Fails, StepNames DEF LocateSummary, Finish
  <2>2. OrderOf(c)'
    BY <1>12, Moves, Fails, StepNames, EndedIsFree DEF LocateSummary, Finish, OrderInv, OrderOf, DocumentInv, SameListing, SameOrder
  <2> QED
    BY <2>1, <2>2, OneMoves
<1>13. ASSUME NEW c \in Controllers, SettlePendingTerminal(c)
      PROVE  OrderInv'
  <2>1. Others(c)
    BY <1>13, Moves, StepNames DEF SettlePendingTerminal
  <2>2. OrderOf(c)'
    BY <1>13, Moves, StepNames, EndedIsFree DEF SettlePendingTerminal, OrderInv, OrderOf, DocumentInv, SameListing, SameOrder
  <2> QED
    BY <2>1, <2>2, OneMoves
<1>14. ASSUME NEW c \in Controllers, LinkProgress(c)
      PROVE  OrderInv'
  <2>0. run[c].decision \in Decisions
    BY <1>14 DEF LinkProgress, OrderInv, OrderOf
  <2>1. Others(c)
    BY <1>14, <2>0, Links
  <2>2. OrderOf(c)'
    BY <1>14, <2>0, Links, EndedIsFree DEF OrderInv, OrderOf, DocumentInv, SameListing, SameOrder
  <2> QED
    BY <2>1, <2>2, OneMoves
<1>15. ASSUME NEW c \in Controllers, RecordProgress(c)
      PROVE  OrderInv'
  <2>1. Others(c)
    BY <1>15, Moves, Fails, StepNames DEF RecordProgress
  <2>2. OrderOf(c)'
    BY <1>15, Moves, Fails, StepNames, EndedIsFree DEF RecordProgress, OrderInv, OrderOf, DocumentInv, SameListing, SameOrder
  <2> QED
    BY <2>1, <2>2, OneMoves
<1>16. ASSUME NEW c \in Controllers, RecordState(c)
      PROVE  OrderInv'
  <2>1. Others(c)
    BY <1>16, Moves, Fails, StepNames DEF RecordState, Finish
  <2>2. OrderOf(c)'
    BY <1>16, Moves, Fails, StepNames, EndedIsFree DEF RecordState, Finish, OrderInv, OrderOf, DocumentInv, SameListing, SameOrder
  <2> QED
    BY <2>1, <2>2, OneMoves
<1>17. ASSUME NEW c \in Controllers, PublishStageCheckpoint(c)
      PROVE  OrderInv'
  <2>1. Others(c)
    BY <1>17, Moves, Fails, StepNames DEF PublishStageCheckpoint, Finish
  <2>2. OrderOf(c)'
    BY <1>17, Moves, Fails, StepNames, EndedIsFree DEF PublishStageCheckpoint, Finish, OrderInv, OrderOf, DocumentInv, SameListing, SameOrder
  <2> QED
    BY <2>1, <2>2, OneMoves
<1>18. ASSUME NEW c \in Controllers, WriteStageBlock(c)
      PROVE  OrderInv'
  <2>1. Others(c)
    BY <1>18, Moves, StepNames DEF WriteStageBlock
  <2>2. OrderOf(c)'
    BY <1>18, Moves, StepNames, EndedIsFree DEF WriteStageBlock, OrderInv, OrderOf, DocumentInv, SameListing, SameOrder
  <2> QED
    BY <2>1, <2>2, OneMoves
<1>19. ASSUME NEW c \in Controllers, Crash(c)
      PROVE  OrderInv'
  <2>1. Others(c)
    BY <1>19, Moves, StepNames DEF Crash
  <2>2. OrderOf(c)'
    BY <1>19, Moves, StepNames, EndedIsFree DEF Crash, OrderInv, OrderOf, DocumentInv, SameListing, SameOrder
  <2> QED
    BY <2>1, <2>2, OneMoves
<1>20. ASSUME NEW c \in Controllers, StoreFails(c)
      PROVE  OrderInv'
  <2>1. Others(c)
    BY <1>20, Moves, StepNames DEF StoreFails
  <2>2. OrderOf(c)'
    BY <1>20, Moves, StepNames, EndedIsFree DEF StoreFails, OrderInv, OrderOf, DocumentInv, SameListing, SameOrder
  <2> QED
    BY <2>1, <2>2, OneMoves
<1>21. CASE UNCHANGED vars
  BY <1>21 DEF vars, OrderInv, OrderOf
<1> QED
  BY <1>1, <1>2, <1>3, <1>4, <1>5, <1>6, <1>7, <1>8, <1>9, <1>10, <1>11, <1>12,
     <1>13, <1>14, <1>15, <1>16, <1>17, <1>18, <1>19, <1>20, <1>21 DEF Next

\* A chain stays exact.
LEMMA ExactStays ==
  ASSUME Later, NEW s, NEW n, Exact(s, n)
  PROVE  Exact(s, n)'
BY DEF Later, Exact

\* Where no document of the chain is written, the chain stays.
LEMMA ChainStays ==
  ASSUME IInv, Later, NEW c \in Controllers, Others(c), UNCHANGED <<progress, checkpoints>>,
         run'[c].pc = "progress" => Extends(run[c].chain, run[c].decision)'
  PROVE  ChainInv'
<1>1. \A d \in Completed' : Exact(progress[d], Len(progress[d]))'
  BY DEF IInv, ChainInv, Completed, Later, Exact
<1>2. \A o \in Controllers : (run[o].pc = "progress" => Extends(run[o].chain, run[o].decision))'
  BY DEF IInv, ChainInv, Others, Extends, Exact, Later
<1> QED
  BY <1>1, <1>2 DEF IInv, ChainInv, Completed

\* A chain goes on being exact, and its checkpoint the only one.
LEMMA ChainNext ==
  ASSUME IInv, [Next]_vars
  PROVE  ChainInv'
<1> USE DocumentsStay DEF IInv, TypeOK, At, children, evidence
<1>1. CASE MoveCanonical \/ Redeem
  BY <1>1 DEF MoveCanonical, Redeem, ChainInv, Completed, Exact, Extends
<1>2. ASSUME NEW c \in Controllers, Start(c)
      PROVE  ChainInv'
  <2>1. Others(c) /\ run'[c].pc # "progress"
    BY <1>2, Moves, StepNames, IdleIsTyped DEF Start
  <2>2. UNCHANGED <<progress, checkpoints>>
    BY <1>2 DEF Start
  <2> QED
    BY <2>1, <2>2, ChainStays
<1>3. ASSUME NEW c \in Controllers, ConsumeGrant(c)
      PROVE  ChainInv'
  <2>1. Others(c) /\ run'[c].pc # "progress"
    BY <1>3, Moves, StepNames, IdleIsTyped DEF ConsumeGrant
  <2>2. UNCHANGED <<progress, checkpoints>>
    BY <1>3 DEF ConsumeGrant
  <2> QED
    BY <2>1, <2>2, ChainStays
<1>4. ASSUME NEW c \in Controllers, AuthorizeStage(c)
      PROVE  ChainInv'
  <2>1. Others(c) /\ run'[c].pc # "progress"
    BY <1>4, Moves, StepNames, IdleIsTyped DEF AuthorizeStage
  <2>2. UNCHANGED <<progress, checkpoints>>
    BY <1>4 DEF AuthorizeStage
  <2> QED
    BY <2>1, <2>2, ChainStays
<1>5. ASSUME NEW c \in Controllers, AssertNoStageBlock(c)
      PROVE  ChainInv'
  <2>1. Others(c) /\ run'[c].pc # "progress"
    BY <1>5, Moves, StepNames, IdleIsTyped DEF AssertNoStageBlock
  <2>2. UNCHANGED <<progress, checkpoints>>
    BY <1>5 DEF AssertNoStageBlock
  <2> QED
    BY <2>1, <2>2, ChainStays
<1>6. ASSUME NEW c \in Controllers, NEW what \in Listings, ListStage(c, what)
      PROVE  ChainInv'
  <2>1. Others(c) /\ run'[c].pc # "progress"
    BY <1>6, Lists, IdleIsTyped
  <2>2. UNCHANGED <<progress, checkpoints>>
    BY <1>6, Lists
  <2> QED
    BY <2>1, <2>2, ChainStays
<1>7. ASSUME NEW c \in Controllers, Decide(c)
      PROVE  ChainInv'
  <2>1. Others(c) /\ run'[c].pc # "progress"
    BY <1>7, Decides, IdleIsTyped
  <2>2. UNCHANGED <<progress, checkpoints>>
    BY <1>7, Decides
  <2> QED
    BY <2>1, <2>2, ChainStays
<1>8. ASSUME NEW c \in Controllers, AuthorizeOrder(c)
      PROVE  ChainInv'
  <2>1. Others(c) /\ run'[c].pc # "progress"
    BY <1>8, Authorizes, IdleIsTyped
  <2>2. UNCHANGED <<progress, checkpoints>>
    BY <1>8, Authorizes
  <2> QED
    BY <2>1, <2>2, ChainStays
<1>9. ASSUME NEW c \in Controllers, ChildSends(c)
      PROVE  ChainInv'
  <2>1. Others(c) /\ run'[c].pc # "progress"
    BY <1>9, Moves, StepNames, IdleIsTyped DEF ChildSends
  <2>2. UNCHANGED <<progress, checkpoints>>
    BY <1>9 DEF ChildSends
  <2> QED
    BY <2>1, <2>2, ChainStays
<1>10. ASSUME NEW c \in Controllers, ChildFails(c)
      PROVE  ChainInv'
  <2>1. Others(c) /\ run'[c].pc # "progress"
    BY <1>10, Moves, StepNames, IdleIsTyped DEF ChildFails
  <2>2. UNCHANGED <<progress, checkpoints>>
    BY <1>10 DEF ChildFails
  <2> QED
    BY <2>1, <2>2, ChainStays
<1>11. ASSUME NEW c \in Controllers, ChildCompletes(c)
      PROVE  ChainInv'
  <2>1. Others(c) /\ run'[c].pc # "progress"
    BY <1>11, Moves, StepNames, IdleIsTyped DEF ChildCompletes
  <2>2. UNCHANGED <<progress, checkpoints>>
    BY <1>11 DEF ChildCompletes
  <2> QED
    BY <2>1, <2>2, ChainStays
<1>12. ASSUME NEW c \in Controllers, LocateSummary(c)
      PROVE  ChainInv'
  <2>1. Others(c) /\ run'[c].pc # "progress"
    BY <1>12, Moves, Fails, StepNames, IdleIsTyped DEF LocateSummary, Finish
  <2>2. UNCHANGED <<progress, checkpoints>>
    BY <1>12 DEF LocateSummary, Finish, Fail
  <2> QED
    BY <2>1, <2>2, ChainStays
<1>13. ASSUME NEW c \in Controllers, SettlePendingTerminal(c)
      PROVE  ChainInv'
  <2>1. Others(c) /\ run'[c].pc # "progress"
    BY <1>13, Moves, StepNames, IdleIsTyped DEF SettlePendingTerminal
  <2>2. UNCHANGED <<progress, checkpoints>>
    BY <1>13 DEF SettlePendingTerminal
  <2> QED
    BY <2>1, <2>2, ChainStays
<1>14. ASSUME NEW c \in Controllers, LinkProgress(c)
      PROVE  ChainInv'
  <2>1. run[c].decision \in Decisions
    BY <1>14 DEF LinkProgress, OrderInv, OrderOf
  <2>2. Others(c) /\ UNCHANGED <<progress, checkpoints>>
    BY <1>14, <2>1, Links
  <2>3. CASE run'[c].pc # "progress"
    BY <2>2, <2>3, ChainStays
  <2>4. CASE run'[c].pc = "progress"
    <3>1. PICK s \in Seq(Decisions) :
            /\ run'[c].chain = Append(s, run[c].decision) /\ run'[c].decision = run[c].decision
            /\ s = <<>> \/ \E d \in Completed : s = progress[d]
      BY <1>14, <2>1, <2>4, Links, IdleIsTyped
    <3>2. Exact(s, Len(s))'
      <4>1. CASE s = <<>>
        BY <4>1 DEF Exact
      <4>2. CASE \E d \in Completed : s = progress[d]
        BY <4>2, ExactStays DEF ChainInv
      <4> QED
        BY <3>1, <4>1, <4>2
    <3>3. Extends(run[c].chain, run[c].decision)'
      <4>1. /\ Len(run'[c].chain) = Len(s) + 1 /\ run'[c].chain[Len(s) + 1] = run[c].decision
            /\ \A i \in 1..Len(s) : run'[c].chain[i] = s[i]
        BY <2>1, <3>1
      <4>2. Len(s) \in Nat
        BY <3>1
      <4> QED
        BY <3>1, <3>2, <4>1, <4>2 DEF Extends, Exact
    <3> QED
      BY <2>2, <3>3, ChainStays
  <2> QED
    BY <2>3, <2>4
<1>15. ASSUME NEW c \in Controllers, RecordProgress(c)
      PROVE  ChainInv'
  <2>1. CASE Fail(c) /\ UNCHANGED progress
    <3>1. Others(c) /\ run'[c].pc # "progress" /\ UNCHANGED <<progress, checkpoints>>
      BY <1>15, <2>1, Fails, IdleIsTyped DEF RecordProgress
    <3> QED
      BY <3>1, ChainStays
  <2>2. CASE /\ progress[run[c].decision] = <<>> /\ Goto(c, "state")
             /\ progress' = [progress EXCEPT ![run[c].decision] = run[c].chain]
    <3>1. PICK d \in Decisions, s \in Seq(Decisions) :
            d = run[c].decision /\ s = run[c].chain /\ Extends(s, d)
      BY <1>15 DEF RecordProgress, OrderInv, OrderOf, ChainInv, Executions
    <3>2. d \notin Completed /\ Completed' = Completed \cup {d} /\ progress'[d] = s
      BY <2>2, <3>1 DEF Completed, Extends
    <3>3. Others(c) /\ run'[c].pc = "state"
      BY <2>2, Moves, StepNames
    <3>4. Exact(progress[d], Len(progress[d]))'
      <4>1. Len(s) \in Nat /\ \A i \in 1..Len(s) : i = Len(s) \/ i \in 1..(Len(s) - 1)
        BY <3>1
      <4> QED
        BY <3>1, <3>2, <4>1 DEF Extends, Exact
    <3>5. \A e \in Completed : Exact(progress[e], Len(progress[e]))'
      BY ExactStays DEF ChainInv, Later
    <3>6. \A o \in Controllers : (run[o].pc = "progress" => Extends(run[o].chain, run[o].decision))'
      <4>1. ASSUME NEW o \in Controllers, run'[o].pc = "progress"
            PROVE  Extends(run[o].chain, run[o].decision)'
        <5>1. run'[o] = run[o]
          BY <3>3, <4>1 DEF Others
        <5>2. Extends(run[o].chain, run[o].decision)
          BY <4>1, <5>1 DEF ChainInv
        <5> QED
          BY <5>1, <5>2 DEF Extends, Exact, Later
      <4> QED
        BY <4>1
    <3>7. UNCHANGED checkpoints
      BY <1>15 DEF RecordProgress
    <3>8. \A t \in checkpoints : Len(t) = Quota /\ \E e \in Completed' : progress'[e] = t
      BY DEF ChainInv, Later
    <3> QED
      BY <3>2, <3>4, <3>5, <3>6, <3>7, <3>8 DEF ChainInv
  <2> QED
    BY <1>15, <2>1, <2>2 DEF RecordProgress
<1>16. ASSUME NEW c \in Controllers, RecordState(c)
      PROVE  ChainInv'
  <2>1. Others(c) /\ run'[c].pc # "progress"
    BY <1>16, Moves, Fails, StepNames, IdleIsTyped DEF RecordState, Finish
  <2>2. UNCHANGED <<progress, checkpoints>>
    BY <1>16 DEF RecordState, Finish, Fail
  <2> QED
    BY <2>1, <2>2, ChainStays
<1>17. ASSUME NEW c \in Controllers, PublishStageCheckpoint(c)
      PROVE  ChainInv'
  <2>1. CASE Fail(c) /\ UNCHANGED checkpoints
    <3>1. Others(c) /\ run'[c].pc # "progress" /\ UNCHANGED <<progress, checkpoints>>
      BY <1>17, <2>1, Fails, IdleIsTyped DEF PublishStageCheckpoint
    <3> QED
      BY <3>1, ChainStays
  <2>2. CASE IsChain(Quota) /\ checkpoints' = checkpoints \cup {ChainOf(Quota)} /\ Finish(c)
    <3>1. PICK d \in Documents(Quota) : ChainOf(Quota) = progress[d] /\ \A e \in Documents(Quota) : e = d
      BY <2>2, ChainIsTyped, StageAssumption
    <3>2. d \in Completed /\ Len(progress[d]) = Quota
      BY <3>1 DEF Documents
    <3>3. \A s \in checkpoints : s = progress[d]
      BY <3>1 DEF ChainInv, Documents
    <3>4. \A s \in checkpoints' : s = progress[d]
      BY <2>2, <3>1, <3>3
    <3>5. Others(c) /\ run'[c].pc # "progress" /\ UNCHANGED progress
      BY <1>17, <2>2, Moves, Fails, IdleIsTyped DEF PublishStageCheckpoint, Finish
    <3>6. Completed' = Completed
      BY <3>5 DEF Completed
    <3>7. \A o \in Controllers : (run[o].pc = "progress" => Extends(run[o].chain, run[o].decision))'
      BY <3>5, <3>6 DEF ChainInv, Others, Extends, Exact
    <3>8. \A e \in Completed' : Exact(progress[e], Len(progress[e]))'
      BY <3>5, <3>6 DEF ChainInv, Exact
    <3>9. \A s \in checkpoints' : Len(s) = Quota /\ \E e \in Completed' : progress'[e] = s
      BY <3>2, <3>4, <3>5, <3>6
    <3> QED
      BY <3>4, <3>7, <3>8, <3>9 DEF ChainInv
  <2> QED
    BY <1>17, <2>1, <2>2 DEF PublishStageCheckpoint
<1>18. ASSUME NEW c \in Controllers, WriteStageBlock(c)
      PROVE  ChainInv'
  <2>1. Others(c) /\ run'[c].pc # "progress"
    BY <1>18, Moves, StepNames, IdleIsTyped DEF WriteStageBlock
  <2>2. UNCHANGED <<progress, checkpoints>>
    BY <1>18 DEF WriteStageBlock
  <2> QED
    BY <2>1, <2>2, ChainStays
<1>19. ASSUME NEW c \in Controllers, Crash(c)
      PROVE  ChainInv'
  <2>1. Others(c) /\ run'[c].pc # "progress"
    BY <1>19, Moves, StepNames, IdleIsTyped DEF Crash
  <2>2. UNCHANGED <<progress, checkpoints>>
    BY <1>19 DEF Crash
  <2> QED
    BY <2>1, <2>2, ChainStays
<1>20. ASSUME NEW c \in Controllers, StoreFails(c)
      PROVE  ChainInv'
  <2>1. Others(c) /\ run'[c].pc # "progress"
    BY <1>20, Moves, StepNames, IdleIsTyped DEF StoreFails
  <2>2. UNCHANGED <<progress, checkpoints>>
    BY <1>20 DEF StoreFails
  <2> QED
    BY <2>1, <2>2, ChainStays
<1>21. CASE UNCHANGED vars
  <2>1. UNCHANGED <<progress, checkpoints, run>> /\ Completed' = Completed
    BY <1>21 DEF vars, Completed
  <2>2. \A d \in Completed' : Exact(progress[d], Len(progress[d]))'
    BY <2>1 DEF ChainInv, Exact
  <2>3. \A c \in Controllers : (run[c].pc = "progress" => Extends(run[c].chain, run[c].decision))'
    BY <2>1 DEF ChainInv, Extends, Exact
  <2>4. \A s \in checkpoints' : Len(s) = Quota /\ \E d \in Completed' : progress'[d] = s
    BY <2>1 DEF ChainInv
  <2>5. \A s, t \in checkpoints' : s = t
    BY <2>1 DEF ChainInv
  <2> QED
    BY <2>2, <2>3, <2>4, <2>5 DEF ChainInv
<1> QED
  BY <1>1, <1>2, <1>3, <1>4, <1>5, <1>6, <1>7, <1>8, <1>9, <1>10, <1>11, <1>12,
     <1>13, <1>14, <1>15, <1>16, <1>17, <1>18, <1>19, <1>20, <1>21 DEF Next

\* Without overlap, the invariant is about the execution that moves.
Alone(c) == ~overlapped /\ \A o \in Controllers \ {c} : run[o].pc = "idle"

\* An execution under way without overlap sees the stage as it is.
LEMMA IsAlone ==
  ASSUME IInv, NEW c \in Controllers, run[c].pc # "idle", ~overlapped
  PROVE  Alone(c) /\ Listed(c) /\ Cleared(c) /\ Cardinality(authorizations) <= Quota
BY DEF IInv, SoloInv, Alone

\* What the execution that moves keeps, the idle ones keep too.
LEMMA SoloStays ==
  ASSUME IInv, NEW c \in Controllers, Others(c), Alone(c), Listed(c)', Cleared(c)', Cardinality(authorizations') <= Quota
  PROVE  SoloInv'
<1>1. ASSUME NEW o \in Controllers \ {c}
      PROVE  run'[o].pc = "idle" /\ Listed(o)' /\ Cleared(o)'
  <2>1. run[o].pc = "idle" /\ run[o].listed = {} /\ run'[o] = run[o]
    BY DEF Alone, Others, IInv, SoloInv, Listed
  <2> QED
    BY <2>1 DEF Listed, Cleared, Unchecked
<1>2. \A o \in Controllers : Listed(o)' /\ Cleared(o)'
  BY <1>1
<1>3. \A o, q \in Controllers : run'[o].pc # "idle" /\ run'[q].pc # "idle" => o = q
  BY <1>1
<1> QED
  BY <1>2, <1>3 DEF SoloInv

\* An execution that has ended has listed nothing.
LEMMA EndedIsClear ==
  ASSUME NEW c \in Controllers, run'[c] = Idle
  PROVE  Listed(c)' /\ Cleared(c)'
BY IdleIsTyped DEF Listed, Cleared, Unchecked

\* Without overlap, an execution decides on what is stored.
LEMMA SoloNext ==
  ASSUME IInv, [Next]_vars
  PROVE  SoloInv'
<1> USE DEF IInv, TypeOK, At, children, evidence
<1>1. CASE MoveCanonical \/ Redeem
  <2>1. UNCHANGED <<run, overlapped, authorizations, pending, progress, blocks>> /\ Completed' = Completed
    BY <1>1 DEF MoveCanonical, Redeem, Completed
  <2> QED
    BY <2>1 DEF SoloInv, Listed, Cleared, Orphans
<1>2. ASSUME NEW c \in Controllers, Start(c)
      PROVE  SoloInv'
  <2> SUFFICES ASSUME ~overlapped' PROVE SoloInv'
    BY DEF SoloInv
  <2>1. run[c].pc = "idle" /\ Alone(c) /\ Others(c) /\ UNCHANGED <<authorizations, blocks>>
    BY <1>2, Moves, StepNames DEF Start, Alone
  <2>2. Listed(c) /\ Cardinality(authorizations) <= Quota
    BY <2>1 DEF SoloInv, Alone
  <2>3. Listed(c)' /\ Cleared(c)'
    BY <1>2, <2>1, <2>2, Moves, StepNames DEF Start, Listed, Cleared, Unchecked, SameListing
  <2> QED
    BY <2>1, <2>2, <2>3, SoloStays
<1>3. ASSUME NEW c \in Controllers, ConsumeGrant(c)
      PROVE  SoloInv'
  <2> SUFFICES ASSUME ~overlapped' PROVE SoloInv'
    BY DEF SoloInv
  <2>1. run[c].pc # "idle" /\ ~overlapped /\ UNCHANGED <<authorizations, Completed, pending>>
    BY <1>3, Moves, StepNames DEF ConsumeGrant, Completed
  <2>2. Alone(c) /\ Listed(c) /\ Cleared(c) /\ Cardinality(authorizations) <= Quota
    BY <2>1, IsAlone
  <2>3. Others(c)
    BY <1>3, Moves, StepNames DEF ConsumeGrant
  <2>4. Listed(c)' /\ Cleared(c)'
    BY <1>3, <2>1, <2>2, EndedIsClear, Moves, StepNames DEF ConsumeGrant, Listed, Cleared, Unchecked, SameListing
  <2> QED
    BY <2>1, <2>2, <2>3, <2>4, SoloStays
<1>4. ASSUME NEW c \in Controllers, AuthorizeStage(c)
      PROVE  SoloInv'
  <2> SUFFICES ASSUME ~overlapped' PROVE SoloInv'
    BY DEF SoloInv
  <2>1. run[c].pc # "idle" /\ ~overlapped /\ UNCHANGED <<authorizations, Completed, pending>>
    BY <1>4, Moves, StepNames DEF AuthorizeStage, Completed
  <2>2. Alone(c) /\ Listed(c) /\ Cleared(c) /\ Cardinality(authorizations) <= Quota
    BY <2>1, IsAlone
  <2>3. Others(c)
    BY <1>4, Moves, StepNames DEF AuthorizeStage
  <2>4. Listed(c)' /\ Cleared(c)'
    BY <1>4, <2>1, <2>2, EndedIsClear, Moves, StepNames DEF AuthorizeStage, Listed, Cleared, Unchecked, SameListing
  <2> QED
    BY <2>1, <2>2, <2>3, <2>4, SoloStays
<1>5. ASSUME NEW c \in Controllers, AssertNoStageBlock(c)
      PROVE  SoloInv'
  <2> SUFFICES ASSUME ~overlapped' PROVE SoloInv'
    BY DEF SoloInv
  <2>1. run[c].pc # "idle" /\ ~overlapped /\ UNCHANGED <<authorizations, Completed, pending>>
    BY <1>5, Moves, StepNames DEF AssertNoStageBlock, Completed
  <2>2. Alone(c) /\ Listed(c) /\ Cleared(c) /\ Cardinality(authorizations) <= Quota
    BY <2>1, IsAlone
  <2>3. Others(c)
    BY <1>5, Moves, StepNames DEF AssertNoStageBlock
  <2>4. Listed(c)' /\ Cleared(c)'
    BY <1>5, <2>1, <2>2, EndedIsClear, Moves, StepNames DEF AssertNoStageBlock, Listed, Cleared, Unchecked, SameListing
  <2> QED
    BY <2>1, <2>2, <2>3, <2>4, SoloStays
<1>6. ASSUME NEW c \in Controllers, NEW what \in Listings, ListStage(c, what)
      PROVE  SoloInv'
  <2> SUFFICES ASSUME ~overlapped' PROVE SoloInv'
    BY DEF SoloInv
  <2>1. run[c].pc # "idle" /\ ~overlapped /\ UNCHANGED <<authorizations, Completed, pending>>
    BY <1>6, Lists DEF Completed
  <2>2. Alone(c) /\ Listed(c) /\ Cleared(c) /\ Cardinality(authorizations) <= Quota
    BY <2>1, IsAlone
  <2>3. Others(c)
    BY <1>6, Lists
  <2>4. Listed(c)' /\ Cleared(c)'
    BY <1>6, <2>1, <2>2, EndedIsClear, Lists DEF Listed, Cleared, Unchecked, SameListing
  <2> QED
    BY <2>1, <2>2, <2>3, <2>4, SoloStays
<1>7. ASSUME NEW c \in Controllers, Decide(c)
      PROVE  SoloInv'
  <2> SUFFICES ASSUME ~overlapped' PROVE SoloInv'
    BY DEF SoloInv
  <2>1. run[c].pc # "idle" /\ ~overlapped /\ UNCHANGED <<authorizations, Completed, pending>>
    BY <1>7, Decides DEF Completed
  <2>2. Alone(c) /\ Listed(c) /\ Cleared(c) /\ Cardinality(authorizations) <= Quota
    BY <2>1, IsAlone
  <2>3. Others(c)
    BY <1>7, Decides
  <2>4. Listed(c)' /\ Cleared(c)'
    BY <1>7, <2>1, <2>2, EndedIsClear, Decides DEF Listed, Cleared, Unchecked, SameListing, Orphans
  <2> QED
    BY <2>1, <2>2, <2>3, <2>4, SoloStays
<1>8. ASSUME NEW c \in Controllers, AuthorizeOrder(c)
      PROVE  SoloInv'
  <2> SUFFICES ASSUME ~overlapped' PROVE SoloInv'
    BY DEF SoloInv
  <2>1. run[c].pc = "order" /\ ~overlapped /\ Others(c)
    BY <1>8, Authorizes
  <2>2. Alone(c) /\ Listed(c) /\ Cleared(c) /\ Cardinality(authorizations) <= Quota
    BY <2>1, IsAlone
  <2>3. CASE run'[c] = Idle /\ UNCHANGED authorizations
    BY <2>1, <2>2, <2>3, EndedIsClear, SoloStays
  <2>4. CASE /\ run'[c].pc = "child" /\ run'[c].decision \in Decisions
             /\ authorizations' = authorizations \cup {run'[c].decision}
    <3>1. Cardinality(authorizations) < Quota
      BY <2>1, <2>2 DEF Listed, Listings
    <3>2. Cardinality(authorizations') <= Quota
      <4>1. IsFiniteSet(authorizations) /\ Cardinality(authorizations) \in Nat
        BY FiniteDecisions
      <4> QED
        <5>1. Cardinality(authorizations') \in {Cardinality(authorizations), Cardinality(authorizations) + 1}
          <6>1. PICK d : d = run'[c].decision
            OBVIOUS
          <6>2. Cardinality(authorizations \cup {d}) = IF d \in authorizations THEN Cardinality(authorizations) ELSE Cardinality(authorizations) + 1
            BY <4>1, FS_AddElement
          <6> QED
            BY <2>4, <6>1, <6>2
        <5> QED
          BY <3>1, <4>1, <5>1, StageAssumption
    <3>3. Listed(c)' /\ Cleared(c)'
      <4>1. blocks' = blocks
        BY <1>8, Authorizes
      <4> QED
        BY <2>1, <2>2, <2>4, <4>1 DEF Listed, Cleared, Unchecked
    <3> QED
      BY <2>1, <2>2, <3>2, <3>3, SoloStays
  <2> QED
    BY <1>8, <2>3, <2>4, Authorizes
<1>9. ASSUME NEW c \in Controllers, ChildSends(c)
      PROVE  SoloInv'
  <2> SUFFICES ASSUME ~overlapped' PROVE SoloInv'
    BY DEF SoloInv
  <2>1. run[c].pc # "idle" /\ ~overlapped /\ UNCHANGED <<authorizations, Completed, pending>>
    BY <1>9, Moves, StepNames DEF ChildSends, Completed
  <2>2. Alone(c) /\ Listed(c) /\ Cleared(c) /\ Cardinality(authorizations) <= Quota
    BY <2>1, IsAlone
  <2>3. Others(c)
    BY <1>9, Moves, StepNames DEF ChildSends
  <2>4. Listed(c)' /\ Cleared(c)'
    BY <1>9, <2>1, <2>2, EndedIsClear, Moves, StepNames DEF ChildSends, Listed, Cleared, Unchecked, SameListing
  <2> QED
    BY <2>1, <2>2, <2>3, <2>4, SoloStays
<1>10. ASSUME NEW c \in Controllers, ChildFails(c)
      PROVE  SoloInv'
  <2> SUFFICES ASSUME ~overlapped' PROVE SoloInv'
    BY DEF SoloInv
  <2>1. run[c].pc # "idle" /\ ~overlapped /\ UNCHANGED <<authorizations, Completed, pending>>
    BY <1>10, Moves, StepNames DEF ChildFails, Completed
  <2>2. Alone(c) /\ Listed(c) /\ Cleared(c) /\ Cardinality(authorizations) <= Quota
    BY <2>1, IsAlone
  <2>3. Others(c)
    BY <1>10, Moves, StepNames DEF ChildFails
  <2>4. Listed(c)' /\ Cleared(c)'
    BY <1>10, <2>1, <2>2, EndedIsClear, Moves, StepNames DEF ChildFails, Listed, Cleared, Unchecked, SameListing
  <2> QED
    BY <2>1, <2>2, <2>3, <2>4, SoloStays
<1>11. ASSUME NEW c \in Controllers, ChildCompletes(c)
      PROVE  SoloInv'
  <2> SUFFICES ASSUME ~overlapped' PROVE SoloInv'
    BY DEF SoloInv
  <2>1. run[c].pc # "idle" /\ ~overlapped /\ UNCHANGED <<authorizations, Completed, pending>>
    BY <1>11, Moves, StepNames DEF ChildCompletes, Completed
  <2>2. Alone(c) /\ Listed(c) /\ Cleared(c) /\ Cardinality(authorizations) <= Quota
    BY <2>1, IsAlone
  <2>3. Others(c)
    BY <1>11, Moves, StepNames DEF ChildCompletes
  <2>4. Listed(c)' /\ Cleared(c)'
    BY <1>11, <2>1, <2>2, EndedIsClear, Moves, StepNames DEF ChildCompletes, Listed, Cleared, Unchecked, SameListing
  <2> QED
    BY <2>1, <2>2, <2>3, <2>4, SoloStays
<1>12. ASSUME NEW c \in Controllers, LocateSummary(c)
      PROVE  SoloInv'
  <2> SUFFICES ASSUME ~overlapped' PROVE SoloInv'
    BY DEF SoloInv
  <2>1. run[c].pc # "idle" /\ ~overlapped /\ UNCHANGED <<authorizations>>
    BY <1>12, Moves, Fails, StepNames DEF LocateSummary, Finish, Completed
  <2>2. Alone(c) /\ Listed(c) /\ Cleared(c) /\ Cardinality(authorizations) <= Quota
    BY <2>1, IsAlone
  <2>3. Others(c)
    BY <1>12, Moves, Fails, StepNames DEF LocateSummary, Finish
  <2>4. Listed(c)' /\ Cleared(c)'
    BY <1>12, <2>1, <2>2, EndedIsClear, Moves, Fails, StepNames DEF LocateSummary, Finish, Listed, Cleared, Unchecked, SameListing
  <2> QED
    BY <2>1, <2>2, <2>3, <2>4, SoloStays
<1>13. ASSUME NEW c \in Controllers, SettlePendingTerminal(c)
      PROVE  SoloInv'
  <2> SUFFICES ASSUME ~overlapped' PROVE SoloInv'
    BY DEF SoloInv
  <2>1. run[c].pc # "idle" /\ ~overlapped /\ UNCHANGED <<authorizations, Completed, pending>>
    BY <1>13, Moves, StepNames DEF SettlePendingTerminal, Completed
  <2>2. Alone(c) /\ Listed(c) /\ Cleared(c) /\ Cardinality(authorizations) <= Quota
    BY <2>1, IsAlone
  <2>3. Others(c)
    BY <1>13, Moves, StepNames DEF SettlePendingTerminal
  <2>4. Listed(c)' /\ Cleared(c)'
    BY <1>13, <2>1, <2>2, EndedIsClear, Moves, StepNames DEF SettlePendingTerminal, Listed, Cleared, Unchecked, SameListing
  <2> QED
    BY <2>1, <2>2, <2>3, <2>4, SoloStays
<1>14. ASSUME NEW c \in Controllers, LinkProgress(c)
      PROVE  SoloInv'
  <2> SUFFICES ASSUME ~overlapped' PROVE SoloInv'
    BY DEF SoloInv
  <2>0. run[c].decision \in Decisions
    BY <1>14 DEF LinkProgress, OrderInv, OrderOf
  <2>1. run[c].pc = "chain" /\ ~overlapped /\ Others(c) /\ UNCHANGED <<authorizations, blocks>>
    BY <1>14, <2>0, Links
  <2>2. Alone(c) /\ Listed(c) /\ Cleared(c) /\ Cardinality(authorizations) <= Quota
    BY <2>1, IsAlone
  <2>3. run'[c] = Idle \/ run'[c].pc \in {"block", "progress"}
    BY <1>14, <2>0, Links
  <2>4. Listed(c)' /\ Cleared(c)'
    BY <2>1, <2>2, <2>3, EndedIsClear DEF Listed, Cleared, Unchecked
  <2> QED
    BY <2>1, <2>2, <2>4, SoloStays
<1>15. ASSUME NEW c \in Controllers, RecordProgress(c)
      PROVE  SoloInv'
  <2> SUFFICES ASSUME ~overlapped' PROVE SoloInv'
    BY DEF SoloInv
  <2>1. run[c].pc # "idle" /\ ~overlapped /\ UNCHANGED <<authorizations>>
    BY <1>15, Moves, Fails, StepNames DEF RecordProgress, Completed
  <2>2. Alone(c) /\ Listed(c) /\ Cleared(c) /\ Cardinality(authorizations) <= Quota
    BY <2>1, IsAlone
  <2>3. Others(c)
    BY <1>15, Moves, Fails, StepNames DEF RecordProgress
  <2>4. Listed(c)' /\ Cleared(c)'
    BY <1>15, <2>1, <2>2, EndedIsClear, Moves, Fails, StepNames DEF RecordProgress, Listed, Cleared, Unchecked, SameListing
  <2> QED
    BY <2>1, <2>2, <2>3, <2>4, SoloStays
<1>16. ASSUME NEW c \in Controllers, RecordState(c)
      PROVE  SoloInv'
  <2> SUFFICES ASSUME ~overlapped' PROVE SoloInv'
    BY DEF SoloInv
  <2>1. run[c].pc # "idle" /\ ~overlapped /\ UNCHANGED <<authorizations, Completed, pending>>
    BY <1>16, Moves, Fails, StepNames DEF RecordState, Finish, Completed
  <2>2. Alone(c) /\ Listed(c) /\ Cleared(c) /\ Cardinality(authorizations) <= Quota
    BY <2>1, IsAlone
  <2>3. Others(c)
    BY <1>16, Moves, Fails, StepNames DEF RecordState, Finish
  <2>4. Listed(c)' /\ Cleared(c)'
    BY <1>16, <2>1, <2>2, EndedIsClear, Moves, Fails, StepNames DEF RecordState, Finish, Listed, Cleared, Unchecked, SameListing
  <2> QED
    BY <2>1, <2>2, <2>3, <2>4, SoloStays
<1>17. ASSUME NEW c \in Controllers, PublishStageCheckpoint(c)
      PROVE  SoloInv'
  <2> SUFFICES ASSUME ~overlapped' PROVE SoloInv'
    BY DEF SoloInv
  <2>1. run[c].pc # "idle" /\ ~overlapped /\ UNCHANGED <<authorizations, Completed, pending>>
    BY <1>17, Moves, Fails, StepNames DEF PublishStageCheckpoint, Finish, Completed
  <2>2. Alone(c) /\ Listed(c) /\ Cleared(c) /\ Cardinality(authorizations) <= Quota
    BY <2>1, IsAlone
  <2>3. Others(c)
    BY <1>17, Moves, Fails, StepNames DEF PublishStageCheckpoint, Finish
  <2>4. Listed(c)' /\ Cleared(c)'
    BY <1>17, <2>1, <2>2, EndedIsClear, Moves, Fails, StepNames DEF PublishStageCheckpoint, Finish, Listed, Cleared, Unchecked, SameListing
  <2> QED
    BY <2>1, <2>2, <2>3, <2>4, SoloStays
<1>18. ASSUME NEW c \in Controllers, WriteStageBlock(c)
      PROVE  SoloInv'
  <2> SUFFICES ASSUME ~overlapped' PROVE SoloInv'
    BY DEF SoloInv
  <2>1. run[c].pc # "idle" /\ ~overlapped /\ UNCHANGED <<authorizations>>
    BY <1>18, Moves, StepNames DEF WriteStageBlock, Completed
  <2>2. Alone(c) /\ Listed(c) /\ Cleared(c) /\ Cardinality(authorizations) <= Quota
    BY <2>1, IsAlone
  <2>3. Others(c)
    BY <1>18, Moves, StepNames DEF WriteStageBlock
  <2>4. Listed(c)' /\ Cleared(c)'
    BY <1>18, <2>1, <2>2, EndedIsClear, Moves, StepNames DEF WriteStageBlock, Listed, Cleared, Unchecked, SameListing
  <2> QED
    BY <2>1, <2>2, <2>3, <2>4, SoloStays
<1>19. ASSUME NEW c \in Controllers, Crash(c)
      PROVE  SoloInv'
  <2> SUFFICES ASSUME ~overlapped' PROVE SoloInv'
    BY DEF SoloInv
  <2>1. run[c].pc # "idle" /\ ~overlapped /\ UNCHANGED <<authorizations, Completed, pending>>
    BY <1>19, Moves, StepNames DEF Crash, Completed
  <2>2. Alone(c) /\ Listed(c) /\ Cleared(c) /\ Cardinality(authorizations) <= Quota
    BY <2>1, IsAlone
  <2>3. Others(c)
    BY <1>19, Moves, StepNames DEF Crash
  <2>4. Listed(c)' /\ Cleared(c)'
    BY <1>19, <2>1, <2>2, EndedIsClear, Moves, StepNames DEF Crash, Listed, Cleared, Unchecked, SameListing
  <2> QED
    BY <2>1, <2>2, <2>3, <2>4, SoloStays
<1>20. ASSUME NEW c \in Controllers, StoreFails(c)
      PROVE  SoloInv'
  <2> SUFFICES ASSUME ~overlapped' PROVE SoloInv'
    BY DEF SoloInv
  <2>1. run[c].pc # "idle" /\ ~overlapped /\ UNCHANGED <<authorizations, Completed, pending>>
    BY <1>20, Moves, StepNames DEF StoreFails, Completed
  <2>2. Alone(c) /\ Listed(c) /\ Cleared(c) /\ Cardinality(authorizations) <= Quota
    BY <2>1, IsAlone
  <2>3. Others(c)
    BY <1>20, Moves, StepNames DEF StoreFails
  <2>4. Listed(c)' /\ Cleared(c)'
    BY <1>20, <2>1, <2>2, EndedIsClear, Moves, StepNames DEF StoreFails, Listed, Cleared, Unchecked, SameListing
  <2> QED
    BY <2>1, <2>2, <2>3, <2>4, SoloStays
<1>21. CASE UNCHANGED vars
  <2>1. UNCHANGED <<run, overlapped, authorizations, pending, blocks>> /\ Completed' = Completed
    BY <1>21 DEF vars, Completed
  <2> QED
    BY <2>1 DEF SoloInv, Listed, Cleared, Orphans
<1> QED
  BY <1>1, <1>2, <1>3, <1>4, <1>5, <1>6, <1>7, <1>8, <1>9, <1>10, <1>11, <1>12,
     <1>13, <1>14, <1>15, <1>16, <1>17, <1>18, <1>19, <1>20, <1>21 DEF Next

-----------------------------------------------------------------------------

\* The initial state satisfies the invariant.
LEMMA InitIInv == Init => IInv
<1> SUFFICES ASSUME Init PROVE IInv
  OBVIOUS
<1> USE DEF Init
<1>1. Completed = {}
  BY DEF Completed
<1>2. TypeOK
  <2>1. <<>> \in Seq(Decisions)
    OBVIOUS
  <2>2. progress \in [Decisions -> Seq(Decisions)] /\ checkpoints \subseteq Seq(Decisions) /\ states \subseteq Nat
    BY <2>1
  <2>3. run \in [Controllers -> Executions]
    BY IdleIsTyped
  <2>4. {authorizations, spent, filled, terminal, pending, blocks} \subseteq SUBSET Decisions
    OBVIOUS
  <2>5. canonical \in {"waiting", "authorized", "moved"} /\ consumed \in BOOLEAN /\ overlapped \in BOOLEAN
    OBVIOUS
  <2> QED
    BY <2>2, <2>3, <2>4, <2>5 DEF TypeOK
<1>3. DocumentInv
  BY <1>1 DEF DocumentInv
<1>4. OrderInv
  BY IdleIsTyped DEF OrderInv, OrderOf
<1>5. ChainInv
  BY <1>1, IdleIsTyped DEF ChainInv
<1>6. SoloInv
  BY IdleIsTyped, FS_EmptySet, StageAssumption DEF SoloInv, Listed, Cleared, Unchecked
<1> QED
  BY <1>2, <1>3, <1>4, <1>5, <1>6 DEF IInv

\* The strengthened invariant holds in every reachable state.
THEOREM Invariance == Spec => []IInv
<1>1. IInv /\ [Next]_vars => IInv'
  BY TypeNext, DocumentNext, OrderNext, ChainNext, SoloNext DEF IInv
<1> QED
  BY InitIInv, <1>1, PTL DEF Spec

\* Every step keeps the types, for any stage and any executions.
THEOREM TypeCorrect == Spec => []TypeOK
BY Invariance, PTL DEF IInv

\* loadStageInventory: executions that follow each other spend no more than the quota,
\* wherever they are killed.
THEOREM QuotaIsKept == Spec => []QuotaHolds
<1>1. IInv => QuotaHolds
  <2> SUFFICES ASSUME IInv, ~overlapped PROVE Cardinality(spent) <= Quota
    BY DEF QuotaHolds
  <2>1. authorizations \in SUBSET Decisions /\ spent \in SUBSET authorizations
    BY DEF IInv, TypeOK, DocumentInv
  <2>2. IsFiniteSet(authorizations) /\ Cardinality(authorizations) \in Nat /\ Cardinality(spent) \in Nat
    BY <2>1, FiniteDecisions
  <2>3. Cardinality(spent) <= Cardinality(authorizations)
    BY <2>1, <2>2, FS_Subset
  <2>4. Cardinality(authorizations) <= Quota
    BY DEF IInv, SoloInv
  <2> QED
    BY <2>2, <2>3, <2>4, StageAssumption
<1> QED
  BY <1>1, Invariance, PTL

\* publishStageCheckpoint: a checkpoint is one chain of the stage's orders, and the only
\* one, whatever the executions did to each other.
THEOREM CheckpointsAreExact == Spec => []CheckpointIsExact
<1>1. IInv => CheckpointIsExact
  <2> SUFFICES ASSUME IInv PROVE CheckpointIsExact
    OBVIOUS
  <2> USE DEF IInv, ChainInv, DocumentInv
  <2>1. Cardinality(checkpoints) <= 1
    <3>1. CASE checkpoints = {}
      BY <3>1, FS_EmptySet
    <3>2. CASE checkpoints # {}
      <4>1. PICK s \in checkpoints : checkpoints = {s}
        BY <3>2
      <4> QED
        <5>1. Cardinality({s}) = 1
          BY FS_Singleton
        <5> QED
          BY <4>1, <5>1
    <3> QED
      BY <3>1, <3>2
  <2>2. ASSUME NEW s \in checkpoints
        PROVE  /\ Len(s) = Quota
               /\ \A i, j \in 1..Len(s) : s[i] = s[j] => i = j
               /\ \A i \in 1..Len(s) : s[i] \in spent \cap terminal
    <3>1. Len(s) = Quota /\ Exact(s, Len(s))
      OBVIOUS
    <3> QED
      BY <3>1 DEF Exact
  <2> QED
    BY <2>1, <2>2 DEF CheckpointIsExact
<1> QED
  BY <1>1, Invariance, PTL

\* An order is authorized only when every earlier one is complete (loadStageInventory).
THEOREM NothingIsReplaced == Spec => NoReplacementSpending
<1>1. IInv /\ [Next]_vars =>
        [authorizations' # authorizations =>
           overlapped \/ (authorizations = Completed /\ authorizations \subseteq terminal /\ blocks = {})]_vars
  <2> SUFFICES ASSUME IInv, [Next]_vars, authorizations' # authorizations, ~overlapped
               PROVE  authorizations = Completed /\ authorizations \subseteq terminal /\ blocks = {}
    OBVIOUS
  <2> USE DEF children, evidence
  <2>1. PICK c \in Controllers : AuthorizeOrder(c)
    <3>1. ~MoveCanonical /\ ~Redeem /\ ~UNCHANGED vars
      BY DEF MoveCanonical, Redeem, vars
    <3>2. ASSUME NEW c \in Controllers
          PROVE  /\ ~Start(c) /\ ~ConsumeGrant(c) /\ ~AuthorizeStage(c) /\ ~AssertNoStageBlock(c)
                 /\ \A what \in Listings : ~ListStage(c, what)
      BY DEF Start, ConsumeGrant, AuthorizeStage, AssertNoStageBlock, ListStage
    <3>3. ASSUME NEW c \in Controllers
          PROVE  ~Decide(c) /\ ~ChildSends(c) /\ ~ChildFails(c) /\ ~ChildCompletes(c) /\ ~LocateSummary(c)
      BY DEF Decide, ChildSends, ChildFails, ChildCompletes, LocateSummary
    <3>4. ASSUME NEW c \in Controllers
          PROVE  ~SettlePendingTerminal(c) /\ ~LinkProgress(c) /\ ~RecordProgress(c) /\ ~RecordState(c)
      BY DEF SettlePendingTerminal, LinkProgress, RecordProgress, RecordState
    <3>5. ASSUME NEW c \in Controllers
          PROVE  ~PublishStageCheckpoint(c) /\ ~StoreFails(c) /\ ~WriteStageBlock(c) /\ ~Crash(c)
      BY DEF PublishStageCheckpoint, StoreFails, WriteStageBlock, Crash
    <3> QED
      BY <3>1, <3>2, <3>3, <3>4, <3>5 DEF Next
  <2>2. run[c].pc = "order"
    BY <2>1 DEF AuthorizeOrder, At
  <2>3. Listed(c) /\ Cleared(c)
    BY <2>2, IsAlone
  <2>4. run[c].attempted = authorizations /\ run[c].completed = Completed /\ run[c].waiting = pending
    BY <2>2, <2>3 DEF Listed, Listings
  <2>5. authorizations \subseteq Completed
    BY <2>2, <2>3, <2>4 DEF Listed, Orphans
  <2>6. Completed \subseteq authorizations /\ Completed \subseteq terminal
    BY DEF IInv, DocumentInv
  <2>7. blocks = {}
    BY <2>2, <2>3 DEF Cleared, Unchecked
  <2> QED
    BY <2>5, <2>6, <2>7
<1> QED
  BY <1>1, Invariance, PTL DEF Spec, NoReplacementSpending

=============================================================================
