------------------------- MODULE AppendBlob_proofs -------------------------
(* Proofs about AppendBlob, for any number of blocks, any limit of a read and *)
(* any number of faults, foreign appends and late creations.  Two parts: what *)
(* holds whatever the service does, and what holds until it harms the blob.   *)
(* The argument for the second: the block to append is in the blob only       *)
(* beyond the place the recorder looks from; a request that may still be      *)
(* acted on is bound to a length the blob had before, or is the only one of   *)
(* its kind, and the recorder has not looked for its block yet.               *)
EXTENDS AppendBlob, SequenceTheorems, FiniteSetTheorems, TLAPS

Landed == \E i \in DOMAIN blob : blob[i] = next

\* the block to append is not among the first n
Beyond(n) == n <= Len(blob) /\ \A i \in 1..n : blob[i] # next

\* each rank is that of one place
Rank(i) == Cardinality(OwnPlaces \cap 1..i)

Ranked ==
  \A n \in 1..Cardinality(OwnPlaces) :
    \E i \in OwnPlaces : Rank(i) = n /\ \A j \in OwnPlaces : Rank(j) = n => j = i

\* the recorder's blocks are in the blob in order, up to the block to append or to the
\* one before it
OrderInv ==
  /\ Ranked
  /\ \A n \in 1..Len(Own) : Own[n] = n
  /\ Len(Own) = IF Landed THEN next ELSE next - 1
  /\ \A i \in DOMAIN blob : blob[i] # Foreign => blob[i] <= next

\* the places the recorder looks from
PlaceInv ==
  /\ expected <= Len(blob) /\ observed <= Len(blob)
  /\ known = Unknown => ~Landed /\ pc \in {"idle", "create", "created"}
  /\ pc \in {"create", "created"} => known = Unknown
  /\ known # Unknown => Beyond(known)
  /\ ambiguous # Unknown => Beyond(ambiguous)

\* what is known of the block to append on each path
PathInv ==
  /\ ambiguous = Unknown /\ (handoff \/ pc = "position") => ~Landed
  /\ pc \in {"create", "created"} /\ ~unconditional => ambiguous = Unknown /\ ~handoff
  /\ pc \in {"position", "resolve"} => unconditional
  /\ pc = "resolve" => \A i \in observed + 1..Len(blob) : blob[i] # next
  /\ pc \in {"put", "reconcile", "read"} =>
       /\ expected = known
       /\ IF unconditional THEN ambiguous = expected ELSE ambiguous = Unknown /\ ~handoff
  /\ pc = "put" /\ unconditional => ~Landed

\* a request that may still be acted on, bound to a length
Bound(r) ==
  /\ r.at <= Len(blob) /\ (r.at = Len(blob) => r.block = next /\ ~Landed)
  /\ known # Unknown /\ ambiguous = Unknown /\ ~handoff /\ pc \notin {"position", "resolve"}

\* a request that may still be acted on, and that the recorder has not looked for
Awaited(r) ==
  /\ r.block = next /\ ~Landed
  /\ known # Unknown /\ ambiguous # Unknown /\ pc \in {"idle", "position", "reconcile"}

DelayedInv ==
  \A r \in delayed : IF r.at # Unknown THEN Bound(r) ELSE ~r.missed => Awaited(r)

\* a call is about one of the blocks, and looks for it where it may have landed
ActiveInv ==
  /\ pc # "idle" => next \in Blocks
  /\ pc = "resolve" => ambiguous # Unknown

Unharmed == OrderInv /\ PlaceInv /\ PathInv /\ DelayedInv

IInv == TypeOK /\ ActiveInv /\ (harm = {} => Unharmed)

----------------------------------------------------------------------------
(* The blocks of the recorder *)

Contents == Blocks \cup {Foreign}

\* A blob with one more block.
LEMMA OneMore ==
  ASSUME TypeOK, NEW x \in Contents, blob' = Append(blob, x)
  PROVE  /\ blob' \in Seq(Contents) /\ Len(blob') = Len(blob) + 1 /\ blob'[Len(blob) + 1] = x
         /\ \A i \in 1..Len(blob) : blob'[i] = blob[i]
         /\ DOMAIN blob = 1..Len(blob) /\ DOMAIN blob' = 1..Len(blob) + 1 /\ Len(blob) \in Nat
<1>1. blob \in Seq(Contents)
  BY DEF TypeOK, Contents
<1> QED
  BY <1>1

\* The places of the recorder's blocks are as many as they are.
LEMMA OwnType ==
  ASSUME TypeOK
  PROVE  /\ IsFiniteSet(OwnPlaces) /\ Cardinality(OwnPlaces) \in Nat /\ OwnPlaces \subseteq 1..Len(blob)
         /\ Len(Own) = Cardinality(OwnPlaces) /\ DOMAIN Own = 1..Len(Own)
         /\ \A i : IsFiniteSet(OwnPlaces \cap 1..i) /\ Rank(i) \in Nat /\ Rank(i) <= Cardinality(OwnPlaces)
<1>1. blob \in Seq(Contents) /\ DOMAIN blob = 1..Len(blob) /\ Len(blob) \in Nat
  BY DEF TypeOK, Contents
<1>2. IsFiniteSet(1..Len(blob))
  <2>1. 1 \in Int /\ Len(blob) \in Int
    BY <1>1
  <2>2. \A a, b \in Int : IsFiniteSet(a..b)
    BY FS_Interval
  <2> QED
    BY <2>1, <2>2
<1>3. OwnPlaces \subseteq 1..Len(blob)
  BY <1>1 DEF OwnPlaces
<1>4. IsFiniteSet(OwnPlaces)
  BY <1>2, <1>3, FS_Subset
<1>5. Cardinality(OwnPlaces) \in Nat
  BY <1>4, FS_CardinalityType
<1>6. ASSUME NEW i
      PROVE  IsFiniteSet(OwnPlaces \cap 1..i) /\ Rank(i) \in Nat /\ Rank(i) <= Cardinality(OwnPlaces)
  <2>1. OwnPlaces \cap 1..i \subseteq OwnPlaces
    OBVIOUS
  <2> QED
    BY <1>4, <2>1, FS_Subset, FS_CardinalityType DEF Rank
<1>7. Len(Own) = Cardinality(OwnPlaces) /\ DOMAIN Own = 1..Len(Own)
  <2>1. PICK k \in Nat : k = Cardinality(OwnPlaces)
    BY <1>5
  <2>2. DOMAIN Own = 1..k
    BY <2>1 DEF Own
  <2>3. PICK S : S = {Own[n] : n \in 1..k}
    OBVIOUS
  <2>4. Own \in [1..k -> S]
    BY <2>1, <2>3 DEF Own
  <2>5. Own \in Seq(S) /\ Len(Own) = k
    BY <2>4, SeqDef, LenProperties
  <2> QED
    BY <2>1, <2>2, <2>5
<1> QED
  BY <1>3, <1>4, <1>5, <1>6, <1>7

\* So they are after a step.
LEMMA OwnLength == TypeOK' => (Len(Own) = Cardinality(OwnPlaces))'
<1>1. TypeOK => Len(Own) = Cardinality(OwnPlaces)
  BY OwnType
<1> QED
  BY <1>1, PTL

\* A foreign block adds none to the recorder's; one of its own comes last.
LEMMA OwnMoves ==
  ASSUME TypeOK, TypeOK', Ranked, NEW x \in Contents, blob' = Append(blob, x)
  PROVE  /\ Ranked'
         /\ Len(Own') = IF x = Foreign THEN Len(Own) ELSE Len(Own) + 1
         /\ \A n \in 1..Len(Own) : Own'[n] = Own[n]
         /\ x # Foreign => Own'[Len(Own) + 1] = x
<1> DEFINE P == OwnPlaces
           Q == OwnPlaces'
           L == Len(blob)
<1>0. PICK top : top = L + 1
  OBVIOUS
<1>1. /\ L \in Nat /\ top \in Nat /\ top = L + 1 /\ blob'[top] = x /\ \A i \in 1..L : blob'[i] = blob[i]
      /\ DOMAIN blob = 1..L /\ DOMAIN blob' = 1..top
  BY <1>0, OneMore
<1>2. /\ IsFiniteSet(P) /\ P \subseteq 1..L /\ Cardinality(P) \in Nat /\ Len(Own) = Cardinality(P)
      /\ \A i : Rank(i) \in Nat /\ Rank(i) <= Cardinality(P)
  BY OwnType
<1>3. Len(Own') = Cardinality(Q)
  BY OwnLength
<1>4. Q = IF x = Foreign THEN P ELSE P \cup {top}
  <2>1. \A i : i \in 1..top <=> i \in 1..L \/ i = top
    BY <1>1
  <2> QED
    BY <1>1, <2>1 DEF OwnPlaces
<1>5. top \notin P
  BY <1>1, <1>2
<1>6. Cardinality(Q) = IF x = Foreign THEN Cardinality(P) ELSE Cardinality(P) + 1
  BY <1>2, <1>4, <1>5, FS_AddElement
<1>7. \A i \in P : Rank(i)' = Rank(i)
  <2>1. ASSUME NEW i \in P
        PROVE  Q \cap 1..i = P \cap 1..i
    <3>1. top \notin 1..i
      BY <1>1, <1>2, <2>1
    <3> QED
      BY <1>4, <3>1
  <2> QED
    BY <2>1 DEF Rank
<1>8. x # Foreign => Rank(top)' = Cardinality(P) + 1
  <2>1. \A i \in P : i \in 1..top
    BY <1>1, <1>2
  <2>2. top \in 1..top
    BY <1>1
  <2>3. x # Foreign => Q \cap 1..top = Q
    BY <1>4, <2>1, <2>2
  <2> QED
    BY <1>6, <2>3 DEF Rank
<1> DEFINE Nth(n, i) == i \in P /\ Rank(i) = n /\ \A j \in P : Rank(j) = n => j = i
<1>9. ASSUME NEW n \in 1..Cardinality(P)
      PROVE  \E i : Nth(n, i)
  BY DEF Ranked
<1>10. ASSUME NEW n \in 1..Cardinality(P), NEW i, Nth(n, i)
       PROVE  /\ i \in Q /\ Rank(i)' = n /\ \A j \in Q : Rank(j)' = n => j = i
              /\ Own[n] = blob[i]
  <2>1. n # Cardinality(P) + 1 /\ n \in Nat
    BY <1>2
  <2>2. \A j \in Q : Rank(j)' = n => j \in P /\ Rank(j) = n
    BY <1>4, <1>7, <1>8, <2>1
  <2>3. Own[n] = blob[i]
    <3>1. Own[n] = blob[CHOOSE j \in P : Rank(j) = n]
      BY DEF Own, Rank
    <3>2. (CHOOSE j \in P : Rank(j) = n) = i
      BY <1>10
    <3> QED
      BY <3>1, <3>2
  <2> QED
    BY <1>4, <1>7, <1>10, <2>2, <2>3
<1>11. ASSUME NEW n \in 1..Cardinality(Q), NEW i \in Q, Rank(i)' = n, \A j \in Q : Rank(j)' = n => j = i
       PROVE  Own'[n] = blob'[i]
  <2>1. Own'[n] = blob'[CHOOSE j \in Q : Rank(j)' = n]
    BY DEF Own, Rank
  <2>2. (CHOOSE j \in Q : Rank(j)' = n) = i
    BY <1>11
  <2> QED
    BY <2>1, <2>2
<1>12. \A n \in 1..Cardinality(P) : n \in 1..Cardinality(Q)
  BY <1>2, <1>6
<1>13. \A n \in 1..Cardinality(P) : Own'[n] = Own[n]
  <2>1. SUFFICES ASSUME NEW n \in 1..Cardinality(P)
                 PROVE  Own'[n] = Own[n]
    OBVIOUS
  <2>2. PICK i : Nth(n, i)
    BY <1>9
  <2>3. Own[n] = blob[i] /\ Own'[n] = blob'[i]
    BY <1>10, <1>11, <1>12, <2>2
  <2> QED
    BY <1>1, <1>2, <2>2, <2>3
<1>14. ASSUME x # Foreign
       PROVE  /\ top \in Q /\ \A j \in Q : Rank(j)' = Cardinality(P) + 1 => j = top
              /\ Own'[Cardinality(P) + 1] = x
  <2>1. \A j \in P : Rank(j)' # Cardinality(P) + 1
    BY <1>2, <1>7
  <2>2. top \in Q /\ \A j \in Q : Rank(j)' = Cardinality(P) + 1 => j = top
    BY <1>4, <1>14, <2>1
  <2>3. Cardinality(P) + 1 \in 1..Cardinality(Q)
    BY <1>2, <1>6, <1>14
  <2>4. Own'[Cardinality(P) + 1] = blob'[top]
    BY <1>8, <1>11, <1>14, <2>2, <2>3
  <2> QED
    BY <1>1, <2>2, <2>4
<1>15. Ranked'
  <2>1. SUFFICES ASSUME NEW n \in 1..Cardinality(Q)
                 PROVE  \E i \in Q : Rank(i)' = n /\ \A j \in Q : Rank(j)' = n => j = i
    BY DEF Ranked
  <2>2. CASE n \in 1..Cardinality(P)
    BY <1>9, <1>10, <2>2
  <2>3. CASE n \notin 1..Cardinality(P)
    <3>1. x # Foreign /\ n = Cardinality(P) + 1
      BY <1>2, <1>6, <2>3
    <3> QED
      BY <1>8, <1>14, <3>1
  <2> QED
    BY <2>2, <2>3
<1> QED
  BY <1>2, <1>3, <1>6, <1>13, <1>14, <1>15

----------------------------------------------------------------------------
(* What a step does to the blob *)

\* the blob is the same, or has one more foreign block, or the block to append
Grows ==
  \/ blob' = blob
  \/ blob' = Append(blob, Foreign) /\ next' = next
  \/ blob' = Append(blob, next) /\ ~Landed /\ next \in Blocks

\* the recorder goes on when the block has landed
GoesOn ==
  \/ next' = next
  \/ next' = next + 1 /\ next \in Blocks /\ \E i \in DOMAIN blob' : blob'[i] = next

\* Types of what is compared.
LEMMA Types ==
  ASSUME TypeOK
  PROVE  /\ next \in Nat /\ expected \in Nat /\ observed \in Nat /\ NumBlocks \in Nat
         /\ (known # Unknown => known \in Nat) /\ (ambiguous # Unknown => ambiguous \in Nat)
         /\ Unknown \notin Nat /\ Foreign \notin Nat /\ Blocks \subseteq Nat
         /\ blob \in Seq(Contents) /\ DOMAIN blob = 1..Len(blob) /\ Len(blob) \in Nat
         /\ \A i \in 1..Len(blob) : blob[i] \in Nat \/ blob[i] = Foreign
         /\ \A r \in delayed : r.block \in Blocks /\ (r.at = Unknown \/ r.at \in Nat) /\ r.missed \in BOOLEAN
<1> USE BlobAssumption DEF TypeOK, Blocks, Positions, Contents, Requests
<1>1. blob \in Seq(Contents) /\ DOMAIN blob = 1..Len(blob) /\ Len(blob) \in Nat
  OBVIOUS
<1>2. \A i \in 1..Len(blob) : blob[i] \in Contents
  BY <1>1
<1> QED
  BY <1>1, <1>2

\* An append that the service accepts has not landed before: it is bound to a length up to
\* which it is not in the blob, or the recorder has just looked for it.
LEMMA NotYetLanded ==
  ASSUME TypeOK, PlaceInv, PathInv, pc = "put", Accepts(Condition)
  PROVE  ~Landed
<1>1. CASE unconditional
  BY <1>1 DEF PathInv
<1>2. CASE ~unconditional
  <2>1. expected = known /\ expected = Len(blob) /\ known # Unknown
    BY <1>2, Types DEF PathInv, Accepts, Condition
  <2>2. Beyond(Len(blob))
    BY <2>1 DEF PlaceInv
  <2> QED
    BY <2>2, Types DEF Beyond, Landed
<1> QED
  BY <1>1, <1>2

\* What was found in a range that was read is in the blob.
LEMMA Found ==
  ASSUME TypeOK, NEW a \in Nat, NEW b \in Nat, b <= Len(blob), BlockBetween(a, b)
  PROVE  Landed
BY Types DEF BlockBetween, Landed

\* Whatever the service does, the recorder goes on to the next block when the one before
\* is in the blob.
LEMMA Onwards ==
  ASSUME TypeOK, ActiveInv, [Next]_vars
  PROVE  GoesOn
<1> USE DEF counts, service, local
<1>1. CASE ForeignAppend \/ ForeignLooks \/ DelayedCreation \/ DelayedAppend
  BY <1>1 DEF ForeignAppend, ForeignLooks, DelayedCreation, DelayedAppend, GoesOn
<1>2. CASE HandoffEnds \/ Done \/ UNCHANGED vars
  BY <1>2 DEF HandoffEnds, Done, vars, GoesOn
<1>3. CASE BeginAppend \/ CreateBlob \/ PositionCreated
  BY <1>3 DEF BeginAppend, CreateBlob, PositionCreated, GoesOn
<1>4. CASE HandoffPosition
  BY <1>4 DEF HandoffPosition, SendUnconditionally, GiveUp, GoesOn
<1>5. CASE ResolveAmbiguity
  <2>1. /\ blob' = blob
        /\ \/ next' = next
           \/ next' = next + 1 /\ observed <= Len(blob) /\ BlockBetween(ambiguous, observed)
    BY <1>5 DEF ResolveAmbiguity, Acknowledge, SendUnconditionally, GiveUp, Readable
  <2>2. ambiguous \in Nat /\ observed \in Nat /\ next \in Blocks
    BY <1>5, Types DEF ResolveAmbiguity, ActiveInv
  <2>3. observed <= Len(blob) /\ BlockBetween(ambiguous, observed) => Landed
    BY <2>2, Found
  <2> QED
    BY <2>1, <2>2, <2>3 DEF GoesOn, Landed
<1>6. CASE PutSucceeds
  <2>1. next \in Blocks /\ blob' = Append(blob, next) /\ next' = next + 1
    BY <1>6 DEF PutSucceeds, Acknowledge, ActiveInv
  <2>2. next \in Contents
    BY <2>1 DEF Contents
  <2>3. \E i \in DOMAIN blob' : blob'[i] = next
    BY <2>1, <2>2, OneMore
  <2> QED
    BY <2>1, <2>3 DEF GoesOn
<1>7. CASE PutUnanswered \/ PutRejected \/ PutRefused
  BY <1>7 DEF PutUnanswered, PutRejected, PutRefused, GiveUp, GoesOn
<1>8. CASE ReconcilePosition
  BY <1>8 DEF ReconcilePosition, GiveUp, GoesOn
<1>9. CASE ReconcileRead
  <2>1. /\ blob' = blob
        /\ \/ next' = next
           \/ next' = next + 1 /\ observed <= Len(blob) /\ BlockBetween(expected, observed)
    BY <1>9 DEF ReconcileRead, Acknowledge, GiveUp, Readable
  <2>2. expected \in Nat /\ observed \in Nat /\ next \in Blocks
    BY <1>9, Types DEF ReconcileRead, ActiveInv
  <2>3. observed <= Len(blob) /\ BlockBetween(expected, observed) => Landed
    BY <2>2, Found
  <2> QED
    BY <2>1, <2>2, <2>3 DEF GoesOn, Landed
<1> QED
  BY <1>1, <1>2, <1>3, <1>4, <1>5, <1>6, <1>7, <1>8, <1>9 DEF Next, Recorder

\* A creation that does no harm changes nothing.
LEMMA Harmless ==
  ASSUME Created, harm' = {}
  PROVE  harm = {} /\ blob' = blob
BY DEF Created

\* Harm is never undone, and without it every step leaves the blob or makes it grow.
LEMMA BlobMoves ==
  ASSUME TypeOK, ActiveInv, harm = {} => Unharmed, [Next]_vars, harm' = {}
  PROVE  harm = {} /\ Grows /\ GoesOn
<1> USE DEF counts, service, local
<1>1. harm = {}
  BY DEF Next, Recorder, vars, ForeignAppend, ForeignLooks, DelayedCreation, Created, DelayedAppend, HandoffEnds,
    Done, BeginAppend, CreateBlob, PositionCreated, HandoffPosition, ResolveAmbiguity, PutSucceeds, PutRejected,
    PutUnanswered, PutRefused, ReconcilePosition, ReconcileRead
<1>2. PlaceInv /\ PathInv /\ DelayedInv
  BY <1>1 DEF Unharmed
<1>3. SUFFICES Grows
  BY <1>1, Onwards
<1>4. CASE ForeignAppend
  BY <1>4 DEF ForeignAppend, Grows
<1>5. CASE DelayedAppend
  <2>1. PICK r \in delayed : \/ Accepts(r.at) /\ blob' = Append(blob, r.block) /\ ~r.missed
                             \/ blob' = blob
    BY <1>5 DEF DelayedAppend
  <2>2. Accepts(r.at) /\ ~r.missed => r.block = next /\ ~Landed
    BY <1>2, Types DEF DelayedInv, Bound, Awaited, Accepts
  <2>3. r.block \in Blocks
    BY Types
  <2> QED
    BY <2>1, <2>2, <2>3 DEF Grows
<1>6. CASE DelayedCreation
  BY <1>6, Harmless DEF DelayedCreation, Grows
<1>7. CASE CreateBlob
  BY <1>7, Harmless DEF CreateBlob, Grows
<1>8. CASE PutSucceeds \/ PutUnanswered
  <2>1. pc = "put" /\ (blob' = blob \/ (Accepts(Condition) /\ blob' = Append(blob, next)))
    BY <1>8 DEF PutSucceeds, PutUnanswered
  <2>2. next \in Blocks
    BY <2>1 DEF ActiveInv
  <2>3. Accepts(Condition) => ~Landed
    BY <1>2, <2>1, NotYetLanded
  <2> QED
    BY <2>1, <2>2, <2>3 DEF Grows
<1>9. CASE \/ ForeignLooks \/ HandoffEnds \/ Done \/ UNCHANGED vars \/ BeginAppend \/ PositionCreated
           \/ HandoffPosition \/ ResolveAmbiguity \/ PutRejected \/ PutRefused \/ ReconcilePosition \/ ReconcileRead
  BY <1>9 DEF vars, ForeignLooks, HandoffEnds, Done, BeginAppend, PositionCreated, HandoffPosition, ResolveAmbiguity,
    PutRejected, PutRefused, ReconcilePosition, ReconcileRead, Grows
<1> QED
  BY <1>4, <1>5, <1>6, <1>7, <1>8, <1>9 DEF Next, Recorder

\* What a step leaves of the blob.
LEMMA Keeps ==
  ASSUME TypeOK, OrderInv, Grows, GoesOn
  PROVE  /\ blob' \in Seq(Contents) /\ Len(blob') \in Nat /\ Len(blob) <= Len(blob') /\ DOMAIN blob' = 1..Len(blob')
         /\ \A i \in 1..Len(blob) : blob'[i] = blob[i]
         /\ Len(blob') = Len(blob) => blob' = blob
         /\ Landed => \E i \in DOMAIN blob' : blob'[i] = next
         /\ \A i \in DOMAIN blob' : blob'[i] # Foreign => blob'[i] <= next
         /\ next' = next + 1 => ~Landed' /\ \A i \in DOMAIN blob' : blob'[i] # next'
         /\ next' = next => (Landed' <=> Landed \/ blob' = Append(blob, next))
<1>1. PICK L \in Nat : L = Len(blob)
  BY Types
<1>2. /\ blob \in Seq(Contents) /\ DOMAIN blob = 1..L /\ next \in Nat /\ Foreign \notin Nat /\ Blocks \subseteq Nat
      /\ \A i \in 1..L : blob[i] # Foreign => blob[i] <= next
      /\ \A i \in 1..L : blob[i] \in Nat \/ blob[i] = Foreign
  BY <1>1, Types DEF OrderInv
<1>3. CASE blob' = blob
  <2>1. \A i \in 1..L : blob[i] # next + 1
    BY <1>2
  <2>2. blob' # Append(blob, next) \/ next \notin Contents
    BY <1>1, <1>3, OneMore
  <2>3. next' = next /\ blob' = Append(blob, next) => FALSE
    <3>1. SUFFICES ASSUME next' = next, blob' = Append(blob, next)
                   PROVE  FALSE
      OBVIOUS
    <3>2. Len(Append(blob, next)) = L + 1
      BY <1>1, <1>2
    <3> QED
      BY <1>1, <1>3, <3>1, <3>2
  <2> QED
    BY <1>1, <1>2, <1>3, <2>1, <2>3 DEF Landed, GoesOn
<1>4. ASSUME NEW x \in Contents, blob' = Append(blob, x), x = Foreign \/ x = next
      PROVE  /\ blob' \in Seq(Contents) /\ Len(blob') = L + 1 /\ DOMAIN blob' = 1..L + 1
             /\ \A i \in 1..L : blob'[i] = blob[i]
             /\ blob'[L + 1] = x
             /\ \A i \in DOMAIN blob' : blob'[i] # Foreign => blob'[i] <= next
             /\ \A i \in DOMAIN blob' : blob'[i] # next + 1
  <2>1. /\ blob' \in Seq(Contents) /\ Len(blob') = L + 1 /\ blob'[L + 1] = x /\ DOMAIN blob' = 1..L + 1
        /\ \A i \in 1..L : blob'[i] = blob[i]
    BY <1>1, <1>4, OneMore
  <2>2. \A i \in 1..L + 1 : i \in 1..L \/ i = L + 1
    OBVIOUS
  <2>3. x # next + 1 /\ (x # Foreign => x <= next)
    BY <1>2, <1>4
  <2>4. \A i \in 1..L : blob[i] # next + 1
    BY <1>2
  <2> QED
    BY <1>2, <2>1, <2>2, <2>3, <2>4
<1>5. CASE blob' = Append(blob, Foreign) /\ next' = next
  <2>1. Foreign \in Contents
    BY DEF Contents
  <2>2. \A i \in 1..L + 1 : i \in 1..L \/ i = L + 1
    OBVIOUS
  <2>3. Append(blob, next)[L + 1] = next /\ Append(blob, Foreign)[L + 1] = Foreign
    BY <1>1, <1>2
  <2>4. blob' # Append(blob, next) /\ Foreign # next
    BY <1>2, <1>5, <2>3
  <2>5. /\ blob' \in Seq(Contents) /\ Len(blob') = L + 1 /\ DOMAIN blob' = 1..L + 1
        /\ \A i \in 1..L : blob'[i] = blob[i]
        /\ blob'[L + 1] = Foreign
        /\ \A i \in DOMAIN blob' : blob'[i] # Foreign => blob'[i] <= next
    BY <1>4, <1>5, <2>1
  <2>6. Landed' <=> Landed
    BY <1>2, <1>5, <2>2, <2>4, <2>5 DEF Landed
  <2>7. Landed => \E i \in DOMAIN blob' : blob'[i] = next
    BY <1>2, <2>2, <2>5 DEF Landed
  <2> QED
    BY <1>1, <1>2, <1>5, <2>4, <2>5, <2>6, <2>7
<1>6. CASE blob' = Append(blob, next) /\ next \in Blocks
  <2>1. next \in Contents
    BY <1>6 DEF Contents
  <2>2. L + 1 \in 1..L + 1 /\ \A i \in 1..L : i \in 1..L + 1
    OBVIOUS
  <2>5. /\ blob' \in Seq(Contents) /\ Len(blob') = L + 1 /\ DOMAIN blob' = 1..L + 1
        /\ \A i \in 1..L : blob'[i] = blob[i]
        /\ blob'[L + 1] = next
        /\ \A i \in DOMAIN blob' : blob'[i] # Foreign => blob'[i] <= next
        /\ \A i \in DOMAIN blob' : blob'[i] # next + 1
    BY <1>4, <1>6, <2>1
  <2>6. next' = next => Landed'
    BY <2>2, <2>5 DEF Landed
  <2>7. \E i \in DOMAIN blob' : blob'[i] = next
    BY <2>2, <2>5
  <2>8. next' = next + 1 => ~Landed' /\ \A i \in DOMAIN blob' : blob'[i] # next'
    BY <2>5 DEF Landed
  <2> QED
    BY <1>1, <1>2, <1>6, <2>5, <2>6, <2>7, <2>8
<1> QED
  BY <1>3, <1>5, <1>6 DEF Grows

----------------------------------------------------------------------------
(* The order and the types *)

\* What is in a creation, a look or an append keeps the type of the service.
LEMMA ServiceTypes ==
  ASSUME TypeOK
  PROVE  /\ Len(blob) \in Positions /\ Len(blob) \in Nat /\ <<>> \in Seq(Blocks \cup {Foreign})
         /\ \A x \in Contents : Append(blob, x) \in Seq(Blocks \cup {Foreign})
         /\ Look => delayed' \subseteq Requests /\ observed' \in Nat
         /\ Created => /\ exists' \in BOOLEAN /\ harm' \subseteq {"overwritten", "late"}
                       /\ blob' \in Seq(Blocks \cup {Foreign}) /\ (~exists' => blob' = <<>>)
<1>1. /\ Len(blob) \in Nat /\ blob \in Seq(Contents) /\ delayed \subseteq Requests /\ exists \in BOOLEAN
      /\ harm \subseteq {"overwritten", "late"} /\ (~exists => blob = <<>>) /\ blob \in Seq(Blocks \cup {Foreign})
  BY Types DEF TypeOK
<1>2. <<>> \in Seq(Blocks \cup {Foreign}) /\ Len(blob) \in Positions
  BY <1>1 DEF Positions
<1>3. \A x \in Contents : Append(blob, x) \in Seq(Blocks \cup {Foreign})
  BY <1>1 DEF Contents
<1>4. ASSUME Look
      PROVE  delayed' \subseteq Requests /\ observed' \in Nat
  <2>1. ASSUME NEW r \in delayed
        PROVE  [r EXCEPT !.missed = r.at = Unknown] \in Requests
    BY <1>1 DEF Requests
  <2> QED
    BY <1>1, <1>4, <2>1 DEF Look
<1>5. ASSUME Created
      PROVE  /\ exists' \in BOOLEAN /\ harm' \subseteq {"overwritten", "late"}
             /\ blob' \in Seq(Blocks \cup {Foreign}) /\ (~exists' => blob' = <<>>)
  BY <1>1, <1>2, <1>5 DEF Created
<1> QED
  BY <1>1, <1>2, <1>3, <1>4, <1>5

\* Every step keeps the types.
LEMMA TypeNext ==
  ASSUME TypeOK, ActiveInv, [Next]_vars
  PROVE  TypeOK'
<1>1. /\ NumBlocks \in Nat \ {0} /\ MaxForeign \in Nat /\ MaxFaults \in Nat /\ MaxCreations \in Nat
      /\ Len(blob) \in Positions /\ Len(blob) \in Nat /\ <<>> \in Seq(Blocks \cup {Foreign})
      /\ \A x \in Contents : Append(blob, x) \in Seq(Blocks \cup {Foreign})
      /\ Foreign \in Contents /\ Blocks \subseteq Contents
      /\ expected + 1 \in Positions /\ expected \in Positions /\ observed \in Positions
      /\ expected \in Nat /\ observed \in Nat /\ Unknown \in Positions
  BY ServiceTypes, BlobAssumption DEF Contents, Positions, TypeOK
<1>2. next' \in 1..NumBlocks + 1
  BY <1>1, Onwards DEF GoesOn, TypeOK, Blocks
<1>3. pc # "idle" => next \in Blocks
  BY DEF ActiveInv
<1> USE DEF counts, service, local
<1>4. foreign' \in 0..MaxForeign /\ faults' \in 0..MaxFaults
  <2>1. foreign' = foreign \/ (foreign < MaxForeign /\ foreign' = foreign + 1)
    BY DEF Next, Recorder, vars, ForeignAppend, ForeignLooks, DelayedCreation, DelayedAppend, HandoffEnds, Done,
      BeginAppend, CreateBlob, PositionCreated, HandoffPosition, ResolveAmbiguity, PutSucceeds, PutRejected,
      PutUnanswered, PutRefused, ReconcilePosition, ReconcileRead
  <2>2. faults' = faults \/ Fault
    BY DEF Next, Recorder, vars, ForeignAppend, ForeignLooks, DelayedCreation, DelayedAppend, HandoffEnds, Done,
      BeginAppend, CreateBlob, PositionCreated, HandoffPosition, ResolveAmbiguity, PutSucceeds, PutRejected,
      PutUnanswered, PutRefused, ReconcilePosition, ReconcileRead, ReadFails
  <2> QED
    BY <1>1, <2>1, <2>2 DEF Fault, TypeOK
<1> DEFINE Service == /\ exists \in BOOLEAN /\ blob \in Seq(Blocks \cup {Foreign}) /\ (~exists => blob = <<>>)
                      /\ delayed \subseteq Requests /\ creations \in 0..MaxCreations
                      /\ harm \subseteq {"overwritten", "late"}
           Memory  == /\ pc \in {"idle", "create", "created", "position", "resolve", "put", "reconcile", "read"}
                      /\ handoff \in BOOLEAN /\ unconditional \in BOOLEAN
                      /\ known \in Positions /\ ambiguous \in Positions
                      /\ expected \in Nat /\ observed \in Nat
<1>5. Service /\ Memory
  BY DEF TypeOK
<1>6. Service'
  <2>1. CASE ForeignAppend
    BY <1>1, <1>5, <2>1 DEF ForeignAppend
  <2>2. CASE ForeignLooks
    BY <1>1, <1>5, <2>2 DEF ForeignLooks
  <2>3. CASE DelayedCreation
    <3>1. /\ creations > 0 /\ creations' = creations - 1 /\ UNCHANGED delayed
          /\ exists' \in BOOLEAN /\ harm' \subseteq {"overwritten", "late"}
          /\ blob' \in Seq(Blocks \cup {Foreign}) /\ (~exists' => blob' = <<>>)
      BY <2>3, ServiceTypes DEF DelayedCreation
    <3> QED
      BY <1>1, <1>5, <3>1
  <2>4. CASE DelayedAppend
    <3>1. PICK r \in delayed : /\ delayed' = delayed \ {r} /\ UNCHANGED <<exists, creations>>
                               /\ \/ /\ Accepts(r.at) /\ blob' = Append(blob, r.block)
                                     /\ harm' = IF r.missed THEN harm \cup {"late"} ELSE harm
                                  \/ UNCHANGED <<blob, harm>>
      BY <2>4 DEF DelayedAppend
    <3>2. Accepts(r.at) => exists
      BY DEF Accepts
    <3>3. Append(blob, r.block) \in Seq(Blocks \cup {Foreign})
      BY <1>1, Types
    <3> QED
      BY <1>5, <3>1, <3>2, <3>3
  <2>5. CASE CreateBlob
    <3>1. /\ UNCHANGED delayed
          /\ \/ UNCHANGED <<exists, blob, creations, harm>>
             \/ Created /\ UNCHANGED creations
             \/ creations < MaxCreations /\ creations' = creations + 1 /\ UNCHANGED <<exists, blob, harm>>
      BY <2>5 DEF CreateBlob
    <3>2. creations' \in 0..MaxCreations
      BY <1>1, <1>5, <3>1
    <3>3. CASE Created
      <4>1. /\ exists' \in BOOLEAN /\ harm' \subseteq {"overwritten", "late"}
            /\ blob' \in Seq(Blocks \cup {Foreign}) /\ (~exists' => blob' = <<>>)
        BY <3>3, ServiceTypes
      <4> QED
        BY <1>5, <3>1, <3>2, <4>1
    <3>4. CASE UNCHANGED <<exists, blob, harm>>
      BY <1>5, <3>1, <3>2, <3>4
    <3> QED
      BY <3>1, <3>3, <3>4
  <2>6. CASE PutSucceeds \/ PutUnanswered
    <3>1. /\ pc = "put" /\ UNCHANGED <<exists, creations, harm>>
          /\ \/ UNCHANGED blob
             \/ Accepts(Condition) /\ blob' = Append(blob, next)
          /\ \/ UNCHANGED delayed
             \/ delayed' = delayed \cup {[block |-> next, at |-> Condition, missed |-> FALSE]}
      BY <2>6 DEF PutSucceeds, PutUnanswered
    <3>2. next \in Blocks /\ Condition \in Positions
      BY <1>1, <1>3, <3>1 DEF Condition
    <3>3. [block |-> next, at |-> Condition, missed |-> FALSE] \in Requests
      BY <3>2 DEF Requests
    <3>4. Append(blob, next) \in Seq(Blocks \cup {Foreign}) /\ (Accepts(Condition) => exists)
      BY <1>1, <3>2 DEF Accepts
    <3>5. delayed' \subseteq Requests
      BY <1>5, <3>1, <3>3
    <3> QED
      BY <1>5, <3>1, <3>4, <3>5
  <2>7. CASE HandoffPosition \/ ReconcilePosition
    <3>1. UNCHANGED <<exists, blob, creations, harm>> /\ (Look \/ UNCHANGED delayed)
      BY <2>7 DEF HandoffPosition, ReconcilePosition
    <3> QED
      BY <1>5, <3>1, ServiceTypes
  <2>8. CASE \/ HandoffEnds \/ Done \/ UNCHANGED vars \/ BeginAppend \/ PositionCreated
             \/ ResolveAmbiguity \/ PutRejected \/ PutRefused \/ ReconcileRead
    <3>1. UNCHANGED service
      BY <2>8 DEF vars, HandoffEnds, Done, BeginAppend, PositionCreated, ResolveAmbiguity, PutRejected, PutRefused,
        ReconcileRead
    <3> QED
      BY <1>5, <3>1
  <2> QED
    BY <2>1, <2>2, <2>3, <2>4, <2>5, <2>6, <2>7, <2>8 DEF Next, Recorder
<1>7. Memory'
  <2>1. CASE \/ ForeignAppend \/ ForeignLooks \/ DelayedCreation \/ DelayedAppend \/ HandoffEnds \/ Done
             \/ UNCHANGED vars
    BY <1>5, <2>1 DEF ForeignAppend, ForeignLooks, DelayedCreation, DelayedAppend, HandoffEnds, Done, vars
  <2>2. CASE BeginAppend
    <3>1. unconditional' \in BOOLEAN
      BY <1>5, <2>2 DEF BeginAppend
    <3> QED
      BY <1>1, <1>5, <2>2, <3>1, Types DEF BeginAppend, ChoosePath
  <2>3. CASE CreateBlob \/ PositionCreated
    BY <1>1, <1>5, <2>3 DEF CreateBlob, PositionCreated, ChoosePath
  <2>4. CASE HandoffPosition
    BY <1>1, <1>5, <2>4, ServiceTypes DEF HandoffPosition, SendUnconditionally, GiveUp
  <2>5. CASE ResolveAmbiguity
    BY <1>1, <1>5, <2>5 DEF ResolveAmbiguity, SendUnconditionally, GiveUp, Acknowledge
  <2>6. CASE PutSucceeds
    BY <1>1, <1>5, <2>6 DEF PutSucceeds, Acknowledge
  <2>7. CASE PutRejected \/ PutUnanswered \/ PutRefused
    BY <1>1, <1>5, <2>7 DEF PutRejected, PutUnanswered, PutRefused, GiveUp
  <2>8. CASE ReconcilePosition
    BY <1>1, <1>5, <2>8, ServiceTypes DEF ReconcilePosition, GiveUp
  <2>9. CASE ReconcileRead
    BY <1>1, <1>5, <2>9 DEF ReconcileRead, GiveUp, Acknowledge
  <2> QED
    BY <2>1, <2>2, <2>3, <2>4, <2>5, <2>6, <2>7, <2>8, <2>9 DEF Next, Recorder
<1> QED
  BY <1>2, <1>4, <1>6, <1>7 DEF TypeOK

\* Every call is about one of the blocks.
LEMMA ActiveNext ==
  ASSUME TypeOK, ActiveInv, [Next]_vars
  PROVE  ActiveInv'
<1>1. NumBlocks \in Nat /\ next \in 1..NumBlocks + 1 /\ (pc # "idle" => next \in Blocks)
      /\ (pc = "resolve" => ambiguous # Unknown)
  BY BlobAssumption DEF TypeOK, ActiveInv
<1> USE DEF counts, service, local
<1>2. CASE \/ ForeignAppend \/ ForeignLooks \/ DelayedCreation \/ DelayedAppend \/ HandoffEnds \/ Done
           \/ UNCHANGED vars
  BY <1>1, <1>2 DEF ForeignAppend, ForeignLooks, DelayedCreation, DelayedAppend, HandoffEnds, Done, vars, ActiveInv
<1>3. CASE BeginAppend
  <2>1. next \in Blocks
    BY <1>1, <1>3 DEF BeginAppend, Blocks
  <2> QED
    BY <1>3, <2>1 DEF BeginAppend, ChoosePath, ActiveInv
<1>4. CASE CreateBlob \/ PositionCreated
  BY <1>1, <1>4 DEF CreateBlob, PositionCreated, ChoosePath, ActiveInv
<1>5. CASE HandoffPosition \/ ResolveAmbiguity
  BY <1>1, <1>5 DEF HandoffPosition, ResolveAmbiguity, SendUnconditionally, GiveUp, Acknowledge, ActiveInv
<1>6. CASE PutSucceeds \/ PutRejected \/ PutUnanswered \/ PutRefused
  BY <1>1, <1>6 DEF PutSucceeds, PutRejected, PutUnanswered, PutRefused, GiveUp, Acknowledge, ActiveInv
<1>7. CASE ReconcilePosition \/ ReconcileRead
  BY <1>1, <1>7 DEF ReconcilePosition, ReconcileRead, GiveUp, Acknowledge, ActiveInv
<1> QED
  BY <1>2, <1>3, <1>4, <1>5, <1>6, <1>7 DEF Next, Recorder

\* Every step keeps the blocks in order.
LEMMA OrderNext ==
  ASSUME TypeOK, OrderInv, TypeOK', Grows, GoesOn
  PROVE  OrderInv'
<1>1. /\ Len(Own) \in Nat /\ Len(blob) \in Nat /\ next \in Nat /\ Foreign \notin Nat
      /\ Len(Own) = Cardinality(OwnPlaces)
  BY OwnType, Types
<1>2. \A i \in DOMAIN blob' : blob'[i] # Foreign => blob'[i] <= next'
  <2>1. \A i \in DOMAIN blob' : blob'[i] # Foreign => blob'[i] <= next /\ blob'[i] \in Nat
    <3>1. \A i \in DOMAIN blob' : blob'[i] # Foreign => blob'[i] <= next
      BY Keeps
    <3>2. \A i \in 1..Len(blob') : blob'[i] \in Contents
      <4>1. \A s \in Seq(Contents) : \A i \in 1..Len(s) : s[i] \in Contents
        OBVIOUS
      <4>2. blob' \in Seq(Contents)
        BY Keeps
      <4> QED
        BY <4>1, <4>2
    <3>3. \A i \in DOMAIN blob' : blob'[i] # Foreign => blob'[i] \in Nat
      BY <3>2, Keeps, Types DEF Contents
    <3> QED
      BY <3>1, <3>3
  <2> QED
    BY <1>1, <2>1 DEF GoesOn
<1>3. CASE blob' = blob
  <2>1. UNCHANGED <<Own, OwnPlaces>>
    BY <1>3 DEF Own, OwnPlaces
  <2>2. Ranked'
    <3>1. \A i : Rank(i)' = Rank(i)
      BY <2>1 DEF Rank
    <3>2. Ranked
      BY DEF OrderInv
    <3>3. \A n \in 1..Cardinality(OwnPlaces) :
            \E i \in OwnPlaces : Rank(i)' = n /\ \A j \in OwnPlaces : Rank(j)' = n => j = i
      BY <3>1, <3>2 DEF Ranked
    <3> QED
      BY <2>1, <3>3 DEF Ranked
  <2>3. next' = next => Landed' = Landed
    BY <1>3 DEF Landed
  <2>4. next' = next + 1 => Landed /\ ~Landed'
    BY <1>1, <1>3, Keeps DEF GoesOn, Landed
  <2>5. Len(Own') = IF Landed' THEN next' ELSE next' - 1
    BY <1>1, <2>1, <2>3, <2>4 DEF OrderInv, GoesOn
  <2> QED
    BY <1>2, <1>3, <2>1, <2>2, <2>5 DEF OrderInv
<1>4. CASE blob' = Append(blob, Foreign) /\ next' = next
  <2>1. Foreign \in Contents
    BY DEF Contents
  <2>2. Ranked' /\ Len(Own') = Len(Own) /\ \A n \in 1..Len(Own) : Own'[n] = Own[n]
    BY <1>4, <2>1, OwnMoves DEF OrderInv
  <2>4. Append(blob, Foreign) # Append(blob, next)
    <3>1. Append(blob, Foreign)[Len(blob) + 1] = Foreign /\ Append(blob, next)[Len(blob) + 1] = next
      BY Types
    <3> QED
      BY <1>1, <3>1
  <2>5. Landed' = Landed
    <3>1. Landed' <=> Landed
      BY <1>4, <2>4, Keeps
    <3> QED
      BY <3>1 DEF Landed
  <2> QED
    BY <1>1, <1>2, <1>4, <2>2, <2>5 DEF OrderInv
<1>5. CASE blob' = Append(blob, next) /\ ~Landed /\ next \in Blocks
  <2>1. next \in Contents /\ next # Foreign
    BY <1>1, <1>5 DEF Contents
  <2>2. /\ Ranked' /\ Len(Own') = Len(Own) + 1 /\ \A n \in 1..Len(Own) : Own'[n] = Own[n]
        /\ Own'[Len(Own) + 1] = next
    BY <1>5, <2>1, OwnMoves DEF OrderInv
  <2>4. next' = next => Landed'
    BY <1>5, Keeps
  <2>5. next' = next + 1 => ~Landed'
    BY Keeps
  <2>6. Len(Own) = next - 1
    BY <1>5 DEF OrderInv
  <2>7. \A n \in 1..Len(Own) : Own[n] = n
    BY DEF OrderInv
  <2>8. \A n \in 1..Len(Own') : Own'[n] = n
    BY <1>1, <2>2, <2>6, <2>7
  <2>9. Len(Own') = IF Landed' THEN next' ELSE next' - 1
    BY <1>1, <2>2, <2>4, <2>5, <2>6 DEF GoesOn
  <2> QED
    BY <1>2, <2>2, <2>8, <2>9 DEF OrderInv
<1> QED
  BY <1>3, <1>4, <1>5 DEF Grows

----------------------------------------------------------------------------
(* The places the recorder looks from *)

\* after the step, the block to append is not among the first n
BeyondThen(n) == n <= Len(blob') /\ \A i \in 1..n : blob'[i] # next'

\* A block that was not in the first n places is not there after a step, and one that has
\* not landed is nowhere.
LEMMA Onward ==
  ASSUME TypeOK, OrderInv, Grows, GoesOn, NEW n \in Nat
  PROVE  /\ Beyond(n) => BeyondThen(n)
         /\ n <= Len(blob') /\ (~Landed' \/ next' = next + 1) => BeyondThen(n)
<1>1. /\ Len(blob) \in Nat /\ Len(blob') \in Nat /\ Len(blob) <= Len(blob') /\ DOMAIN blob' = 1..Len(blob')
      /\ \A i \in 1..Len(blob) : blob'[i] = blob[i]
      /\ next' = next + 1 => \A i \in DOMAIN blob' : blob'[i] # next'
  BY Keeps, Types
<1>2. ~Landed' => \A i \in DOMAIN blob' : blob'[i] # next'
  BY DEF Landed
<1>3. ASSUME n <= Len(blob'), ~Landed' \/ next' = next + 1
      PROVE  BeyondThen(n)
  BY <1>1, <1>2, <1>3 DEF BeyondThen
<1>4. ASSUME Beyond(n)
      PROVE  BeyondThen(n)
  <2>1. n <= Len(blob) /\ \A i \in 1..n : blob[i] # next
    BY <1>4 DEF Beyond
  <2>2. n <= Len(blob') /\ \A i \in 1..n : i \in 1..Len(blob)
    BY <1>1, <2>1
  <2>3. CASE next' = next
    BY <1>1, <2>1, <2>2, <2>3 DEF BeyondThen
  <2>4. CASE next' = next + 1
    BY <1>3, <2>2, <2>4
  <2> QED
    BY <2>3, <2>4 DEF GoesOn
<1> QED
  BY <1>3, <1>4

\* A block that has not landed is beyond every place, and one beyond the end has not.
LEMMA NowhereYet ==
  ASSUME TypeOK, NEW n \in Nat
  PROVE  /\ ~Landed /\ n <= Len(blob) => Beyond(n)
         /\ Beyond(n) /\ (\A i \in n + 1..Len(blob) : blob[i] # next) => ~Landed
         /\ Beyond(n) /\ Len(blob) <= n => ~Landed
         /\ \A m \in Nat : Beyond(n) /\ m <= Len(blob) /\ ~BlockBetween(n, m) => Beyond(m)
<1>1. DOMAIN blob = 1..Len(blob) /\ Len(blob) \in Nat
  BY Types
<1>2. ~Landed /\ n <= Len(blob) => Beyond(n)
  BY <1>1 DEF Landed, Beyond
<1>3. Beyond(n) /\ (\A i \in n + 1..Len(blob) : blob[i] # next) => ~Landed
  <2>1. \A i \in 1..Len(blob) : i \in 1..n \/ i \in n + 1..Len(blob)
    BY <1>1
  <2> QED
    BY <1>1, <2>1 DEF Landed, Beyond
<1>4. Beyond(n) /\ Len(blob) <= n => ~Landed
  BY <1>1 DEF Landed, Beyond
<1>5. ASSUME NEW m \in Nat, Beyond(n), m <= Len(blob), ~BlockBetween(n, m)
      PROVE  Beyond(m)
  <2>1. \A i \in 1..m : i \in 1..n \/ i \in n + 1..m
    OBVIOUS
  <2> QED
    BY <1>5, <2>1 DEF Beyond, BlockBetween
<1> QED
  BY <1>2, <1>3, <1>4, <1>5

\* Every step keeps the places.
LEMMA PlaceNext ==
  ASSUME IInv, [Next]_vars, harm' = {}
  PROVE  PlaceInv'
<1>1. TypeOK /\ ActiveInv /\ OrderInv /\ PlaceInv /\ PathInv /\ DelayedInv
  BY BlobMoves DEF IInv, Unharmed
<1>2. Grows /\ GoesOn
  BY BlobMoves DEF IInv
<1>3. /\ next \in Nat /\ expected \in Nat /\ observed \in Nat /\ Len(blob) \in Nat /\ Unknown \notin Nat
      /\ Len(blob') \in Nat /\ Len(blob) <= Len(blob')
      /\ (known # Unknown => known \in Nat) /\ (ambiguous # Unknown => ambiguous \in Nat)
  BY <1>1, <1>2, Types, Keeps
<1>4. /\ expected <= Len(blob) /\ observed <= Len(blob)
      /\ known = Unknown => ~Landed /\ pc \in {"idle", "create", "created"}
      /\ pc \in {"create", "created"} => known = Unknown
      /\ known # Unknown => Beyond(known)
      /\ ambiguous # Unknown => Beyond(ambiguous)
  BY <1>1 DEF PlaceInv
<1>5. \A n \in Nat : /\ Beyond(n) => BeyondThen(n)
                     /\ n <= Len(blob') /\ (~Landed' \/ next' = next + 1) => BeyondThen(n)
  BY <1>1, <1>2, Onward
<1>6. \A n \in Nat : /\ ~Landed /\ n <= Len(blob) => Beyond(n)
                     /\ Beyond(n) /\ Len(blob) <= n => ~Landed
                     /\ \A m \in Nat : Beyond(n) /\ m <= Len(blob) /\ ~BlockBetween(n, m) => Beyond(m)
  BY <1>1, NowhereYet
<1>7. SUFFICES /\ expected' <= Len(blob') /\ observed' <= Len(blob')
               /\ known' = Unknown => ~Landed' /\ pc' \in {"idle", "create", "created"}
               /\ pc' \in {"create", "created"} => known' = Unknown
               /\ known' # Unknown => BeyondThen(known')
               /\ ambiguous' # Unknown => BeyondThen(ambiguous')
  BY DEF PlaceInv, Beyond, BeyondThen
<1>8. /\ known # Unknown => BeyondThen(known)
      /\ ambiguous # Unknown => BeyondThen(ambiguous)
  BY <1>3, <1>4, <1>5
<1>9. next' = next /\ blob' = blob => Landed' = Landed
  BY DEF Landed
<1> USE DEF counts, service, local
<1>10. CASE ForeignAppend
  <2>1. UNCHANGED <<next, pc, known, ambiguous, expected, observed>> /\ blob' = Append(blob, Foreign)
    BY <1>10 DEF ForeignAppend
  <2>2. ~Landed => ~Landed'
    <3>1. Append(blob, Foreign) # Append(blob, next)
      <4>1. Append(blob, Foreign)[Len(blob) + 1] = Foreign /\ Append(blob, next)[Len(blob) + 1] = next
        BY <1>1, Types
      <4> QED
        BY <1>1, <4>1, Types
    <3> QED
      BY <1>1, <1>2, <2>1, <3>1, Keeps
  <2> QED
    BY <1>3, <1>4, <1>8, <2>1, <2>2
<1>11. CASE DelayedAppend
  <2>1. /\ UNCHANGED <<next, pc, known, ambiguous, expected, observed>>
        /\ blob' = blob \/ \E r \in delayed : Accepts(r.at) /\ ~r.missed
    BY <1>11 DEF DelayedAppend
  <2>2. known # Unknown \/ blob' = blob
    BY <1>1, <2>1 DEF DelayedInv, Bound, Awaited
  <2> QED
    BY <1>3, <1>4, <1>8, <1>9, <2>1, <2>2
<1>12. CASE ForeignLooks \/ DelayedCreation \/ HandoffEnds \/ Done \/ UNCHANGED vars
  <2>1. UNCHANGED <<blob, next, pc, known, ambiguous, expected, observed>>
    BY <1>12, Harmless DEF ForeignLooks, DelayedCreation, HandoffEnds, Done, vars
  <2> QED
    BY <1>3, <1>4, <1>8, <1>9, <2>1
<1>13. CASE BeginAppend \/ CreateBlob \/ PositionCreated
  <2>1. UNCHANGED <<blob, next, ambiguous, observed>>
    BY <1>13, Harmless DEF BeginAppend, CreateBlob, PositionCreated
  <2>2. /\ \/ known' = known
           \/ known = Unknown /\ known' = Len(blob)
        /\ known' = Unknown => pc' \in {"idle", "create", "created"}
        /\ pc' \in {"create", "created"} => known' = Unknown
        /\ expected' = expected \/ (expected' = known' /\ known' # Unknown)
    BY <1>13, <1>3, <1>4 DEF BeginAppend, CreateBlob, PositionCreated, ChoosePath
  <2>3. known = Unknown => BeyondThen(Len(blob))
    BY <1>3, <1>4, <1>5, <1>6
  <2>4. known' # Unknown => BeyondThen(known')
    BY <1>8, <2>2, <2>3
  <2>5. expected' <= Len(blob')
    BY <1>3, <1>4, <2>1, <2>2, <2>4 DEF BeyondThen
  <2> QED
    BY <1>3, <1>4, <1>8, <1>9, <2>1, <2>2, <2>4, <2>5
<1>14. CASE HandoffPosition
  <2>1. /\ UNCHANGED <<blob, next>>
        /\ \/ observed' = Len(blob) /\ UNCHANGED <<known, ambiguous, expected>>
           \/ /\ ambiguous # Unknown => Len(blob) = ambiguous
              /\ observed' = Len(blob) /\ known' = Len(blob) /\ ambiguous' = Len(blob) /\ expected' = Len(blob)
           \/ UNCHANGED <<known, ambiguous, expected, observed>>
        /\ pc = "position" /\ pc' \notin {"create", "created"}
    BY <1>14 DEF HandoffPosition, SendUnconditionally, GiveUp, Look
  <2>2. known # Unknown
    BY <1>4, <2>1
  <2>3. (ambiguous # Unknown => Len(blob) = ambiguous) => BeyondThen(Len(blob))
    <3>1. ambiguous = Unknown => ~Landed
      BY <1>1, <2>1 DEF PathInv
    <3>2. ambiguous # Unknown /\ Len(blob) = ambiguous => ~Landed
      BY <1>3, <1>4, <1>6
    <3> QED
      BY <1>3, <1>5, <1>6, <3>1, <3>2
  <2> QED
    BY <1>3, <1>4, <1>8, <2>1, <2>2, <2>3
<1>15. CASE ResolveAmbiguity
  <2>1. /\ UNCHANGED <<blob, observed>>
        /\ \/ ambiguous' = Unknown /\ known' = observed /\ next' = next + 1 /\ UNCHANGED expected
           \/ /\ ~BlockBetween(ambiguous, observed)
              /\ known' = observed /\ ambiguous' = observed /\ expected' = observed
           \/ UNCHANGED <<known, ambiguous, expected>>
        /\ pc = "resolve" /\ pc' \notin {"create", "created"}
    BY <1>15 DEF ResolveAmbiguity, SendUnconditionally, GiveUp, Acknowledge
  <2>2. known # Unknown /\ ambiguous # Unknown
    BY <1>1, <1>4, <2>1 DEF ActiveInv
  <2>3. next' = next + 1 => BeyondThen(observed)
    BY <1>3, <1>4, <1>5
  <2>4. ~BlockBetween(ambiguous, observed) => BeyondThen(observed)
    BY <1>3, <1>4, <1>5, <1>6, <2>2
  <2> QED
    BY <1>3, <1>4, <1>8, <2>1, <2>2, <2>3, <2>4
<1>16. CASE PutSucceeds
  <2>1. /\ UNCHANGED <<expected, observed>> /\ known' = expected + 1 /\ next' = next + 1
        /\ ambiguous' = IF unconditional THEN Unknown ELSE ambiguous
        /\ pc = "put" /\ pc' = "idle" /\ blob' = Append(blob, next)
    BY <1>16 DEF PutSucceeds, Acknowledge
  <2>2. ambiguous' = Unknown
    BY <1>1, <2>1 DEF PathInv
  <2>3. Len(blob') = Len(blob) + 1
    <3>1. next \in Contents
      BY <1>1, <2>1 DEF ActiveInv, Contents
    <3> QED
      BY <1>1, <2>1, <3>1, OneMore
  <2>4. BeyondThen(expected + 1)
    BY <1>3, <1>4, <1>5, <2>1, <2>3
  <2> QED
    BY <1>3, <1>4, <2>1, <2>2, <2>4
<1>17. CASE PutRejected \/ PutUnanswered \/ PutRefused
  <2>1. /\ UNCHANGED <<known, expected, observed>> /\ (ambiguous' = ambiguous \/ ambiguous' = Unknown)
        /\ pc = "put" /\ pc' \notin {"create", "created"}
    BY <1>17 DEF PutRejected, PutUnanswered, PutRefused, GiveUp
  <2> QED
    BY <1>3, <1>4, <1>8, <2>1
<1>18. CASE ReconcilePosition
  <2>1. /\ UNCHANGED <<ambiguous, expected>> /\ (known' = known \/ known' = expected)
        /\ observed' = observed \/ observed' = Len(blob)
        /\ pc = "reconcile" /\ pc' \notin {"create", "created"}
    BY <1>18 DEF ReconcilePosition, GiveUp, Look
  <2>2. known = expected /\ known # Unknown
    BY <1>1, <1>4, <2>1 DEF PathInv
  <2> QED
    BY <1>3, <1>4, <1>8, <2>1, <2>2
<1>19. CASE ReconcileRead
  <2>1. /\ UNCHANGED <<expected, observed>> /\ (ambiguous' = ambiguous \/ ambiguous' = Unknown)
        /\ \/ known' = known
           \/ known' = observed /\ next' = next + 1
           \/ known' = observed /\ ~BlockBetween(expected, observed)
        /\ pc = "read" /\ pc' = "idle"
    BY <1>19 DEF ReconcileRead, GiveUp, Acknowledge
  <2>2. known = expected /\ known # Unknown
    BY <1>1, <1>4, <2>1 DEF PathInv
  <2>3. next' = next + 1 => BeyondThen(observed)
    BY <1>3, <1>4, <1>5
  <2>4. ~BlockBetween(expected, observed) => BeyondThen(observed)
    BY <1>3, <1>4, <1>5, <1>6, <2>2
  <2> QED
    BY <1>3, <1>4, <1>8, <2>1, <2>2, <2>3, <2>4
<1> QED
  BY <1>10, <1>11, <1>12, <1>13, <1>14, <1>15, <1>16, <1>17, <1>18, <1>19 DEF Next, Recorder

----------------------------------------------------------------------------
(* What is known of the block to append *)

\* What a step that leaves the block to append leaves of where it is.
LEMMA StillOut ==
  ASSUME TypeOK, OrderInv, Grows, GoesOn
  PROVE  /\ blob' = blob /\ next' = next => (Landed' <=> Landed)
         /\ blob' = Append(blob, Foreign) /\ next' = next =>
              /\ Landed' <=> Landed
              /\ Len(blob') = Len(blob) + 1 /\ blob'[Len(blob) + 1] # next
         /\ next' = next + 1 => ~Landed'
<1>1. Foreign \notin Nat /\ next \in Nat /\ Foreign \in Contents
  BY Types DEF Contents
<1>2. blob' = Append(blob, Foreign) => Len(blob') = Len(blob) + 1 /\ blob'[Len(blob) + 1] = Foreign
  BY <1>1, OneMore
<1>3. Append(blob, Foreign) # Append(blob, next)
  <2>1. Append(blob, Foreign)[Len(blob) + 1] = Foreign /\ Append(blob, next)[Len(blob) + 1] = next
    BY Types
  <2> QED
    BY <1>1, <2>1
<1>4. blob' = blob /\ next' = next => (Landed' <=> Landed)
  BY DEF Landed
<1>5. ASSUME blob' = Append(blob, Foreign), next' = next
      PROVE  Landed' <=> Landed
  <2>1. next' = next => (Landed' <=> (Landed \/ blob' = Append(blob, next)))
    BY Keeps
  <2> QED
    BY <1>3, <1>5, <2>1
<1>6. next' = next + 1 => ~Landed'
  BY Keeps
<1> QED
  BY <1>1, <1>2, <1>4, <1>5, <1>6

\* Every step keeps what is known on each path.
LEMMA PathNext ==
  ASSUME IInv, [Next]_vars, harm' = {}
  PROVE  PathInv'
<1>1. TypeOK /\ ActiveInv /\ OrderInv /\ PlaceInv /\ PathInv /\ DelayedInv
  BY BlobMoves DEF IInv, Unharmed
<1>2. Grows /\ GoesOn
  BY BlobMoves DEF IInv
<1>3. /\ next \in Nat /\ expected \in Nat /\ observed \in Nat /\ Len(blob) \in Nat /\ Unknown \notin Nat
      /\ (known # Unknown => known \in Nat) /\ (ambiguous # Unknown => ambiguous \in Nat)
  BY <1>1, Types
<1>4. /\ expected <= Len(blob) /\ observed <= Len(blob)
      /\ known = Unknown => ~Landed
      /\ pc \in {"create", "created"} => known = Unknown
      /\ known # Unknown => Beyond(known)
      /\ ambiguous # Unknown => Beyond(ambiguous)
  BY <1>1 DEF PlaceInv
<1>5. /\ ambiguous = Unknown /\ (handoff \/ pc = "position") => ~Landed
      /\ pc \in {"create", "created"} /\ ~unconditional => ambiguous = Unknown /\ ~handoff
      /\ pc \in {"position", "resolve"} => unconditional
      /\ pc = "resolve" => ambiguous # Unknown /\ \A i \in observed + 1..Len(blob) : blob[i] # next
      /\ pc \in {"put", "reconcile", "read"} =>
           /\ expected = known
           /\ IF unconditional THEN ambiguous = expected ELSE ambiguous = Unknown /\ ~handoff
      /\ pc = "put" /\ unconditional => ~Landed
  BY <1>1 DEF PathInv, ActiveInv
<1>6. /\ blob' = blob /\ next' = next => (Landed' <=> Landed)
      /\ blob' = Append(blob, Foreign) /\ next' = next =>
           /\ Landed' <=> Landed
           /\ Len(blob') = Len(blob) + 1 /\ blob'[Len(blob) + 1] # next
      /\ next' = next + 1 => ~Landed'
  BY <1>1, <1>2, StillOut
<1>7. \A n \in Nat : /\ Beyond(n) /\ (\A i \in n + 1..Len(blob) : blob[i] # next) => ~Landed
                     /\ Beyond(n) /\ Len(blob) <= n => ~Landed
                     /\ \A m \in Nat : Beyond(n) /\ m <= Len(blob) /\ ~BlockBetween(n, m) => Beyond(m)
  BY <1>1, NowhereYet
<1>8. SUFFICES
        /\ ambiguous' = Unknown /\ (handoff' \/ pc' = "position") => ~Landed'
        /\ pc' \in {"create", "created"} /\ ~unconditional' => ambiguous' = Unknown /\ ~handoff'
        /\ pc' \in {"position", "resolve"} => unconditional'
        /\ pc' = "resolve" => \A i \in observed' + 1..Len(blob') : blob'[i] # next'
        /\ pc' \in {"put", "reconcile", "read"} =>
             /\ expected' = known'
             /\ IF unconditional' THEN ambiguous' = expected' ELSE ambiguous' = Unknown /\ ~handoff'
        /\ pc' = "put" /\ unconditional' => ~Landed'
  BY DEF PathInv
<1> USE DEF counts, service, local
<1>9. CASE ForeignAppend
  <2>1. /\ UNCHANGED <<next, pc, known, ambiguous, expected, observed, handoff, unconditional>>
        /\ blob' = Append(blob, Foreign)
    BY <1>9 DEF ForeignAppend
  <2>2. /\ Landed' <=> Landed
        /\ Len(blob') = Len(blob) + 1 /\ blob'[Len(blob) + 1] # next
        /\ \A i \in 1..Len(blob) : blob'[i] = blob[i]
    BY <1>1, <1>2, <1>6, <2>1, Keeps
  <2>3. pc = "resolve" => \A i \in observed + 1..Len(blob') : blob'[i] # next
    <3>1. \A i \in observed + 1..Len(blob') : i \in observed + 1..Len(blob) \/ i = Len(blob) + 1
      BY <1>3, <1>4, <2>2
    <3>2. \A i \in observed + 1..Len(blob) : i \in 1..Len(blob)
      BY <1>3
    <3> QED
      BY <1>5, <2>2, <3>1, <3>2
  <2> QED
    BY <1>5, <2>1, <2>2, <2>3
<1>10. CASE DelayedAppend
  <2>1. /\ UNCHANGED <<next, pc, known, ambiguous, expected, observed, handoff, unconditional>>
        /\ blob' = blob \/ \E r \in delayed : Accepts(r.at) /\ ~r.missed
    BY <1>10 DEF DelayedAppend
  <2>2. CASE blob' = blob
    BY <1>5, <1>6, <2>1, <2>2
  <2>3. CASE \E r \in delayed : Accepts(r.at) /\ ~r.missed
    <3>1. \/ ambiguous = Unknown /\ ~handoff /\ pc \notin {"position", "resolve"}
          \/ ambiguous # Unknown /\ pc \in {"idle", "position", "reconcile"}
      BY <1>1, <2>3 DEF DelayedInv, Bound, Awaited
    <3> QED
      BY <1>3, <1>5, <2>1, <3>1
  <2> QED
    BY <2>1, <2>2, <2>3
<1>11. CASE ForeignLooks \/ DelayedCreation \/ HandoffEnds \/ Done \/ UNCHANGED vars
  <2>1. /\ UNCHANGED <<blob, next, pc, known, ambiguous, expected, observed, unconditional>>
        /\ handoff' = handoff \/ handoff' = FALSE
    BY <1>11, Harmless DEF ForeignLooks, DelayedCreation, HandoffEnds, Done, vars
  <2> QED
    BY <1>5, <1>6, <2>1
<1>12. CASE BeginAppend \/ CreateBlob \/ PositionCreated
  <2>1. UNCHANGED <<blob, next, handoff, ambiguous>>
    BY <1>12, Harmless DEF BeginAppend, CreateBlob, PositionCreated
  <2>2. CASE BeginAppend
    <3>1. /\ unconditional' = (handoff \/ ambiguous # Unknown)
          /\ \/ pc' = "position" /\ unconditional'
             \/ pc' = "put" /\ ~unconditional' /\ expected' = known'
             \/ pc' \in {"create", "idle"}
      BY <2>2 DEF BeginAppend, ChoosePath
    <3> QED
      BY <1>5, <1>6, <2>1, <3>1
  <2>3. CASE CreateBlob
    <3>1. UNCHANGED unconditional /\ pc = "create" /\ pc' \in {"created", "idle"}
      BY <2>3 DEF CreateBlob
    <3> QED
      BY <1>5, <1>6, <2>1, <3>1
  <2>4. CASE PositionCreated
    <3>1. /\ UNCHANGED unconditional /\ pc = "created"
          /\ \/ pc' = "position" /\ unconditional
             \/ pc' = "put" /\ ~unconditional /\ expected' = known'
             \/ pc' = "idle"
      BY <2>4 DEF PositionCreated, ChoosePath
    <3>2. ~Landed
      BY <1>4, <3>1
    <3> QED
      BY <1>5, <1>6, <2>1, <3>1, <3>2
  <2> QED
    BY <1>12, <2>2, <2>3, <2>4
<1>13. CASE HandoffPosition
  <2>1. /\ UNCHANGED <<blob, next, handoff, unconditional>> /\ pc = "position"
        /\ \/ observed' = Len(blob) /\ UNCHANGED ambiguous /\ ambiguous # Unknown /\ pc' = "resolve"
           \/ /\ ambiguous # Unknown => Len(blob) = ambiguous
              /\ known' = Len(blob) /\ ambiguous' = Len(blob) /\ expected' = Len(blob)
              /\ pc' = "put"
           \/ pc' = "idle" /\ UNCHANGED ambiguous
    BY <1>13 DEF HandoffPosition, SendUnconditionally, GiveUp, Look
  <2>2. (ambiguous # Unknown => Len(blob) = ambiguous) => ~Landed
    BY <1>3, <1>4, <1>5, <1>7, <2>1
  <2> QED
    BY <1>3, <1>5, <1>6, <2>1, <2>2
<1>14. CASE ResolveAmbiguity
  <2>1. /\ UNCHANGED <<blob, observed, handoff, unconditional>> /\ pc = "resolve"
        /\ \/ next' = next + 1 /\ pc' = "idle"
           \/ /\ ~BlockBetween(ambiguous, observed) /\ next' = next
              /\ known' = observed /\ ambiguous' = observed /\ expected' = observed
              /\ pc' = "put"
           \/ pc' = "idle" /\ UNCHANGED ambiguous
    BY <1>14 DEF ResolveAmbiguity, SendUnconditionally, GiveUp, Acknowledge
  <2>2. ambiguous # Unknown
    BY <1>5, <2>1
  <2>3. ~BlockBetween(ambiguous, observed) => ~Landed
    <3>1. ~BlockBetween(ambiguous, observed) => Beyond(observed)
      BY <1>3, <1>4, <1>7, <2>2
    <3> QED
      BY <1>3, <1>5, <1>7, <2>1, <3>1
  <2> QED
    BY <1>3, <1>5, <1>6, <2>1, <2>2, <2>3
<1>15. CASE PutSucceeds
  <2>1. next' = next + 1 /\ pc' = "idle"
    BY <1>15 DEF PutSucceeds, Acknowledge
  <2> QED
    BY <1>6, <2>1
<1>16. CASE PutRejected
  <2>1. /\ UNCHANGED <<blob, next, known, ambiguous, expected, handoff, unconditional>>
        /\ pc = "put" /\ pc' = "reconcile"
    BY <1>16 DEF PutRejected
  <2> QED
    BY <1>3, <1>5, <1>6, <2>1
<1>17. CASE PutUnanswered
  <2>1. /\ UNCHANGED <<next, known, ambiguous, expected, handoff, unconditional>>
        /\ pc = "put" /\ pc' \in {"reconcile", "idle"}
    BY <1>17 DEF PutUnanswered
  <2>2. ~(ambiguous = Unknown /\ handoff)
    BY <1>3, <1>5, <2>1
  <2> QED
    BY <1>5, <2>1, <2>2
<1>18. CASE PutRefused
  <2>1. UNCHANGED <<blob, next, handoff>> /\ pc = "put" /\ unconditional /\ pc' = "idle"
    BY <1>18 DEF PutRefused, GiveUp
  <2> QED
    BY <1>5, <1>6, <2>1
<1>19. CASE ReconcilePosition
  <2>1. /\ UNCHANGED <<blob, next, ambiguous, expected, handoff, unconditional>>
        /\ pc = "reconcile" /\ (pc' = "idle" \/ (pc' = "read" /\ UNCHANGED known))
    BY <1>19 DEF ReconcilePosition, GiveUp
  <2> QED
    BY <1>5, <1>6, <2>1
<1>20. CASE ReconcileRead
  <2>1. /\ UNCHANGED <<blob, handoff>> /\ pc' = "idle"
        /\ (next' = next + 1 \/ (next' = next /\ UNCHANGED ambiguous))
    BY <1>20 DEF ReconcileRead, GiveUp, Acknowledge
  <2> QED
    BY <1>5, <1>6, <2>1
<1> QED
  BY <1>9, <1>10, <1>11, <1>12, <1>13, <1>14, <1>15, <1>16, <1>17, <1>18, <1>19, <1>20 DEF Next, Recorder

\* A request comes from an append without an answer, or was there before; a look of the
\* recorder leaves none that it awaits.
LEMMA Requested ==
  ASSUME TypeOK, [Next]_vars, ~PutUnanswered, NEW r \in delayed'
  PROVE  \E q \in delayed : /\ q.block = r.block /\ q.at = r.at
                            /\ r = q \/ (q.at = Unknown => r.missed)
                            /\ Look => (q.at = Unknown => r.missed)
<1> USE DEF counts, service, local
<1>1. ASSUME Look
      PROVE  \E q \in delayed : q.block = r.block /\ q.at = r.at /\ (q.at = Unknown => r.missed)
  <2>1. PICK q \in delayed : r = [q EXCEPT !.missed = q.at = Unknown]
    BY <1>1 DEF Look
  <2>2. q \in [block : Blocks, at : Positions, missed : BOOLEAN]
    BY DEF TypeOK, Requests
  <2> QED
    BY <2>1, <2>2
<1>2. ASSUME ~Look
      PROVE  r \in delayed
  BY <1>2 DEF Next, Recorder, vars, ForeignAppend, ForeignLooks, DelayedCreation, DelayedAppend, HandoffEnds, Done,
    BeginAppend, CreateBlob, PositionCreated, HandoffPosition, ResolveAmbiguity, PutSucceeds, PutRejected, PutRefused,
    ReconcilePosition, ReconcileRead
<1> QED
  BY <1>1, <1>2

\* A request that is bound to a length stays bound.
LEMMA BoundNext ==
  ASSUME IInv, [Next]_vars, harm' = {}, NEW r \in delayed, r.at # Unknown, Bound(r)
  PROVE  Bound(r)'
<1>1. TypeOK /\ ActiveInv /\ OrderInv /\ PlaceInv /\ PathInv /\ DelayedInv /\ Grows /\ GoesOn
  BY BlobMoves DEF IInv, Unharmed
<1>2. /\ Len(blob) \in Nat /\ Len(blob') \in Nat /\ Unknown \notin Nat /\ expected \in Nat /\ observed \in Nat
      /\ Len(blob) <= Len(blob') /\ (Len(blob') = Len(blob) => blob' = blob) /\ r.at \in Nat
  BY <1>1, Types, Keeps
<1>3. /\ r.at <= Len(blob) /\ (r.at = Len(blob) => r.block = next /\ ~Landed)
      /\ known # Unknown /\ ambiguous = Unknown /\ ~handoff /\ pc \notin {"position", "resolve"}
  BY DEF Bound
<1>4. r.at <= Len(blob') /\ (r.at = Len(blob') => r.block = next' /\ ~Landed')
  <2>1. r.at = Len(blob') => r.at = Len(blob) /\ blob' = blob
    BY <1>2, <1>3
  <2>2. next' = next + 1 /\ blob' = blob => Landed
    BY <1>1, <1>2 DEF GoesOn, Landed
  <2>3. r.at = Len(blob') => next' = next
    BY <1>1, <1>3, <2>1, <2>2 DEF GoesOn
  <2>4. blob' = blob /\ next' = next => (Landed' <=> Landed)
    BY <1>1, StillOut
  <2> QED
    BY <1>2, <1>3, <2>1, <2>3, <2>4
<1>5. pc \notin {"create", "created"} /\ (pc = "put" => ~unconditional)
  BY <1>1, <1>2, <1>3 DEF PlaceInv, PathInv
<1> USE DEF counts, service, local
<1>6. known' # Unknown /\ ambiguous' = Unknown /\ ~handoff' /\ pc' \notin {"position", "resolve"}
  <2>1. CASE \/ ForeignAppend \/ ForeignLooks \/ DelayedCreation \/ DelayedAppend \/ HandoffEnds \/ Done
             \/ UNCHANGED vars
    BY <1>3, <2>1 DEF ForeignAppend, ForeignLooks, DelayedCreation, DelayedAppend, HandoffEnds, Done, vars
  <2>2. CASE BeginAppend
    BY <1>3, <2>2 DEF BeginAppend, ChoosePath
  <2>3. CASE CreateBlob \/ PositionCreated \/ HandoffPosition \/ ResolveAmbiguity
    BY <1>3, <1>5, <2>3 DEF CreateBlob, PositionCreated, HandoffPosition, ResolveAmbiguity
  <2>4. CASE PutSucceeds
    BY <1>2, <1>3, <2>4 DEF PutSucceeds, Acknowledge
  <2>5. CASE PutUnanswered \/ PutRejected \/ PutRefused
    BY <1>3, <2>5 DEF PutUnanswered, PutRejected, PutRefused, GiveUp
  <2>6. CASE ReconcilePosition
    BY <1>2, <1>3, <2>6 DEF ReconcilePosition, GiveUp
  <2>7. CASE ReconcileRead
    BY <1>2, <1>3, <2>7 DEF ReconcileRead, GiveUp, Acknowledge
  <2> QED
    BY <2>1, <2>2, <2>3, <2>4, <2>5, <2>6, <2>7 DEF Next, Recorder
<1> QED
  BY <1>4, <1>6 DEF Bound

\* A request the recorder awaits is the only one, until it looks for it.
LEMMA AwaitedNext ==
  ASSUME IInv, [Next]_vars, harm' = {}, ~Look, ~PutUnanswered,
         NEW r \in delayed, r \in delayed', r.at = Unknown, ~r.missed
  PROVE  Awaited(r)'
<1>1. TypeOK /\ ActiveInv /\ OrderInv /\ PlaceInv /\ PathInv /\ DelayedInv /\ Grows /\ GoesOn
  BY BlobMoves DEF IInv, Unharmed
<1>2. /\ r.block = next /\ ~Landed /\ known # Unknown /\ ambiguous # Unknown
      /\ pc \in {"idle", "position", "reconcile"}
  BY <1>1 DEF DelayedInv, Awaited
<1>3. /\ blob' = blob /\ next' = next => (Landed' <=> Landed)
      /\ blob' = Append(blob, Foreign) /\ next' = next => (Landed' <=> Landed)
  BY <1>1, StillOut
<1> USE DEF counts, service, local
<1>4. CASE ForeignAppend
  BY <1>2, <1>3, <1>4 DEF ForeignAppend, Awaited
<1>5. CASE DelayedAppend
  <2>1. PICK q \in delayed : /\ delayed' = delayed \ {q} /\ UNCHANGED <<next, pc, known, ambiguous>>
                             /\ blob' = blob \/ (Accepts(q.at) /\ ~q.missed)
    BY <1>5 DEF DelayedAppend
  <2>2. ASSUME ~q.missed
        PROVE  q = r
    <3>1. q.at = Unknown
      BY <1>1, <1>2 DEF DelayedInv, Bound
    <3>2. q.block = next
      BY <1>1, <2>2, <3>1 DEF DelayedInv, Awaited
    <3>3. /\ q \in [block : Blocks, at : Positions, missed : BOOLEAN]
          /\ r \in [block : Blocks, at : Positions, missed : BOOLEAN]
      BY <1>1 DEF TypeOK, Requests
    <3> QED
      BY <1>2, <2>2, <3>1, <3>2, <3>3
  <2>3. blob' = blob
    BY <2>1, <2>2
  <2> QED
    BY <1>2, <1>3, <2>1, <2>3 DEF Awaited
<1>6. CASE ForeignLooks \/ DelayedCreation \/ HandoffEnds \/ Done \/ UNCHANGED vars
  <2>1. UNCHANGED <<blob, next, pc, known, ambiguous>>
    BY <1>6, Harmless DEF ForeignLooks, DelayedCreation, HandoffEnds, Done, vars
  <2> QED
    BY <1>2, <1>3, <2>1 DEF Awaited
<1>7. CASE BeginAppend
  <2>1. UNCHANGED <<blob, next, ambiguous, known>> /\ pc' = "position"
    BY <1>2, <1>7 DEF BeginAppend, ChoosePath
  <2> QED
    BY <1>2, <1>3, <2>1 DEF Awaited
<1>8. CASE HandoffPosition \/ ReconcilePosition
  <2>1. UNCHANGED <<blob, next, ambiguous, known>> /\ pc' = "idle"
    BY <1>8 DEF HandoffPosition, ReconcilePosition, GiveUp
  <2> QED
    BY <1>2, <1>3, <2>1 DEF Awaited
<1>9. CASE \/ CreateBlob \/ PositionCreated \/ ResolveAmbiguity \/ PutSucceeds \/ PutRejected \/ PutRefused
           \/ ReconcileRead
  BY <1>2, <1>9 DEF CreateBlob, PositionCreated, ResolveAmbiguity, PutSucceeds, PutRejected, PutRefused, ReconcileRead
<1> QED
  BY <1>4, <1>5, <1>6, <1>7, <1>8, <1>9 DEF Next, Recorder

\* Every step keeps requests bound, or awaited, or looked for in vain.
LEMMA DelayedNext ==
  ASSUME IInv, [Next]_vars, harm' = {}
  PROVE  DelayedInv'
<1>1. TypeOK /\ ActiveInv /\ OrderInv /\ PlaceInv /\ PathInv /\ DelayedInv /\ Grows /\ GoesOn
  BY BlobMoves DEF IInv, Unharmed
<1>2. SUFFICES ASSUME NEW r \in delayed'
               PROVE  IF r.at # Unknown THEN Bound(r)' ELSE ~r.missed => Awaited(r)'
  BY DEF DelayedInv
<1> USE DEF counts, service, local
<1>3. CASE ~PutUnanswered
  <2>1. PICK q \in delayed : /\ q.block = r.block /\ q.at = r.at
                             /\ r = q \/ (q.at = Unknown => r.missed)
                             /\ Look => (q.at = Unknown => r.missed)
    BY <1>1, <1>3, Requested
  <2>2. CASE r.at # Unknown
    <3>1. Bound(q)
      BY <1>1, <2>1, <2>2 DEF DelayedInv
    <3>2. Bound(q)'
      BY <2>1, <2>2, <3>1, BoundNext
    <3> QED
      BY <2>1, <2>2, <3>2 DEF Bound
  <2>3. CASE r.at = Unknown /\ ~r.missed
    <3>1. r \in delayed /\ ~Look
      BY <2>1, <2>3
    <3> QED
      BY <1>3, <2>3, <3>1, AwaitedNext
  <2> QED
    BY <2>2, <2>3
<1>4. CASE PutUnanswered
  <2>1. /\ UNCHANGED <<next, known, ambiguous, handoff, unconditional>> /\ pc = "put" /\ pc' \in {"reconcile", "idle"}
        /\ \/ UNCHANGED delayed
           \/ /\ blob' = blob
              /\ delayed' = delayed \cup {[block |-> next, at |-> Condition, missed |-> FALSE]}
    BY <1>4 DEF PutUnanswered
  <2>2. known # Unknown /\ expected = known /\ Beyond(expected) /\ expected \in Nat /\ Len(blob) \in Nat
    BY <1>1, <2>1, Types DEF PathInv, PlaceInv
  <2>3. blob' = blob => (Landed' <=> Landed)
    BY <1>1, <2>1, StillOut
  <2>4. CASE r \in delayed
    <3>1. ~(r.at = Unknown /\ ~r.missed)
      BY <1>1, <2>1, <2>4 DEF DelayedInv, Awaited
    <3>2. r.at # Unknown => Bound(r)
      BY <1>1, <2>4 DEF DelayedInv
    <3>3. r.at # Unknown => Bound(r)'
      BY <2>4, <3>2, BoundNext
    <3> QED
      BY <3>1, <3>3
  <2>5. CASE r = [block |-> next, at |-> Condition, missed |-> FALSE] /\ blob' = blob
    <3>1. r.block = next /\ r.at = Condition /\ ~r.missed
      BY <2>5
    <3>2. CASE unconditional
      <4>1. r.at = Unknown /\ ~Landed /\ ambiguous # Unknown
        BY <1>1, <2>1, <2>2, <3>1, <3>2, Types DEF Condition, PathInv
      <4> QED
        BY <2>1, <2>2, <2>3, <2>5, <3>1, <4>1 DEF Awaited
    <3>3. CASE ~unconditional
      <4>1. r.at = expected /\ ambiguous = Unknown /\ ~handoff
        BY <1>1, <2>1, <3>1, <3>3 DEF Condition, PathInv
      <4>2. expected <= Len(blob) /\ (expected = Len(blob) => ~Landed)
        BY <1>1, <2>2, NowhereYet DEF Beyond
      <4>3. r.at # Unknown
        BY <2>2, <4>1, Types, <1>1
      <4> QED
        BY <2>1, <2>2, <2>3, <2>5, <3>1, <4>1, <4>2, <4>3 DEF Bound
    <3> QED
      BY <3>2, <3>3
  <2> QED
    BY <2>1, <2>4, <2>5
<1> QED
  BY <1>3, <1>4

----------------------------------------------------------------------------
(* Theorems *)

\* The first state has all the invariants.
LEMMA Starting ==
  ASSUME Init
  PROVE  IInv /\ Journal!Init
<1>1. /\ NumBlocks \in Nat \ {0} /\ MaxForeign \in Nat /\ MaxFaults \in Nat /\ MaxCreations \in Nat
      /\ Unknown \notin Nat
  BY BlobAssumption
<1>2. \A S : <<>> \in Seq(S) /\ Len(<<>>) = 0 /\ DOMAIN <<>> = {}
  OBVIOUS
<1>3. TypeOK
  <2>1. /\ Unknown \in Positions /\ 0 \in Nat /\ 1 \in 1..NumBlocks + 1
        /\ 0 \in 0..MaxForeign /\ 0 \in 0..MaxFaults /\ 0 \in 0..MaxCreations
    BY <1>1 DEF Positions
  <2> QED
    BY <1>2, <2>1 DEF Init, TypeOK
<1>4. OwnPlaces = {}
  BY <1>2 DEF Init, OwnPlaces
<1>5. Cardinality(OwnPlaces) = 0
  BY <1>4, FS_EmptySet
<1>6. Len(Own) = 0 /\ Own = <<>>
  <2>1. Len(Own) = 0
    BY <1>3, <1>5, OwnType
  <2>2. 1..Cardinality(OwnPlaces) = {}
    BY <1>5
  <2>3. Own = [n \in {} |-> Own[n]]
    BY <2>2 DEF Own
  <2> QED
    BY <2>1, <2>3
<1>7. ~Landed
  BY <1>2 DEF Init, Landed
<1>8. OrderInv
  BY <1>2, <1>5, <1>6, <1>7 DEF Init, OrderInv, Ranked
<1>9. PlaceInv /\ PathInv /\ DelayedInv /\ ActiveInv
  BY <1>1, <1>2, <1>7 DEF Init, PlaceInv, PathInv, DelayedInv, ActiveInv
<1>10. 1..next - 1 = {}
  BY DEF Init
<1> QED
  BY <1>3, <1>6, <1>8, <1>9, <1>10 DEF IInv, Unharmed, Journal!Init

\* The invariant holds in every reachable state, whatever the service does.
THEOREM Invariance == Spec => []IInv
<1>1. Init => IInv
  BY Starting
<1>2. IInv /\ [Next]_vars => IInv'
  <2>1. SUFFICES ASSUME IInv, [Next]_vars
                 PROVE  IInv'
    OBVIOUS
  <2>2. TypeOK' /\ ActiveInv'
    BY <2>1, TypeNext, ActiveNext DEF IInv
  <2>3. ASSUME harm' = {}
        PROVE  Unharmed'
    <3>1. harm = {} /\ Grows /\ GoesOn
      BY <2>1, <2>3, BlobMoves DEF IInv
    <3>2. TypeOK /\ OrderInv
      BY <2>1, <3>1 DEF IInv, Unharmed
    <3>3. OrderInv'
      BY <2>2, <3>1, <3>2, OrderNext
    <3>4. PlaceInv' /\ PathInv' /\ DelayedInv'
      BY <2>1, <2>3, PlaceNext, PathNext, DelayedNext
    <3> QED
      BY <3>3, <3>4 DEF Unharmed
  <2> QED
    BY <2>2, <2>3 DEF IInv
<1> QED
  BY <1>1, <1>2, PTL DEF Spec

\* What every variable may hold.
THEOREM TypeCorrect == Spec => []TypeOK
<1>1. IInv => TypeOK
  BY DEF IInv
<1> QED
  BY <1>1, Invariance, PTL

\* Whatever the service does to the blob, append_block returns Ok only for a block that
\* is in it.
THEOREM OnlyWhatIsThere == Spec => AcknowledgesWhatIsThere
<1>1. IInv /\ [Next]_vars => [\A b \in Blocks : next <= b /\ b < next' => b \in Range(blob')]_vars
  <2>1. SUFFICES ASSUME IInv, [Next]_vars, NEW b \in Blocks, next <= b, b < next'
                 PROVE  b \in Range(blob')
    OBVIOUS
  <2>2. GoesOn /\ next \in Nat /\ b \in Nat
    BY <2>1, Onwards, Types DEF IInv
  <2>3. b = next /\ \E i \in DOMAIN blob' : blob'[i] = next
    BY <2>1, <2>2 DEF GoesOn
  <2> QED
    BY <2>3 DEF Range
<1> QED
  BY <1>1, Invariance, PTL DEF Spec, AcknowledgesWhatIsThere

\* The recorder's blocks are 1, 2, ... in the blob.
LEMMA Numbered ==
  ASSUME TypeOK, OrderInv
  PROVE  /\ Len(Own) \in Nat /\ DOMAIN Own = 1..Len(Own) /\ Own \in Seq(Nat)
         /\ \A n \in 1..Len(Own) : Own[n] = n
         /\ next \in 1..NumBlocks + 1 /\ (Len(Own) = next \/ Len(Own) = next - 1)
<1>1. Len(Own) \in Nat /\ DOMAIN Own = 1..Len(Own) /\ Len(Own) = Cardinality(OwnPlaces)
  BY OwnType
<1>2. PICK k \in Nat : k = Len(Own)
  BY <1>1
<1>3. \A n \in 1..k : Own[n] = n
  BY <1>2 DEF OrderInv
<1>4. \A S : (\A n \in 1..k : Own[n] \in S) => Own \in [1..k -> S]
  BY <1>1, <1>2 DEF Own
<1>5. Own \in [1..k -> Nat]
  <2>1. \A n \in 1..k : Own[n] \in Nat
    BY <1>3
  <2> QED
    BY <1>4, <2>1
<1>6. Own \in Seq(Nat)
  BY <1>5, SeqDef
<1> QED
  BY <1>1, <1>2, <1>3, <1>6 DEF OrderInv, TypeOK

\* So they are after a step.
LEMMA NumberedThen ==
  (IInv /\ harm = {})' =>
    (/\ Len(Own) \in Nat /\ DOMAIN Own = 1..Len(Own) /\ Own \in Seq(Nat)
     /\ \A n \in 1..Len(Own) : Own[n] = n
     /\ next \in 1..NumBlocks + 1 /\ (Len(Own) = next \/ Len(Own) = next - 1))'
<1>1. IInv /\ harm = {} =>
        (/\ Len(Own) \in Nat /\ DOMAIN Own = 1..Len(Own) /\ Own \in Seq(Nat)
         /\ \A n \in 1..Len(Own) : Own[n] = n
         /\ next \in 1..NumBlocks + 1 /\ (Len(Own) = next \/ Len(Own) = next - 1))
  BY Numbered DEF IInv, Unharmed
<1> QED
  BY <1>1, PTL

\* A step that does no harm adds at most the next of them, and acknowledges one that is
\* there.
LEMMA JournalNext ==
  ASSUME IInv, IInv', [Next]_vars, harm' = {}
  PROVE  Journal!Write
<1>1. TypeOK /\ OrderInv /\ OrderInv'
  BY BlobMoves DEF IInv, Unharmed
<1>2. Grows /\ GoesOn
  BY BlobMoves DEF IInv
<1>3. NumBlocks \in Nat
  BY BlobAssumption
<1>4. PICK old, new : old = Own /\ new = Own'
  OBVIOUS
<1>5. /\ Len(old) \in Nat /\ old \in Seq(Nat) /\ (\A n \in 1..Len(old) : old[n] = n)
      /\ next \in Nat /\ (Len(old) = next \/ Len(old) = next - 1)
  BY <1>1, <1>3, <1>4, Numbered
<1>6. /\ Len(new) \in Nat /\ new \in Seq(Nat) /\ DOMAIN new = 1..Len(new) /\ (\A n \in 1..Len(new) : new[n] = n)
      /\ next' \in Nat /\ next' <= NumBlocks + 1 /\ (Len(new) = next' \/ Len(new) = next' - 1)
  BY <1>3, <1>4, NumberedThen
<1>7. PICK n, m, p, q \in Nat : n = next /\ m = next' /\ p = Len(old) /\ q = Len(new)
  BY <1>5, <1>6
<1>8. (p = n \/ p = n - 1) /\ (q = m \/ q = m - 1) /\ m <= NumBlocks + 1
  BY <1>5, <1>6, <1>7
<1>9. Len(old) <= Len(new)
  <2>1. CASE next' = next
    <3>1. Landed => Landed'
      BY <1>1, <1>2, <2>1, Keeps
    <3>2. /\ Len(old) = IF Landed THEN next ELSE next - 1
          /\ Len(new) = IF Landed' THEN next' ELSE next' - 1
      BY <1>1, <1>4 DEF OrderInv
    <3> QED
      BY <1>5, <2>1, <3>1, <3>2
  <2>2. CASE next' = next + 1
    <3>1. m = n + 1
      BY <1>7, <2>2
    <3>2. p <= q
      BY <1>8, <3>1
    <3> QED
      BY <1>7, <3>2
  <2> QED
    BY <1>2, <2>1, <2>2 DEF GoesOn
<1>10. IsPrefix(old, new)
  <2>1. PICK l \in Nat : l = Len(old)
    BY <1>5
  <2>2. \A i \in 1..l : old[i] = new[i]
    BY <1>5, <1>6, <1>9, <2>1
  <2>3. SubSeq(old, 1, l) = SubSeq(new, 1, l)
    BY <1>5, <1>6, <1>9, <2>1, <2>2
  <2> QED
    BY <1>9, <2>1, <2>3 DEF IsPrefix
<1>11. \A i, j \in DOMAIN new : i # j => new[i] # new[j]
  BY <1>6
<1>12. \A k \in 1..next' - 1 : k \in Blocks /\ LinesOf(k) \subseteq Range(new)
  <2>1. SUFFICES ASSUME NEW k \in 1..next' - 1
                 PROVE  k \in Blocks /\ LinesOf(k) \subseteq Range(new)
    OBVIOUS
  <2>2. k \in 1..Len(new) /\ k \in Blocks
    <3>1. k \in 1..m - 1
      BY <1>7
    <3>2. k \in 1..q /\ k \in 1..NumBlocks
      BY <1>3, <1>8, <3>1
    <3> QED
      BY <1>7, <3>2 DEF Blocks
  <2>3. new[k] = k
    BY <1>6, <2>2
  <2> QED
    BY <1>6, <2>2, <2>3 DEF LinesOf, Range
<1>13. 1..next - 1 \subseteq 1..next' - 1
  BY <1>2, <1>5 DEF GoesOn
<1>14. Journal!IsPrefix(Own, Own') /\ Journal!Range(Own') = Range(new)
  BY <1>4, <1>10 DEF Journal!IsPrefix, IsPrefix, Journal!Range, Range
<1> QED
  BY <1>4, <1>11, <1>12, <1>13, <1>14 DEF Journal!Write, Journal!InJournal, Journal!Once

\* Whatever requests are lost, refused, or acted on late, and whatever another revision
\* appends, each block is in the blob at most once, is there once append_block has
\* returned Ok, and the blocks are in the order they were given, until the service
\* harms the blob.
THEOREM WrittenOnce == Spec => BlobIsJournal
<1>1. Init => Journal!Init
  BY Starting
<1>2. IInv /\ IInv' /\ [Next]_vars => [Journal!Write \/ harm' # {}]_<<Own, 1 .. next - 1, harm>>
  BY JournalNext
<1>3. IInv => (harm = {} => InOrder)
  BY Numbered DEF IInv, Unharmed, InOrder
<1> QED
  BY <1>1, <1>2, <1>3, Invariance, OnlyWhatIsThere, PTL DEF Spec, BlobIsJournal
=============================================================================
