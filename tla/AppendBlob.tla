---------------------------- MODULE AppendBlob ----------------------------
(* How AzureAppendBlobRecorder appends one block after the other to a blob  *)
(* that another revision of the service may create and append to as well    *)
(* (crates/polyedge-storage/src/lib.rs).  A request can fail before or after *)
(* the service has acted on it, or be acted on later.  For a while after its *)
(* start (the handoff) the recorder appends unconditionally and remembers    *)
(* where an unanswered append may have landed; afterwards every append is    *)
(* bound to the last known length of the blob.                              *)
(*                                                                          *)
(* Abstracted: every block is one unit long; one blob, which nobody deletes; *)
(* a block has its own number.  The service is external: what it does with a *)
(* creation, which carries no If-None-Match, of a blob that exists is left   *)
(* open, 409 (the answer the code expects) or a new, empty blob (what a Put  *)
(* without a condition does to a block blob elsewhere in the file).          *)
EXTENDS Naturals, Sequences, SequencesExt, FiniteSets

CONSTANTS
  NumBlocks,            \* the blocks to append, in this order
  Foreign,              \* a block of the other revision
  Unknown,              \* Option::None
  MaxRead,              \* AZURE_APPEND_RECONCILE_MAX_BYTES, in blocks
  MaxForeign, MaxFaults, MaxCreations             \* bounds of the model

ASSUME BlobAssumption ==
  /\ NumBlocks \in Nat \ {0} /\ MaxRead \in Nat
  /\ MaxForeign \in Nat /\ MaxFaults \in Nat /\ MaxCreations \in Nat
  /\ Foreign \notin Nat /\ Unknown \notin Nat

Blocks == 1..NumBlocks

VARIABLES
  exists, blob, \* the service: whether there is a blob, and its blocks
  delayed,      \* the service: appends it has not acted on yet
  creations,    \* the service: how many creations it has not acted on yet
  next,         \* the block to append; the buffer retries it until it succeeds
  pc,
  handoff,      \* now < handoff_unconditional_until
  known,        \* known_append_positions
  ambiguous,    \* handoff_ambiguous_starts
  expected,     \* expected_position of the append under way
  observed,     \* the length the last HEAD returned
  unconditional,    \* the append under way takes the path of the handoff
  harm,         \* history: what the service did that no recorder could see
  foreign, faults                             \* counted against the bounds

service == <<exists, blob, delayed, creations, harm>>
local   == <<expected, observed, unconditional>>
counts  == <<foreign, faults>>

vars == <<service, next, pc, handoff, known, ambiguous, local, counts>>

Positions == Nat \cup {Unknown}

\* missed: the recorder has looked for the block since it gave the request up
Requests == [block : Blocks, at : Positions, missed : BOOLEAN]

TypeOK ==
  /\ exists \in BOOLEAN /\ blob \in Seq(Blocks \cup {Foreign}) /\ (~exists => blob = <<>>)
  /\ delayed \subseteq Requests /\ creations \in 0..MaxCreations
  /\ next \in 1 .. NumBlocks + 1
  /\ pc \in {"idle", "create", "created", "position", "resolve", "put", "reconcile", "read"}
  /\ handoff \in BOOLEAN /\ unconditional \in BOOLEAN
  /\ known \in Positions /\ ambiguous \in Positions
  /\ expected \in Nat /\ observed \in Nat
  /\ harm \subseteq {"overwritten", "late"}
  /\ foreign \in 0..MaxForeign /\ faults \in 0..MaxFaults

Init ==
  /\ exists = FALSE /\ blob = <<>> /\ delayed = {} /\ creations = 0 /\ harm = {}
  /\ next = 1 /\ pc = "idle"
  /\ handoff \in BOOLEAN           \* started within AZURE_APPEND_HANDOFF_WINDOW
  /\ known = Unknown /\ ambiguous = Unknown
  /\ expected = 0 /\ observed = 0 /\ unconditional = FALSE
  /\ foreign = 0 /\ faults = 0

----------------------------------------------------------------------------
(* The service *)

Accepts(at) == exists /\ (at = Unknown \/ at = Len(blob))

\* a creation is acted on
Created ==
  \/ /\ exists' = TRUE /\ blob' = <<>>
     /\ harm' = IF blob = <<>> THEN harm ELSE harm \cup {"overwritten"}
  \/ exists /\ UNCHANGED <<exists, blob, harm>>

ForeignAppend ==
  /\ exists
  /\ foreign < MaxForeign /\ foreign' = foreign + 1
  /\ blob' = Append(blob, Foreign)
  /\ UNCHANGED <<exists, delayed, creations, harm, next, pc, handoff, known, ambiguous, local, faults>>

\* the other revision finds no blob, and creates one
ForeignLooks ==
  /\ ~exists
  /\ creations < MaxCreations /\ creations' = creations + 1
  /\ UNCHANGED <<exists, blob, delayed, harm, next, pc, handoff, known, ambiguous, local, counts>>

DelayedCreation ==
  /\ creations > 0 /\ creations' = creations - 1
  /\ Created
  /\ UNCHANGED <<delayed, next, pc, handoff, known, ambiguous, local, counts>>

DelayedAppend ==
  \E r \in delayed :
    /\ delayed' = delayed \ {r}
    /\ \/ /\ Accepts(r.at)
          /\ blob' = Append(blob, r.block)
          /\ harm' = IF r.missed THEN harm \cup {"late"} ELSE harm
       \/ ~Accepts(r.at) /\ UNCHANGED <<blob, harm>>
    /\ UNCHANGED <<exists, creations, next, pc, handoff, known, ambiguous, local, counts>>

HandoffEnds ==
  /\ handoff /\ handoff' = FALSE
  /\ UNCHANGED <<service, next, pc, known, ambiguous, local, counts>>

----------------------------------------------------------------------------
(* The recorder *)

Fault == faults < MaxFaults /\ faults' = faults + 1

\* mutant: an error puts back the block before as well
GiveUpTwo == pc' = "idle" /\ next' = next - 1

\* the call returns an error, and the buffer keeps the block for a retry
GiveUp == pc' = "idle" /\ UNCHANGED next

Acknowledge == pc' = "idle" /\ next' = next + 1

\* a HEAD: what is under way without a condition is not in the length it returns
Look ==
  /\ observed' = Len(blob)
  /\ delayed' = {[r EXCEPT !.missed = r.at = Unknown] : r \in delayed}

\* append_range_contains_block reads no more than AZURE_APPEND_RECONCILE_MAX_BYTES,
\* and wants all of the range
Readable(first, last) == last - first <= MaxRead /\ last <= Len(blob)

ReadFails(first, last) ==
  IF Readable(first, last) THEN Fault ELSE UNCHANGED faults

BlockBetween(first, last) == \E i \in first + 1 .. last : blob[i] = next

\* the conditional append, or that of the handoff with a HEAD of its own
ChoosePath(position, during) ==
  IF during THEN pc' = "position" /\ UNCHANGED expected
            ELSE pc' = "put" /\ expected' = position

\* append_block, whatever its path, first asks for a length it lacks
\* (ensure_append_blob)
BeginAppend ==
  /\ pc = "idle" /\ next <= NumBlocks
  /\ unconditional' = (handoff \/ ambiguous # Unknown)
  /\ \/ known # Unknown /\ ChoosePath(known, unconditional') /\ UNCHANGED <<known, faults>>
     \/ /\ known = Unknown /\ exists
        /\ known' = Len(blob) /\ ChoosePath(Len(blob), unconditional') /\ UNCHANGED faults
     \/ /\ known = Unknown /\ ~exists
        /\ pc' = "create" /\ UNCHANGED <<known, expected, faults>>
     \/ known = Unknown /\ Fault /\ pc' = "idle" /\ UNCHANGED <<known, expected>>
  /\ UNCHANGED <<service, next, handoff, ambiguous, observed, foreign>>

\* it creates a blob that it found missing; an error may leave the request on its way
CreateBlob ==
  /\ pc = "create"
  /\ \/ Created /\ pc' = "created" /\ UNCHANGED <<creations, faults>>
     \/ /\ Fault /\ pc' = "idle"
        /\ \/ UNCHANGED <<exists, blob, creations, harm>>
           \/ Created /\ UNCHANGED creations
           \/ /\ creations < MaxCreations /\ creations' = creations + 1
              /\ UNCHANGED <<exists, blob, harm>>
  /\ UNCHANGED <<delayed, next, handoff, known, ambiguous, local, foreign>>

\* and asks again
PositionCreated ==
  /\ pc = "created"
  /\ \/ known' = Len(blob) /\ ChoosePath(Len(blob), unconditional) /\ UNCHANGED faults
     \/ Fault /\ pc' = "idle" /\ UNCHANGED <<known, expected>>
  /\ UNCHANGED <<service, next, handoff, ambiguous, observed, unconditional, foreign>>

\* append_block_during_handoff sends the block to the end of the blob it saw, and
\* remembers that end until it knows what became of the block
SendUnconditionally(position) ==
  /\ known' = position /\ ambiguous' = position /\ expected' = position
  /\ pc' = "put" /\ UNCHANGED next

\* a blob that ends before the place to look from is refused
HandoffPosition ==
  /\ pc = "position"
  /\ \/ /\ Look /\ UNCHANGED faults
        /\ \/ /\ ambiguous # Unknown /\ Len(blob) > ambiguous
              /\ pc' = "resolve" /\ UNCHANGED <<next, known, ambiguous, expected>>
           \/ /\ ambiguous # Unknown => Len(blob) = ambiguous
              /\ SendUnconditionally(Len(blob))
           \/ /\ ambiguous # Unknown /\ Len(blob) < ambiguous
              /\ GiveUp /\ UNCHANGED <<known, ambiguous, expected>>
     \/ Fault /\ GiveUp /\ UNCHANGED <<delayed, known, ambiguous, expected, observed>>
  /\ UNCHANGED <<exists, blob, creations, harm, handoff, unconditional, foreign>>

\* mutant: a retry does not look for the block it may have appended
ResolveBlindly ==
  /\ pc = "resolve"
  /\ SendUnconditionally(observed) /\ UNCHANGED <<service, handoff, observed, unconditional, counts>>

\* resolve_handoff_ambiguity
ResolveAmbiguity ==
  /\ pc = "resolve"
  /\ \/ /\ Readable(ambiguous, observed) /\ BlockBetween(ambiguous, observed)
        /\ ambiguous' = Unknown /\ known' = observed
        /\ Acknowledge /\ UNCHANGED <<expected, faults>>
     \/ /\ Readable(ambiguous, observed) /\ ~BlockBetween(ambiguous, observed)
        /\ SendUnconditionally(observed) /\ UNCHANGED faults
     \/ ReadFails(ambiguous, observed) /\ GiveUp /\ UNCHANGED <<known, ambiguous, expected>>
  /\ UNCHANGED <<service, handoff, observed, unconditional, foreign>>

\* what the request carries as x-ms-blob-condition-appendpos
Condition == IF unconditional THEN Unknown ELSE expected

PutSucceeds ==
  /\ pc = "put" /\ Accepts(Condition)
  /\ blob' = Append(blob, next)
  /\ known' = expected + 1
  /\ ambiguous' = IF unconditional THEN Unknown ELSE ambiguous
  /\ Acknowledge
  /\ UNCHANGED <<exists, delayed, creations, harm, handoff, local, counts>>

\* 412
PutRejected ==
  /\ pc = "put" /\ ~Accepts(Condition)
  /\ pc' = "reconcile"
  /\ UNCHANGED <<service, next, handoff, known, ambiguous, local, counts>>

\* no answer, or a status that says nothing of the block: it is in the blob, or it
\* is not, or it is on its way.  Without a token nothing was sent, and a conditional
\* append leaves a status to its retry: neither is reconciled at once.
PutUnanswered ==
  /\ pc = "put" /\ Fault
  /\ \/ UNCHANGED service
     \/ /\ Accepts(Condition)
        /\ blob' = Append(blob, next) /\ UNCHANGED <<exists, delayed, creations, harm>>
     \/ /\ delayed' = delayed \cup {[block |-> next, at |-> Condition, missed |-> FALSE]}
        /\ UNCHANGED <<exists, blob, creations, harm>>
  /\ pc' \in {"reconcile", "idle"}
  /\ UNCHANGED <<next, handoff, known, ambiguous, local, foreign>>

\* a status that means the service did nothing and will not do better
PutRefused ==
  /\ pc = "put" /\ unconditional /\ Fault
  /\ ambiguous' = Unknown
  /\ GiveUp
  /\ UNCHANGED <<service, handoff, known, local, foreign>>

\* reconcile_ambiguous_append: has the blob grown since? A blob that has shrunk is an
\* error, and the length that was known stays.
ReconcilePosition ==
  /\ pc = "reconcile"
  /\ \/ /\ Look /\ UNCHANGED faults
        /\ \/ Len(blob) = expected /\ known' = expected /\ GiveUp
           \/ Len(blob) > expected /\ pc' = "read" /\ UNCHANGED <<next, known>>
           \/ Len(blob) < expected /\ GiveUp /\ UNCHANGED known
     \/ Fault /\ GiveUp /\ UNCHANGED <<delayed, known, observed>>
  /\ UNCHANGED <<exists, blob, creations, harm, handoff, ambiguous, expected, unconditional, foreign>>

\* mutant: the recorder keeps the length it knew before the conflict
ReconcileKeepingPosition ==
  /\ pc = "read" /\ UNCHANGED <<known, faults>>
  /\ IF Readable(expected, observed) /\ BlockBetween(expected, observed)
     THEN ambiguous' = Unknown /\ Acknowledge
     ELSE GiveUp /\ UNCHANGED ambiguous
  /\ UNCHANGED <<service, handoff, local, foreign>>

\* then what it has grown by is searched for the block
ReconcileRead ==
  /\ pc = "read"
  /\ \/ /\ Readable(expected, observed)
        /\ known' = observed /\ UNCHANGED faults
        /\ IF BlockBetween(expected, observed)
           THEN ambiguous' = Unknown /\ Acknowledge
           ELSE GiveUp /\ UNCHANGED ambiguous
     \/ ReadFails(expected, observed) /\ GiveUp /\ UNCHANGED <<known, ambiguous>>
  /\ UNCHANGED <<service, handoff, local, foreign>>

Done == next = NumBlocks + 1 /\ UNCHANGED vars

Recorder ==
  \/ BeginAppend \/ CreateBlob \/ PositionCreated
  \/ HandoffPosition \/ ResolveAmbiguity
  \/ PutSucceeds \/ PutRejected \/ PutUnanswered \/ PutRefused
  \/ ReconcilePosition \/ ReconcileRead

Next ==
  \/ Recorder \/ HandoffEnds
  \/ ForeignAppend \/ ForeignLooks \/ DelayedCreation \/ DelayedAppend
  \/ Done

\* the buffer retries as long as a block fails
Spec == Init /\ [][Next]_vars /\ WF_vars(Recorder)

----------------------------------------------------------------------------
(* Properties *)

\* the blocks of the recorder, in the order they are in: the n-th is the one with n of
\* them up to its place
OwnPlaces == {i \in DOMAIN blob : blob[i] # Foreign}

Own == [n \in 1..Cardinality(OwnPlaces) |->
          blob[CHOOSE i \in OwnPlaces : Cardinality(OwnPlaces \cap 1..i) = n]]

LinesOf(b) == {b}

Journal == INSTANCE DurableJournal
             WITH Keys <- Blocks, LinesOf <- LinesOf,
                  journal <- Own, acked <- 1 .. next - 1, excused <- {}

InOrder == \A i, j \in 1..Len(Own) : i < j => Own[i] <= Own[j]

\* Harm or not, append_block returns Ok only for a block that is in the blob by then.
AcknowledgesWhatIsThere ==
  [][\A b \in Blocks : next <= b /\ b < next' => b \in Range(blob')]_vars

\* Whatever answers are lost, every block is in the blob at most once, is in it from
\* when append_block has returned Ok, and the blocks of the recorder are in the order it
\* was given them; until the service harms the blob: it replaces a blob that holds blocks
\* by a new one, or appends a block, without a condition, after the recorder has looked
\* for it in vain.  Harm or not, Ok is returned only for a block that is there.
BlobIsJournal ==
  /\ Journal!Init
  /\ [][Journal!Write \/ harm' # {}]_<<Own, 1 .. next - 1, harm>>
  /\ [](harm = {} => InOrder)
  /\ AcknowledgesWhatIsThere

\* what is too far away from where the recorder looks for its block to be read
TooFar ==
  LET from == IF ambiguous # Unknown THEN ambiguous ELSE known
  IN from # Unknown /\ Len(blob) - from > MaxRead

\* When the service recovers, everything is appended, unless the blob was overwritten or
\* has grown too far.
AppendsAll ==
  <>(next = NumBlocks + 1) \/ <>("overwritten" \in harm) \/ <>[]TooFar

\* What was acknowledged stays in the blob.
AcknowledgedStays == 1 .. next - 1 \subseteq Range(blob)

============================================================================
