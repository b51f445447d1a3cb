----------------------------- MODULE Recorder -----------------------------
(* The recorder of the runtime: one worker thread serves, in the order they *)
(* were sent, best-effort events nobody waits for and durable batches whose *)
(* callers wait, and appends their lines to the remote journal              *)
(* (crates/polyedge-api/src/runtime.rs, runtime/recorder.rs, and the buffer *)
(* of AzureAppendBlobRecorder in crates/polyedge-storage/src/lib.rs).  A     *)
(* durable batch whose append failed stays staged: its key is pending, its  *)
(* lines are in the buffer, and nothing else is recorded before it.         *)
(*                                                                          *)
(* Abstracted: the remote keeps the promise of AppendBlob while the service *)
(* does no harm (a flush lands a prefix of the buffer, each line once, and  *)
(* all of it if it returns Ok); a durable batch is two lines, an event is   *)
(* one; the local JSONL copy is no more than a reason to fail.              *)
EXTENDS Naturals, Sequences, SequencesExt, FiniteSets

CONSTANTS
  Callers,              \* tasks that record durable batches
  Keys,                 \* required_recorder_batch_key of each batch
  Events,               \* best-effort events
  None,                 \* Option::None
  CompletedLimit,       \* RECORDER_COMPLETED_DURABLE_BATCH_LIMIT
  MaxFaults, MaxCrashes                           \* bounds of the model

ASSUME RecorderAssumption ==
  /\ IsFiniteSet(Keys) /\ Keys \cap Events = {}
  /\ None \notin Keys \cup Events \cup Callers
  /\ CompletedLimit \in Nat \ {0} /\ MaxFaults \in Nat /\ MaxCrashes \in Nat

VARIABLES
  queue,        \* the channel of recorder_tx
  deferred,     \* deferred_request
  pending,      \* pending_batch_key
  completed,    \* completed_batch_order
  buffer,       \* lines staged and not known to be remote
  journal,      \* the lines of the remote blobs
  caller,       \* what each caller records, and how far it is
  asked,        \* who has recorded what so far
  acked,        \* the batches some caller was told are durable
  forgotten,    \* history: the batches that fell out of completed_batch_order
  faults, crashes                                 \* counted against the bounds

counts == <<faults, crashes>>
worker == <<deferred, pending, completed, buffer, journal, acked, forgotten>>
vars   == <<queue, worker, caller, asked, counts>>

REQUIRED_RECORDER_ATTEMPTS == 3

Request == [of : Callers \cup {None}, key : Keys \cup Events]

BatchLines(k) == << <<k, 1>>, <<k, 2>> >>
EventLines(e) == << <<e, 1>> >>
LinesOf(k)    == {<<k, 1>>, <<k, 2>>}

AllLines == (UNION {LinesOf(k) : k \in Keys}) \cup {<<e, 1>> : e \in Events}

NotAsking == [pc |-> "idle", key |-> None, attempt |-> 0]

TypeOK ==
  /\ queue \in Seq(Request) /\ deferred \in Request \cup {None}
  /\ pending \in Keys \cup {None}
  /\ completed \in Seq(Keys) /\ Len(completed) <= CompletedLimit
  /\ buffer \in Seq(AllLines) /\ journal \in Seq(AllLines)
  /\ caller \in [Callers -> [pc : {"idle", "asking", "told", "refused"},
                             key : Keys \cup {None},
                             attempt : 0 .. REQUIRED_RECORDER_ATTEMPTS]]
  /\ asked \subseteq Request /\ acked \subseteq Keys /\ forgotten \subseteq Keys
  /\ faults \in 0..MaxFaults /\ crashes \in 0..MaxCrashes

Init ==
  /\ queue = <<>> /\ deferred = None
  /\ pending = None /\ completed = <<>> /\ buffer = <<>>
  /\ journal = <<>>
  /\ caller = [c \in Callers |-> NotAsking]
  /\ asked = {} /\ acked = {} /\ forgotten = {}
  /\ faults = 0 /\ crashes = 0

----------------------------------------------------------------------------
(* Those who record *)

Send(c, k) == queue' = Append(queue, [of |-> c, key |-> k])

\* record_event: nobody waits
Post(e) ==
  /\ [of |-> None, key |-> e] \notin asked
  /\ asked' = asked \cup {[of |-> None, key |-> e]}
  /\ Send(None, e)
  /\ UNCHANGED <<worker, caller, counts>>

Ask(c, k, attempt) ==
  /\ caller' = [caller EXCEPT ![c] = [pc |-> "asking", key |-> k, attempt |-> attempt]]
  /\ Send(c, k)

\* record_required_events freezes a batch, new or being recorded by another task
Begin(c, k) ==
  /\ caller[c].pc = "idle"
  /\ [of |-> c, key |-> k] \notin asked
  /\ \A r \in asked : r.key = k => \E d \in Callers : caller[d].pc = "asking" /\ caller[d].key = k
  /\ asked' = asked \cup {[of |-> c, key |-> k]}
  /\ Ask(c, k, 1)
  /\ UNCHANGED <<worker, counts>>

\* mutant: the attempts are not counted against their limit
TryAgainForever(c) ==
  /\ caller[c].pc = "told"
  /\ Ask(c, caller[c].key, caller[c].attempt + 1)
  /\ UNCHANGED <<worker, asked, counts>>

\* an attempt failed
TryAgain(c) ==
  /\ caller[c].pc = "told" /\ caller[c].attempt < REQUIRED_RECORDER_ATTEMPTS
  /\ Ask(c, caller[c].key, caller[c].attempt + 1)
  /\ UNCHANGED <<worker, asked, counts>>

\* the last attempt failed: the caller drops the batch, or freezes it for later
Exhaust(c) ==
  /\ caller[c].pc = "told" /\ caller[c].attempt = REQUIRED_RECORDER_ATTEMPTS
  /\ \/ caller' = [caller EXCEPT ![c] = NotAsking]
     \/ caller' = [caller EXCEPT ![c].pc = "refused"]
  /\ UNCHANGED <<queue, worker, asked, counts>>

\* retry_pending_decision_application, retry_pending_settlement
RetryFrozen(c) ==
  /\ caller[c].pc = "refused"
  /\ Ask(c, caller[c].key, 1)
  /\ UNCHANGED <<worker, asked, counts>>

CallerReacts == \E c \in Callers : TryAgain(c) \/ Exhaust(c)

----------------------------------------------------------------------------
(* The worker *)

Fault == faults < MaxFaults /\ faults' = faults + 1

\* a deferred request goes first; a set of one, or none
Upcoming == IF deferred # None THEN {deferred}
            ELSE {queue[i] : i \in {1} \cap DOMAIN queue}

IsDurable(r) == r.of # None

\* the worker has taken the request
Taken ==
  /\ deferred' = None
  /\ queue' = IF deferred # None THEN queue ELSE Tail(queue)

Answer(r, ok) ==
  /\ Taken
  /\ caller' = [caller EXCEPT ![r.of] = IF ok THEN NotAsking ELSE [caller[r.of] EXCEPT !.pc = "told"]]
  /\ acked' = IF ok THEN acked \cup {r.key} ELSE acked

\* lines land in the journal in the order they are in; what has not landed, or is
\* not known to have, stays in the buffer for the next attempt
Land(lines, n) ==
  /\ journal' = journal \o SubSeq(lines, 1, n)
  /\ buffer' = SubSeq(lines, n + 1, Len(lines))

LandAll(lines) == Land(lines, Len(lines))

LandSome(lines) == \E n \in 0 .. Len(lines) : Land(lines, n)

\* mutant: no key is remembered
ForgetCompleted(done, k) == <<>>

\* RecorderDurabilityState::remember_completed
RememberCompleted(done, k) ==
  LET longer == IF Contains(done, k) THEN done ELSE Append(done, k)
  IN  IF Len(longer) > CompletedLimit THEN Tail(longer) ELSE longer

\* which key it makes room for k with
Oldest(done, k) ==
  IF ~Contains(done, k) /\ Len(done) = CompletedLimit THEN {Head(done)} ELSE {}

\* resume_pending_durable, and the state it leaves when it succeeds
Resumed == IF pending = None THEN completed ELSE RememberCompleted(completed, pending)

Resume(staged) ==
  /\ completed' = Resumed /\ pending' = staged
  /\ forgotten' = IF pending = None THEN forgotten ELSE forgotten \cup Oldest(completed, pending)

(* persist_durable_recorder_request *)

AlreadyDurable(r) ==
  /\ Contains(completed, r.key)
  /\ Answer(r, TRUE)
  /\ UNCHANGED <<pending, completed, forgotten, buffer, journal, faults>>

\* what is staged or buffered comes first; it fails, and the request is not staged
Blocked(r) ==
  /\ ~Contains(completed, r.key)
  /\ Fault /\ LandSome(buffer)
  /\ Answer(r, FALSE)
  /\ UNCHANGED <<pending, completed, forgotten>>

\* the request is a retry of the batch that was staged
ResumedIsEnough(r) ==
  /\ ~Contains(completed, r.key) /\ pending = r.key
  /\ LandAll(buffer) /\ Resume(None)
  /\ Answer(r, TRUE)
  /\ UNCHANGED faults

Stages(r) == ~Contains(completed, r.key) /\ pending # r.key

Persisted(r) ==
  /\ Stages(r)
  /\ LandAll(buffer \o BatchLines(r.key))
  /\ completed' = RememberCompleted(Resumed, r.key) /\ pending' = None
  /\ forgotten' = forgotten \cup Oldest(Resumed, r.key)
                 \cup IF pending = None THEN {} ELSE Oldest(completed, pending)
  /\ Answer(r, TRUE)
  /\ UNCHANGED faults

\* mutant: the caller is told the batch is durable while it is only staged
AcknowledgeStaged(r) ==
  /\ Stages(r)
  /\ Fault
  /\ \E n \in 0 .. 2 :
       Land(buffer \o BatchLines(r.key), Len(buffer) + n)
  /\ Resume(r.key)
  /\ Answer(r, TRUE)

Staged(r) ==
  /\ Stages(r)
  /\ Fault
  /\ \E n \in 0 .. 2 :
       Land(buffer \o BatchLines(r.key), Len(buffer) + n)
  /\ Resume(r.key)
  /\ Answer(r, FALSE)

(* A best-effort event, first behind a staged batch *)

\* mutant: the event is buffered behind the staged batch
RecordAnyway(r) ==
  /\ buffer' = buffer \o EventLines(r.key)
  /\ Taken /\ UNCHANGED <<journal, pending, completed, forgotten, faults>>

RecordEvent(r) ==
  /\ \/ pending = None /\ LandSome(buffer \o EventLines(r.key))
     \/ pending # None /\ \E n \in 0 .. 1 :
          Land(buffer \o EventLines(r.key), Len(buffer) + n)
  /\ Resume(None)
  /\ Taken /\ UNCHANGED faults

\* the staged batch does not get through: the event is tried again, before all else
DeferEvent(r) ==
  /\ pending # None
  /\ Fault /\ LandSome(buffer)
  /\ deferred' = r /\ queue' = IF deferred # None THEN queue ELSE Tail(queue)
  /\ UNCHANGED <<pending, completed, forgotten>>

HandleDurable(r) ==
  /\ IsDurable(r)
  /\ \/ AlreadyDurable(r) \/ Blocked(r) \/ ResumedIsEnough(r)
     \/ Persisted(r) \/ Staged(r)
  /\ UNCHANGED <<asked, crashes>>

HandleEvent(r) ==
  /\ ~IsDurable(r)
  /\ RecordEvent(r) \/ DeferEvent(r)
  /\ UNCHANGED <<caller, asked, acked, crashes>>

Handle == \E r \in Upcoming : HandleDurable(r) \/ HandleEvent(r)

\* mutant: the timer flushes only what is not staged
TickUnlessPending ==
  /\ IF pending = None THEN LandAll(buffer) ELSE UNCHANGED <<buffer, journal>>
  /\ UNCHANGED <<queue, deferred, caller, asked, acked, counts, completed, pending, forgotten>>

\* flush_or_resume: by the timer when no request arrives, and after a batch of events
Tick ==
  /\ Upcoming = {} \/ pending = None
  /\ \/ LandAll(buffer) /\ Resume(None) /\ UNCHANGED faults
     \/ Fault /\ LandSome(buffer) /\ UNCHANGED <<pending, completed, forgotten>>
  /\ UNCHANGED <<queue, deferred, caller, asked, acked, crashes>>

\* the process dies and another one starts; its batches are all new
Crash ==
  /\ crashes < MaxCrashes /\ crashes' = crashes + 1
  /\ queue' = <<>> /\ deferred' = None
  /\ pending' = None /\ completed' = <<>> /\ buffer' = <<>>
  /\ caller' = [c \in Callers |-> NotAsking]
  /\ UNCHANGED <<journal, asked, acked, forgotten, faults>>

Next ==
  \/ \E e \in Events : Post(e)
  \/ \E c \in Callers, k \in Keys : Begin(c, k)
  \/ \E c \in Callers : RetryFrozen(c)
  \/ CallerReacts \/ Handle \/ Tick \/ Crash

\* the worker takes requests as long as there are any, and the timer when there
\* are none; a task goes on when it is answered
Spec == Init /\ [][Next]_vars /\ WF_vars(Handle) /\ WF_vars(Tick) /\ WF_vars(CallerReacts)

----------------------------------------------------------------------------
(* Properties *)

Remote == INSTANCE DurableJournal
            WITH Keys <- Keys, LinesOf <- LinesOf, excused <- forgotten

\* The journal only grows, a batch its caller was told is durable is in it, whatever
\* crashes, and no line is in it twice however often its batch is tried, unless the
\* batch was forgotten: CompletedLimit other batches were completed after it.
JournalIsDurable == Remote!Spec

\* While a batch is staged the buffer holds its lines and no others, so that nothing
\* else decides whether it is acknowledged.
StagedAlone == pending # None => Range(buffer) \subseteq LinesOf(pending)

\* A batch that is in the journal and whose caller still asks for it is remembered: its
\* retry is acknowledged and not written again, unless CompletedLimit other batches were
\* completed after it.
RememberedWhileAsked ==
  \A c \in Callers :
    caller[c].pc # "idle" /\ LinesOf(caller[c].key) \subseteq Range(journal) =>
      \/ caller[c].key = pending \/ Contains(completed, caller[c].key)
      \/ caller[c].key \in forgotten

\* Nothing is stuck: a staged batch does not stay staged, though its caller may have
\* given it up, and whoever waits for an acknowledgment gets one, even behind an
\* event that waits for the remote.
NothingIsStuck ==
  /\ \A k \in Keys : pending = k ~> pending # k
  /\ \A c \in Callers : caller[c].pc = "asking" ~> caller[c].pc # "asking"

===========================================================================
