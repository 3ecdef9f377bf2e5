--------------------------- MODULE EventPipeline ----------------------------
(***************************************************************************)
(* The widget.created event from the commit of its widget to its row in    *)
(* widget_event_log: the queue of events and its workers (server.go,       *)
(* initWorkers; broker.go), the exchange and the consumer queue, the       *)
(* competing consumers with dedup around the Recorder (initConsumers,      *)
(* idempotency.Handler, widgetaudit.Handle), and the keeper of the monthly *)
(* partitions.                                                             *)
(*                                                                         *)
(* Every hop is at least once: a worker may crash, or lose its lease, after*)
(* it published and before it completed its task; a consumer may crash     *)
(* anywhere before its ack; the store of the idempotency keys may fail,    *)
(* forget, or let a lease lapse under a slow handler.  Messages are not    *)
(* ordered.  The consumers declare their queue and its binding: what the   *)
(* exchange gets before goes nowhere, and its publish succeeds.            *)
(***************************************************************************)
EXTENDS Naturals, FiniteSets

CONSTANTS
    Events,     \* events; the identifier is the one of the message
    Consumers,  \* consumer goroutines over all replicas
    None,       \* a consumer that holds no message
    Retention,  \* months kept; 0 keeps them all
    MaxMonth,   \* bound: the last month of the calendar
    MaxCopies   \* bound: copies of one message in the broker

ASSUME PipelineAssumption ==
    /\ None \notin Events
    /\ Retention \in Nat /\ MaxMonth \in Nat /\ MaxCopies \in Nat

VARIABLES
    task,       \* per event, its task in the queue of events
    month,      \* per event, the month of its time
    malformed,  \* messages of another publisher without a valid id or time
    msgs,       \* per event, copies in the consumer queue
    holds,      \* per consumer, the event of its unacked message
    stage,      \* per consumer, what it does next
    keys,       \* per event, its idempotency key
    log,        \* per event, its rows in widget_event_log
    expired,    \* history: per event, its rows dropped with a partition
    parts,      \* months with a partition
    bound,      \* the consumer queue is declared and bound to the exchange
    unrouted,   \* history: events whose message went nowhere
    now         \* the current month

queue == <<task, month, malformed>>
broker == <<msgs, holds, stage, keys>>
table == <<log, expired, parts>>
exchange == <<bound, unrouted>>
vars == <<queue, broker, table, exchange, now>>

Months == 0 .. MaxMonth + 1

Holders(e) == {c \in Consumers : holds[c] = e}

-----------------------------------------------------------------------------
(* The queue of events. *)

(* Core.insert committed a widget with its event. *)
Schedule(e) ==
    /\ task[e] = "none"
    /\ task' = [task EXCEPT ![e] = "ready"]
    /\ month' = [month EXCEPT ![e] = now]
    /\ UNCHANGED <<malformed, broker, table, exchange, now>>

(* What reaches the exchange is a copy in the queue, or nothing.           *)
Route(e) ==
    IF bound
    THEN msgs' = [msgs EXCEPT ![e] = @ + 1] /\ UNCHANGED exchange
    ELSE unrouted' = unrouted \cup {e} /\ UNCHANGED <<msgs, bound>>

(* Another service publishes to the exchange what the Recorder can not     *)
(* record.                                                                 *)
PublishMalformed(e) ==
    /\ task[e] = "none" /\ MaxCopies > 0
    /\ task' = [task EXCEPT ![e] = "done"]
    /\ malformed' = malformed \cup {e}
    /\ Route(e)
    /\ UNCHANGED <<month, holds, stage, keys, table, now>>

Claim(e) ==
    /\ task[e] = "ready"
    /\ task' = [task EXCEPT ![e] = "claimed"]
    /\ UNCHANGED <<month, malformed, broker, table, exchange, now>>

(* outbox.Handler publishes the envelope to the exchange. *)
Publish(e) ==
    /\ task[e] = "claimed"
    /\ msgs[e] + Cardinality(Holders(e)) < MaxCopies
    /\ task' = [task EXCEPT ![e] = "sent"]
    /\ Route(e)
    /\ UNCHANGED <<month, malformed, holds, stage, keys, table, now>>

Complete(e) ==
    /\ task[e] = "sent"
    /\ task' = [task EXCEPT ![e] = "done"]
    /\ UNCHANGED <<month, malformed, broker, table, exchange, now>>

(* The publish failed, the worker crashed or its lease ran out: the task   *)
(* is claimed again.                                                       *)
Retry(e) ==
    /\ task[e] \in {"claimed", "sent"}
    /\ task' = [task EXCEPT ![e] = "ready"]
    /\ UNCHANGED <<month, malformed, broker, table, exchange, now>>

-----------------------------------------------------------------------------
(* A consumer: dedup around the Recorder. *)

(* The first consumer that connects declares the queue. *)
Declare ==
    /\ ~bound /\ bound' = TRUE
    /\ UNCHANGED <<unrouted, queue, broker, table, now>>

Deliver(c, e) ==
    /\ stage[c] = "idle" /\ msgs[e] > 0
    /\ msgs' = [msgs EXCEPT ![e] = @ - 1]
    /\ holds' = [holds EXCEPT ![c] = e]
    /\ stage' = [stage EXCEPT ![c] = "got"]
    /\ UNCHANGED <<keys, queue, table, exchange, now>>

(* Mutant: the consumer moves on without giving its message back. *)
SettleLate(c) ==
    /\ stage' = [stage EXCEPT ![c] = "idle"]
    /\ UNCHANGED holds

(* The message leaves the broker (Ack, Discard) or goes back (Requeue). *)
Settle(c) ==
    /\ holds' = [holds EXCEPT ![c] = None]
    /\ stage' = [stage EXCEPT ![c] = "idle"]

Drop(c) == Settle(c) /\ UNCHANGED msgs

Requeue(c) == Settle(c) /\ msgs' = [msgs EXCEPT ![holds[c]] = @ + 1]

(* Mutant: the key is marked as handled when it is taken. *)
TakeKeyForGood(c, e) ==
    /\ stage[c] = "got" /\ holds[c] = e /\ keys[e] = "free"
    /\ keys' = [keys EXCEPT ![e] = "done"]
    /\ stage' = [stage EXCEPT ![c] = "run"]
    /\ UNCHANGED <<msgs, holds, queue, table, exchange, now>>

TakeKey(c, e) ==
    /\ stage[c] = "got" /\ holds[c] = e /\ keys[e] = "free"
    /\ keys' = [keys EXCEPT ![e] = "busy"]
    /\ stage' = [stage EXCEPT ![c] = "run"]
    /\ UNCHANGED <<msgs, holds, queue, table, exchange, now>>

(* A repeat of a handled message is acked without the handler. *)
AckRepeat(c, e) ==
    /\ stage[c] = "got" /\ holds[c] = e /\ keys[e] = "done"
    /\ Drop(c)
    /\ UNCHANGED <<keys, queue, table, exchange, now>>

(* The key is busy, or the store of the keys does not answer: also of a    *)
(* claim that took effect.                                                 *)
NoKey(c, e) ==
    /\ stage[c] = "got" /\ holds[c] = e
    /\ \/ UNCHANGED keys
       \/ keys[e] = "free" /\ keys' = [keys EXCEPT ![e] = "busy"]
    /\ Requeue(c)
    /\ UNCHANGED <<queue, table, exchange, now>>

(* A message without an id goes straight to the Recorder, which discards   *)
(* it.                                                                     *)
DiscardNoId(c, e) ==
    /\ stage[c] = "got" /\ holds[c] = e /\ e \in malformed
    /\ Drop(c)
    /\ UNCHANGED <<keys, queue, table, exchange, now>>

(* Recorder.Handle: INSERT ... ON CONFLICT (event_id, occurred_at) DO      *)
(* NOTHING into the partition of the month of the event.                   *)

(* Mutant: the insert without its ON CONFLICT, on a table without the key. *)
InsertAnyway(c, e) ==
    /\ stage[c] = "run" /\ holds[c] = e
    /\ e \notin malformed /\ month[e] \in parts
    /\ log' = [log EXCEPT ![e] = @ + 1]
    /\ stage' = [stage EXCEPT ![c] = "save"]
    /\ UNCHANGED <<msgs, holds, keys, queue, expired, parts, exchange, now>>

Record(c, e) ==
    /\ stage[c] = "run" /\ holds[c] = e
    /\ e \notin malformed /\ month[e] \in parts
    /\ log' = [log EXCEPT ![e] = 1]
    /\ stage' = [stage EXCEPT ![c] = "save"]
    /\ UNCHANGED <<msgs, holds, keys, queue, expired, parts, exchange, now>>

(* The verdict is not Ack: the key is freed, unless its store fails.       *)
FreeKey(e) == UNCHANGED keys \/ keys' = [keys EXCEPT ![e] = "free"]

(* A malformed message is discarded. *)
Discard(c, e) ==
    /\ stage[c] = "run" /\ holds[c] = e /\ e \in malformed
    /\ FreeKey(e)
    /\ Drop(c)
    /\ UNCHANGED <<queue, table, exchange, now>>

(* Mutant: the error of the insert is acked. *)
RecordFailsAcked(c, e) ==
    /\ stage[c] = "run" /\ holds[c] = e /\ e \notin malformed
    /\ FreeKey(e)
    /\ Drop(c)
    /\ UNCHANGED <<queue, table, exchange, now>>

(* The insert failed, for want of a partition too: Requeue. *)
RecordFails(c, e) ==
    /\ stage[c] = "run" /\ holds[c] = e /\ e \notin malformed
    /\ FreeKey(e)
    /\ Requeue(c)
    /\ UNCHANGED <<queue, table, exchange, now>>

(* The handler acked: its key is saved as done, and the message is acked.  *)
SaveKey(c, e) ==
    /\ stage[c] = "save" /\ holds[c] = e
    /\ keys' = [keys EXCEPT ![e] = "done"]
    /\ Drop(c)
    /\ UNCHANGED <<queue, table, exchange, now>>

(* The key could not be saved, or was without an answer: any other error   *)
(* requeues a handled message.                                             *)
SaveFails(c, e) ==
    /\ stage[c] = "save" /\ holds[c] = e
    /\ UNCHANGED keys \/ keys' = [keys EXCEPT ![e] = "done"]
    /\ Requeue(c)
    /\ UNCHANGED <<queue, table, exchange, now>>

(* The connection of an unacked message is gone: the broker redelivers it. *)
ConsumerCrash(c) ==
    /\ stage[c] # "idle"
    /\ Requeue(c)
    /\ UNCHANGED <<keys, queue, table, exchange, now>>

(* The lease of a key in progress runs out, a record is past its TTL, or   *)
(* the memory of the keys went with its process.                           *)
KeyLapses(e) ==
    /\ keys[e] # "free"
    /\ keys' = [keys EXCEPT ![e] = "free"]
    /\ UNCHANGED <<msgs, holds, stage, queue, table, exchange, now>>

-----------------------------------------------------------------------------
(* The calendar and Partitions(...).Maintain: the partitions of this month *)
(* and the next, and none past the retention.                              *)

Kept(m) == Retention = 0 \/ m + Retention >= now

(* Mutant: the partitions are made back to the first kept event. *)
MaintainBack ==
    LET kept == {m \in Months : m <= now + 1}
        gone == {e \in Events : log[e] > 0 /\ ~Kept(month[e])} IN
    /\ parts' = kept
    /\ expired' = [e \in Events |-> IF e \in gone THEN expired[e] + log[e] ELSE expired[e]]
    /\ log' = [e \in Events |-> IF e \in gone THEN 0 ELSE log[e]]
    /\ UNCHANGED <<queue, broker, exchange, now>>

(* Mutant: only the partition of the next month is made. *)
MaintainNextOnly ==
    /\ parts' = {m \in parts \cup {now + 1} : Kept(m)}
    /\ UNCHANGED <<queue, broker, log, expired, exchange, now>>

Maintain ==
    LET kept == {m \in parts \cup {now, now + 1} : Kept(m)}
        gone == {e \in Events : log[e] > 0 /\ month[e] \notin kept} IN
    /\ parts' = kept
    /\ expired' = [e \in Events |-> IF e \in gone THEN expired[e] + log[e] ELSE expired[e]]
    /\ log' = [e \in Events |-> IF e \in gone THEN 0 ELSE log[e]]
    /\ UNCHANGED <<queue, broker, exchange, now>>

NextMonth ==
    /\ now < MaxMonth
    /\ now' = now + 1
    /\ UNCHANGED <<queue, broker, table, exchange>>

-----------------------------------------------------------------------------
Init ==
    /\ task = [e \in Events |-> "none"]
    /\ month = [e \in Events |-> 0]
    /\ malformed = {}
    /\ msgs = [e \in Events |-> 0]
    /\ holds = [c \in Consumers |-> None]
    /\ stage = [c \in Consumers |-> "idle"]
    /\ keys = [e \in Events |-> "free"]
    /\ log = [e \in Events |-> 0]
    /\ expired = [e \in Events |-> 0]
    /\ parts = {}
    /\ bound = FALSE /\ unrouted = {}
    /\ now = 0

Work(e) ==
    \/ Schedule(e) \/ PublishMalformed(e)
    \/ Claim(e) \/ Publish(e) \/ Complete(e) \/ Retry(e)

Consume(c, e) ==
    \/ Deliver(c, e)
    \/ TakeKey(c, e)
    \/ AckRepeat(c, e)
    \/ NoKey(c, e)
    \/ DiscardNoId(c, e)
    \/ Record(c, e)
    \/ Discard(c, e)
    \/ RecordFails(c, e)
    \/ SaveKey(c, e)
    \/ SaveFails(c, e)

Next ==
    \/ \E e \in Events : Work(e) \/ KeyLapses(e)
    \/ \E c \in Consumers : ConsumerCrash(c) \/ \E e \in Events : Consume(c, e)
    \/ Declare
    \/ Maintain
    \/ NextMonth

Spec == Init /\ [][Next]_vars

(* The loops of the workers, the consumers and the keeper keep running,    *)
(* and a step that is possible again and again does not fail for ever: the *)
(* queue retries a task, the broker redelivers a message.                  *)
FairSpec ==
    /\ Spec
    /\ WF_vars(Declare) /\ WF_vars(Maintain)
    /\ \A e \in Events :
        /\ WF_vars(Claim(e)) /\ SF_vars(Publish(e)) /\ SF_vars(Complete(e))
        /\ WF_vars(KeyLapses(e) /\ keys[e] = "busy")
        /\ \A c \in Consumers :
            /\ SF_vars(Deliver(c, e)) /\ SF_vars(TakeKey(c, e))
            /\ SF_vars(Record(c, e)) /\ SF_vars(SaveKey(c, e))
            /\ WF_vars(AckRepeat(c, e) \/ NoKey(c, e))
            /\ WF_vars(Discard(c, e) \/ RecordFails(c, e))

-----------------------------------------------------------------------------
(* The variables have their types, and a consumer is idle exactly while it *)
(* holds no message.                                                       *)
TypeOK ==
    /\ task \in [Events -> {"none", "ready", "claimed", "sent", "done"}]
    /\ month \in [Events -> Nat]
    /\ malformed \subseteq Events
    /\ msgs \in [Events -> Nat]
    /\ holds \in [Consumers -> Events \cup {None}]
    /\ stage \in [Consumers -> {"idle", "got", "run", "save"}]
    /\ \A c \in Consumers : (stage[c] = "idle") = (holds[c] = None)
    /\ keys \in [Events -> {"free", "busy", "done"}]
    /\ log \in [Events -> Nat]
    /\ expired \in [Events -> Nat]
    /\ parts \subseteq Nat
    /\ bound \in BOOLEAN /\ unrouted \subseteq Events
    /\ now \in Nat

Held(e) == \E c \in Consumers : holds[c] = e

Recorded(e) == log[e] + expired[e] > 0

(* Redelivery records an event once ("exactly-once by its ON CONFLICT"):   *)
(* one row over its whole life, the months after its partition was dropped *)
(* included.                                                               *)
RecordedOnce == \A e \in Events : log[e] + expired[e] <= 1

(* No event is lost: until it is recorded, it is a task to publish or a    *)
(* message the broker will deliver, through crashes of workers and         *)
(* consumers and failures of the key store; but for an event whose message *)
(* reached the exchange before the first consumer.                         *)
NotLost ==
    \A e \in Events \ malformed :
        \/ task[e] = "none"
        \/ task[e] \in {"ready", "claimed"}
        \/ msgs[e] > 0 \/ Held(e)
        \/ Recorded(e) \/ e \in unrouted

(* The key of a message is done only after the handler recorded it: the    *)
(* wrapper never acks a repeat of what was not handled.                    *)
DoneIsRecorded == \A e \in Events : keys[e] = "done" => Recorded(e)

(* The month of the event went by without a partition, or its partition    *)
(* was dropped before the event came: no partition will be made for it.    *)
Stranded(e) == month[e] < now /\ month[e] \notin parts

(* Every scheduled event is recorded, through retries, failures and lost   *)
(* answers; the text of widgetaudit.go: an event of a month without a      *)
(* partition "is requeued until its partition is made", which is made as   *)
(* long as the month is not over.  But for an event whose message went     *)
(* nowhere, and for one that is stranded.                                  *)
EveryEventRecorded ==
    \A e \in Events :
        task[e] # "none" /\ e \notin malformed
            ~> Recorded(e) \/ e \in unrouted \/ Stranded(e)

-----------------------------------------------------------------------------
(* The inductive invariant: what a message in the broker, a handled one and *)
(* a dropped partition say of their event.                                  *)

EventInv(e) ==
    /\ msgs[e] > 0 \/ Held(e) \/ Recorded(e) => task[e] # "none"
    /\ log[e] > 0 => month[e] \in parts
    /\ expired[e] > 0 => ~Kept(month[e]) /\ month[e] \notin parts
    /\ month[e] <= now
    /\ e \in malformed => task[e] = "done"

IInv ==
    /\ TypeOK
    /\ \A e \in Events : EventInv(e)
    /\ \A c \in Consumers : stage[c] = "save" => Recorded(holds[c])
    /\ RecordedOnce /\ NotLost /\ DoneIsRecorded

-----------------------------------------------------------------------------
(* What the pipeline shows of an event. *)
Status(e) ==
    IF log[e] > 0 THEN "recorded"
    ELSE IF expired[e] > 0 THEN "expired"
    ELSE IF task[e] # "none" THEN "pending" ELSE "none"

Log == INSTANCE EventLog WITH status <- [e \in Events |-> Status(e)]

(* The pipeline implements the promise of the log. *)
ImplementsLog == Log!Spec
=============================================================================
