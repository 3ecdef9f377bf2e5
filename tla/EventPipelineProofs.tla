------------------------ MODULE EventPipelineProofs -------------------------
(***************************************************************************)
(* The pipeline of EventPipeline records an event once, loses none and     *)
(* implements EventLog, for any number of events, consumers and months.    *)
(***************************************************************************)
EXTENDS EventPipeline, TLAPS

USE DEF queue, broker, table, exchange

(* The initial state satisfies the invariant. *)
LEMMA InitInv == Init => IInv
<1> SUFFICES ASSUME Init PROVE IInv
    OBVIOUS
<1>1. bound \in BOOLEAN
    BY DEF Init
<1>2. TypeOK
    BY <1>1, PipelineAssumption DEF Init, TypeOK
<1>3. /\ \A e \in Events : EventInv(e)
      /\ \A c \in Consumers : stage[c] = "save" => Recorded(holds[c])
      /\ RecordedOnce /\ NotLost /\ DoneIsRecorded
    BY PipelineAssumption DEF Init, EventInv, Held, Recorded, RecordedOnce, NotLost, DoneIsRecorded
<1> QED  BY <1>2, <1>3 DEF IInv

(* Maintain, event by event: a row goes exactly with the partition of its  *)
(* month, and a partition goes only when its month is past the retention.  *)
LEMMA MaintainStep ==
    ASSUME TypeOK, Maintain
    PROVE  /\ parts' = {m \in parts \cup {now, now + 1} : Kept(m)}
           /\ log' \in [Events -> Nat] /\ expired' \in [Events -> Nat]
           /\ \A e \in Events :
                 IF log[e] > 0 /\ month[e] \notin parts'
                 THEN log'[e] = 0 /\ expired'[e] = expired[e] + log[e]
                 ELSE log'[e] = log[e] /\ expired'[e] = expired[e]
<1> DEFINE gone == {e \in Events : log[e] > 0 /\ month[e] \notin parts'}
<1>1. /\ parts' = {m \in parts \cup {now, now + 1} : Kept(m)}
      /\ expired' = [e \in Events |-> IF e \in gone THEN expired[e] + log[e] ELSE expired[e]]
      /\ log' = [e \in Events |-> IF e \in gone THEN 0 ELSE log[e]]
    BY DEF Maintain
<1>2. \A e \in Events : log[e] \in Nat /\ expired[e] \in Nat
    BY DEF TypeOK
<1> QED  BY <1>1, <1>2

(* Every step keeps the types. *)
LEMMA TypeStep == ASSUME TypeOK, [Next]_vars PROVE TypeOK'
<1> USE DEF TypeOK
<1>1. ASSUME NEW e \in Events, Work(e) \/ KeyLapses(e) PROVE TypeOK'
    <2>1. CASE Schedule(e)  BY <2>1 DEF Schedule
    <2>2. CASE PublishMalformed(e)  BY <2>2 DEF PublishMalformed, Route
    <2>3. CASE Claim(e)  BY <2>3 DEF Claim
    <2>4. CASE Publish(e)  BY <2>4 DEF Publish, Route
    <2>5. CASE Complete(e)  BY <2>5 DEF Complete
    <2>6. CASE Retry(e)  BY <2>6 DEF Retry
    <2>7. CASE KeyLapses(e)  BY <2>7 DEF KeyLapses
    <2> QED  BY <1>1, <2>1, <2>2, <2>3, <2>4, <2>5, <2>6, <2>7 DEF Work
<1>2. ASSUME NEW c \in Consumers, NEW e \in Events, Consume(c, e) PROVE TypeOK'
    <2> USE PipelineAssumption DEF Requeue, Drop, Settle
    <2>1. CASE Deliver(c, e)  BY <2>1 DEF Deliver
    <2>2. CASE TakeKey(c, e)  BY <2>2 DEF TakeKey
    <2>3. CASE Record(c, e)  BY <2>3 DEF Record
    <2>4. CASE AckRepeat(c, e)  BY <2>4 DEF AckRepeat
    <2>5. CASE NoKey(c, e)  BY <2>5 DEF NoKey
    <2>6. CASE Discard(c, e)  BY <2>6 DEF Discard, FreeKey
    <2>7. CASE RecordFails(c, e)  BY <2>7 DEF RecordFails, FreeKey
    <2>8. CASE SaveKey(c, e)  BY <2>8 DEF SaveKey
    <2>9. CASE SaveFails(c, e)  BY <2>9 DEF SaveFails
    <2>10. CASE DiscardNoId(c, e)  BY <2>10 DEF DiscardNoId
    <2> QED  BY <1>2, <2>1, <2>2, <2>3, <2>4, <2>5, <2>6, <2>7, <2>8, <2>9, <2>10 DEF Consume
<1>3. ASSUME NEW c \in Consumers, ConsumerCrash(c) PROVE TypeOK'
    BY <1>3 DEF ConsumerCrash, Requeue, Settle
<1>4. CASE Maintain
    <2>1. UNCHANGED <<queue, broker, exchange, now>>
        BY <1>4 DEF Maintain
    <2>2. /\ parts' \subseteq parts \cup {now, now + 1}
          /\ log' \in [Events -> Nat] /\ expired' \in [Events -> Nat]
        BY <1>4, MaintainStep
    <2>3. parts' \subseteq Nat
        BY <2>2
    <2> QED  BY <2>1, <2>2, <2>3
<1>5. CASE NextMonth
    BY <1>5 DEF NextMonth
<1>6. CASE Declare
    BY <1>6 DEF Declare
<1>7. CASE UNCHANGED vars
    BY <1>7 DEF vars
<1> QED  BY <1>1, <1>2, <1>3, <1>4, <1>5, <1>6, <1>7 DEF Next

(* Every step keeps the rest of the invariant. *)
LEMMA InvStep ==
    ASSUME IInv, [Next]_vars, TypeOK'
    PROVE  /\ \A e \in Events : EventInv(e)'
           /\ \A c \in Consumers : stage'[c] = "save" => Recorded(holds[c])'
           /\ RecordedOnce' /\ NotLost' /\ DoneIsRecorded'
<1> DEFINE Goal == /\ \A e \in Events : EventInv(e)'
                   /\ \A c \in Consumers : stage'[c] = "save" => Recorded(holds[c])'
                   /\ RecordedOnce' /\ NotLost' /\ DoneIsRecorded'
<1> USE PipelineAssumption DEF IInv, TypeOK, EventInv, RecordedOnce, NotLost, DoneIsRecorded,
    Recorded, Held, Kept
<1>1. ASSUME NEW e \in Events, Work(e) \/ KeyLapses(e) PROVE Goal
    <2>1. CASE Schedule(e)  BY <2>1 DEF Schedule
    <2>2. CASE PublishMalformed(e)  BY <2>2 DEF PublishMalformed, Route
    <2>3. CASE Publish(e)  BY <2>3 DEF Publish, Route
    <2>4. CASE Claim(e)  BY <2>4 DEF Claim
    <2>5. CASE Complete(e)  BY <2>5 DEF Complete
    <2>6. CASE Retry(e)  BY <2>6 DEF Retry
    <2>7. CASE KeyLapses(e)  BY <2>7 DEF KeyLapses
    <2> QED  BY <1>1, <2>1, <2>2, <2>3, <2>4, <2>5, <2>6, <2>7 DEF Work
<1>2. ASSUME NEW c \in Consumers, NEW e \in Events, Consume(c, e) PROVE Goal
    <2> USE DEF Requeue, Drop, Settle
    <2>1. CASE Deliver(c, e)  BY <2>1 DEF Deliver
    <2>2. CASE TakeKey(c, e)  BY <2>2 DEF TakeKey
    <2>3. CASE Record(c, e)  BY <2>3 DEF Record
    <2>4. CASE AckRepeat(c, e)  BY <2>4 DEF AckRepeat
    <2>5. CASE NoKey(c, e)  BY <2>5 DEF NoKey
    <2>6. CASE Discard(c, e)  BY <2>6 DEF Discard, FreeKey
    <2>7. CASE RecordFails(c, e)  BY <2>7 DEF RecordFails, FreeKey
    <2>8. CASE SaveKey(c, e)  BY <2>8 DEF SaveKey
    <2>9. CASE SaveFails(c, e)  BY <2>9 DEF SaveFails
    <2>10. CASE DiscardNoId(c, e)  BY <2>10 DEF DiscardNoId
    <2> QED  BY <1>2, <2>1, <2>2, <2>3, <2>4, <2>5, <2>6, <2>7, <2>8, <2>9, <2>10 DEF Consume
<1>3. ASSUME NEW c \in Consumers, ConsumerCrash(c) PROVE Goal
    BY <1>3 DEF ConsumerCrash, Requeue, Settle
<1>4. CASE Maintain
    <2>1. UNCHANGED <<queue, broker, exchange, now>>
        BY <1>4 DEF Maintain
    <2>2. \A e \in Events : Recorded(e)' = Recorded(e)
        BY <1>4, MaintainStep
    <2>3. ASSUME NEW e \in Events PROVE EventInv(e)' /\ log'[e] + expired'[e] <= 1
        BY <1>4, <2>1, <2>2, MaintainStep
    <2> QED  BY <2>1, <2>2, <2>3
<1>5. CASE NextMonth
    BY <1>5 DEF NextMonth
<1>6. CASE Declare
    BY <1>6 DEF Declare
<1>7. CASE UNCHANGED vars
    BY <1>7 DEF vars
<1> QED  BY <1>1, <1>2, <1>3, <1>4, <1>5, <1>6, <1>7 DEF Next

-----------------------------------------------------------------------------
(* The invariant holds in every reachable state. *)
THEOREM Invariance == Spec => []IInv
<1>1. IInv /\ [Next]_vars => IInv'
    BY TypeStep, InvStep DEF IInv
<1> QED  BY InitInv, <1>1, PTL DEF Spec

(* The variables keep their types, and a consumer is idle exactly while it *)
(* holds no message.                                                       *)
THEOREM TypeCorrect == Spec => []TypeOK
BY Invariance, PTL DEF IInv

(* An event has at most one row over its life, however often it is         *)
(* published, redelivered and handled, and after its partition is dropped. *)
THEOREM EventsAreRecordedOnce == Spec => []RecordedOnce
BY Invariance, PTL DEF IInv

(* A scheduled event is a task, a message or a record: no crash, lost      *)
(* lease or failing key store makes it disappear, only an exchange without *)
(* a queue.                                                                *)
THEOREM NoEventIsLost == Spec => []NotLost
BY Invariance, PTL DEF IInv

(* The dedup wrapper marks a message as handled only after it was recorded. *)
THEOREM DoneKeysAreRecorded == Spec => []DoneIsRecorded
BY Invariance, PTL DEF IInv

(* A step that leaves the tasks and the rows of the events alone, but for  *)
(* a task that goes on, leaves the log alone.                              *)
LEMMA Silent ==
    ASSUME UNCHANGED <<log, expired>>,
           \A e \in Events : (task'[e] = "none") = (task[e] = "none")
    PROVE  UNCHANGED [e \in Events |-> Status(e)]
<1>1. \A e \in Events : Status(e)' = Status(e)
    BY DEF Status
<1> QED  BY <1>1

(* Every step of the pipeline is a step of the log or leaves it alone. *)
LEMMA LogStep ==
    ASSUME IInv, [Next]_vars, IInv'
    PROVE  Log!Next \/ UNCHANGED [e \in Events |-> Status(e)]
<1> DEFINE Silence == UNCHANGED [f \in Events |-> Status(f)]
<1> USE DEF IInv, TypeOK
<1>1. ASSUME NEW e \in Events, Schedule(e) \/ PublishMalformed(e) PROVE Log!Announce(e)
    <2>1. /\ task[e] = "none" /\ task'[e] # "none"
          /\ \A f \in Events \ {e} : task'[f] = task[f]
          /\ UNCHANGED <<log, expired>>
        BY <1>1 DEF Schedule, PublishMalformed
    <2>2. log[e] = 0 /\ expired[e] = 0
        BY <2>1 DEF EventInv, Recorded
    <2>3. Status(e) = "none" /\ Status(e)' = "pending"
        BY <2>1, <2>2 DEF Status
    <2>4. \A f \in Events \ {e} : Status(f)' = Status(f)
        BY <2>1 DEF Status
    <2> QED  BY <2>3, <2>4 DEF Log!Announce
<1>2. ASSUME NEW c \in Consumers, NEW e \in Events, Record(c, e)
      PROVE  Log!Record(e) \/ Silence
    <2>1. /\ holds[c] = e /\ month[e] \in parts
          /\ log'[e] = 1 /\ \A f \in Events \ {e} : log'[f] = log[f]
          /\ UNCHANGED <<task, expired>>
        BY <1>2 DEF Record
    <2>2. expired[e] = 0 /\ task[e] # "none"
        BY <2>1 DEF EventInv, Held
    <2>3. Status(e)' = "recorded" /\ Status(e) \in {"pending", "recorded"}
        BY <2>1, <2>2 DEF Status
    <2>4. \A f \in Events \ {e} : Status(f)' = Status(f)
        BY <2>1 DEF Status
    <2>5. CASE Status(e) = "pending"  BY <2>3, <2>4, <2>5 DEF Log!Record
    <2>6. CASE Status(e) = "recorded"  BY <2>3, <2>4, <2>6
    <2> QED  BY <2>3, <2>5, <2>6
<1>3. CASE Maintain
    <2> DEFINE old == {e \in Events : log[e] > 0 /\ month[e] \notin parts'}
    <2>1. \A e \in old : Status(e) = "recorded" /\ Status(e)' = "expired"
        BY <1>3, MaintainStep DEF Status
    <2>2. \A e \in Events \ old : Status(e)' = Status(e)
        BY <1>3, MaintainStep DEF Status, Maintain
    <2>3. Log!Expire(old)
        BY <2>1, <2>2 DEF Log!Expire
    <2>4. old \in SUBSET Events
        OBVIOUS
    <2> QED  BY <2>3, <2>4 DEF Log!Next
<1>4. ASSUME NEW e \in Events, Work(e) \/ KeyLapses(e) PROVE Log!Next \/ Silence
    <2>1. CASE Schedule(e) \/ PublishMalformed(e)  BY <1>1, <2>1 DEF Log!Next
    <2>2. CASE Claim(e)  BY <2>2, Silent DEF Claim
    <2>3. CASE Publish(e)  BY <2>3, Silent DEF Publish
    <2>4. CASE Complete(e)  BY <2>4, Silent DEF Complete
    <2>5. CASE Retry(e)  BY <2>5, Silent DEF Retry
    <2>6. CASE KeyLapses(e)  BY <2>6, Silent DEF KeyLapses
    <2> QED  BY <1>4, <2>1, <2>2, <2>3, <2>4, <2>5, <2>6 DEF Work
<1>5. ASSUME NEW c \in Consumers, NEW e \in Events, Consume(c, e) PROVE Log!Next \/ Silence
    <2>1. CASE Record(c, e)  BY <1>2, <2>1 DEF Log!Next
    <2>2. CASE Deliver(c, e)  BY <2>2, Silent DEF Deliver
    <2>3. CASE TakeKey(c, e)  BY <2>3, Silent DEF TakeKey
    <2>4. CASE AckRepeat(c, e)  BY <2>4, Silent DEF AckRepeat
    <2>5. CASE NoKey(c, e)  BY <2>5, Silent DEF NoKey
    <2>6. CASE Discard(c, e)  BY <2>6, Silent DEF Discard
    <2>7. CASE RecordFails(c, e)  BY <2>7, Silent DEF RecordFails
    <2>8. CASE SaveKey(c, e)  BY <2>8, Silent DEF SaveKey
    <2>9. CASE SaveFails(c, e)  BY <2>9, Silent DEF SaveFails
    <2>10. CASE DiscardNoId(c, e)  BY <2>10, Silent DEF DiscardNoId
    <2> QED  BY <1>5, <2>1, <2>2, <2>3, <2>4, <2>5, <2>6, <2>7, <2>8, <2>9, <2>10 DEF Consume
<1>6. ASSUME NEW c \in Consumers, ConsumerCrash(c) PROVE Silence
    BY <1>6, Silent DEF ConsumerCrash
<1>7. CASE NextMonth  BY <1>7, Silent DEF NextMonth
<1>8. CASE Declare  BY <1>8, Silent DEF Declare
<1>9. CASE UNCHANGED vars  BY <1>9, Silent DEF vars
<1> QED  BY <1>3, <1>4, <1>5, <1>6, <1>7, <1>8, <1>9 DEF Next

(* The pipeline implements the log: it announces an event once, records it *)
(* once, later, and drops its record only with a partition.                *)
THEOREM PipelineImplementsLog == Spec => ImplementsLog
<1>1. Init => Log!Init
    BY DEF Init, Log!Init, Status
<1>2. IInv /\ [Next]_vars /\ IInv' => [Log!Next]_([e \in Events |-> Status(e)])
    BY LogStep
<1> QED  BY <1>1, <1>2, Invariance, PTL DEF Spec, ImplementsLog, Log!Spec
=============================================================================
