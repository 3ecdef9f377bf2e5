-------------------------- MODULE WidgetCoreProofs --------------------------
(***************************************************************************)
(* The safety properties of WidgetCore for any number of requests and      *)
(* replicas, and the refinement of WidgetRegistry.  Each rests on IInv: a  *)
(* lemma per part of it says that every step preserves that part.          *)
(***************************************************************************)
EXTENDS WidgetCore, TLAPS

(* What arrives is a call. *)
LEMMA CallsOfType == \A r \in Requests : CallsOf(r) \subseteq Calls
BY DEF CallsOf, Calls, Ops

(* The merge of an update is a row: a nil field takes the old value. *)
LEMMA MergedType ==
    \A c \in Calls, row \in Row : Merged(c, row) \in Row /\ Carries(c, Merged(c, row))
BY DEF Merged, Given, Carries, Calls, Row

(* The initial state satisfies the invariant. *)
LEMMA InitInv == Init => IInv
<1> SUFFICES ASSUME Init PROVE IInv
    OBVIOUS
<1> USE DEF Init, Phases, InFlight, InTx, Replies, Refusals
<1>0. 0 \in 0 .. MaxReruns
    BY CoreAssumption
<1>1. TypeOK
    BY <1>0 DEF TypeOK
<1>2. \A r \in Requests : RequestInv(r) /\ MergeInv(r)
    BY DEF RequestInv, MergeInv
<1>3. NamesUnique /\ NameLocks
    BY DEF NamesUnique, NameLocks
<1>4. OutboxAtomic /\ ReplyTruthful /\ EffectsFollowCommit
    BY DEF OutboxAtomic, ReplyTruthful, EffectsFollowCommit, Born
<1> QED  BY <1>1, <1>2, <1>3, <1>4 DEF IInv

USE DEF database, replica, effects, handler

(* Every step keeps the types. *)
LEMMA TypeStep == IInv /\ [Next]_vars => TypeOK'
<1> SUFFICES ASSUME IInv, [Next]_vars PROVE TypeOK'
    OBVIOUS
<1> USE DEF IInv, TypeOK, Phases, InFlight, InTx, Replies, Refusals
<1>0. MaxReruns \in Nat /\ 0 \in 0 .. MaxReruns
    BY CoreAssumption
<1>1. ASSUME NEW r \in Requests, Arrive(r) PROVE TypeOK'
    <2> PICK p \in Replicas, c \in CallsOf(r) : Accept(r, p, c) \/ Refuse(r, p, c)
        BY <1>1 DEF Arrive
    <2>1. c \in Calls
        BY CallsOfType
    <2>2. CASE Refuse(r, p, c)
        BY <2>1, <2>2 DEF Refuse
    <2>3. CASE Accept(r, p, c)
        <3>1. c.op = "create" => [name |-> c.name, desc |-> c.desc] \in Row
            BY DEF CallsOf, Row
        <3>2. FirstPhase[c.op] \in Phases
            BY <2>1 DEF FirstPhase, Calls, Ops
        <3> QED  BY <2>1, <2>3, <3>1, <3>2 DEF Accept
    <2> QED  BY <2>2, <2>3
<1>2. ASSUME NEW r \in Requests, Handle(r) PROVE TypeOK'
    <2> USE DEF Finish, Goto
    <2>a. RequestInv(r)
        OBVIOUS
    <2>1. CASE InsertRow(r)  BY <2>1 DEF InsertRow
    <2>2. CASE InsertDuplicate(r)  BY <1>0, <2>2 DEF InsertDuplicate
    <2>3. CASE ScheduleEvent(r)  BY <2>3 DEF ScheduleEvent
    <2>4. CASE Commit(r)  BY <2>4 DEF Commit, Land, Write
    <2>5. CASE CommitUnknown(r)  BY <1>0, <2>5 DEF CommitUnknown, Land, Write
    <2>6. CASE Rerun(r)  BY <1>0, <2>6 DEF Rerun
    <2>7. CASE Notify(r)  BY <2>7 DEF Notify
    <2>8. CASE PublishAudit(r)  BY <1>0, <2>8 DEF PublishAudit
    <2>9. CASE ReadRow(r)
        <3>1. call[r] \in Calls
            BY <2>9, <2>a DEF ReadRow, RequestInv
        <3>2. Merged(call[r], rows[call[r].id]) \in Row
            BY <2>9, <3>1, MergedType DEF ReadRow, Calls
        <3> QED  BY <2>9, <3>2 DEF ReadRow
    <2>10. CASE WriteRow(r)  BY <2>10 DEF WriteRow, Overwrite, Write
    <2>11. CASE WriteUnknown(r)  BY <1>0, <2>11 DEF WriteUnknown, Overwrite, Write
    <2>12. CASE WriteDuplicate(r)  BY <1>0, <2>12 DEF WriteDuplicate
    <2>13. CASE RemoveRow(r)  BY <1>0, <2>13 DEF RemoveRow, Erase, Write
    <2>14. CASE RemoveUnknown(r)  BY <1>0, <2>14 DEF RemoveUnknown, Erase, Write
    <2>15. CASE Missing(r)  BY <1>0, <2>15 DEF Missing
    <2>16. CASE StoreFails(r)  BY <1>0, <2>16 DEF StoreFails
    <2> QED
        BY <1>2, <2>1, <2>2, <2>3, <2>4, <2>5, <2>6, <2>7, <2>8, <2>9, <2>10, <2>11,
           <2>12, <2>13, <2>14, <2>15, <2>16 DEF Handle, Proceed, Falter
<1>3. ASSUME NEW p \in Replicas, Operate(p) PROVE TypeOK'
    BY <1>0, <1>3 DEF Operate, Crash, Boot, SaveSettings, Reread
<1>4. CASE UNCHANGED vars
    BY <1>4 DEF vars
<1> QED  BY <1>1, <1>2, <1>3, <1>4 DEF Next

(* Every step keeps what a request in each phase has done and holds. *)
LEMMA RequestStep == IInv /\ [Next]_vars => \A q \in Requests : RequestInv(q)'
<1> SUFFICES ASSUME IInv, [Next]_vars PROVE \A q \in Requests : RequestInv(q)'
    OBVIOUS
<1>t. TypeOK /\ TypeOK'
    BY TypeStep DEF IInv
<1> USE DEF IInv, TypeOK, Phases, InFlight, InTx, Replies, Refusals, RequestInv, Born
<1>1. ASSUME NEW r \in Requests, Arrive(r) PROVE \A q \in Requests : RequestInv(q)'
    <2> PICK p \in Replicas, c \in CallsOf(r) : Accept(r, p, c) \/ Refuse(r, p, c)
        BY <1>1 DEF Arrive
    <2>0. c \in Calls /\ (c.op = "create" => [name |-> c.name, desc |-> c.desc] \in Row)
        BY CallsOfType DEF CallsOf, Row
    <2>1. CASE Accept(r, p, c)
        <3>1. /\ c.op = "create" => FirstPhase[c.op] = "insert"
              /\ c.op = "create" \/ c.op = "update" \/ c.op = "delete"
              /\ c.op = "update" => FirstPhase[c.op] = "read"
              /\ c.op = "delete" => FirstPhase[c.op] = "remove"
            BY <2>0 DEF FirstPhase, Calls, Ops
        <3>2. ASSUME NEW q \in Requests, q # r PROVE RequestInv(q)'
            BY <1>t, <2>0, <2>1, <3>2 DEF Accept
        <3>3. rows[r] = NoRow /\ r \notin applied /\ reply[r] = "none" /\ pending[r] = 0
            BY <2>1 DEF Accept
        <3>4. RequestInv(r)'
            BY <1>t, <2>0, <2>1, <3>1, <3>3 DEF Accept
        <3> QED  BY <3>2, <3>4
    <2>2. CASE Refuse(r, p, c)
        BY <1>t, <2>0, <2>2 DEF Refuse
    <2> QED  BY <2>1, <2>2
<1>2. ASSUME NEW r \in Requests, Handle(r) PROVE \A q \in Requests : RequestInv(q)'
    <2> USE <1>t DEF Finish, Goto
    <2>1. CASE InsertRow(r)
        BY <2>1 DEF InsertRow, Duplicate, Taken, Held
    <2>2. CASE InsertDuplicate(r)
        BY <2>2 DEF InsertDuplicate
    <2>3. CASE ScheduleEvent(r)
        BY <2>3 DEF ScheduleEvent
    <2>4. CASE Commit(r)
        BY <2>4 DEF Commit, Land, Write
    <2>5. CASE CommitUnknown(r)
        BY <2>5 DEF CommitUnknown, Land, Write
    <2>6. CASE Rerun(r)
        BY <2>6 DEF Rerun
    <2>7. CASE Notify(r)
        BY <2>7 DEF Notify
    <2>8. CASE PublishAudit(r)
        BY <2>8 DEF PublishAudit
    <2>9. CASE ReadRow(r)
        <3>1. call[r] \in Calls /\ call[r].id \in Requests
            BY <2>9 DEF ReadRow, Calls
        <3>2. /\ w'[r] = Merged(call[r], rows[call[r].id])
              /\ w'[r] \in Row /\ Carries(call[r], w'[r])
            BY <2>9, <3>1, MergedType DEF ReadRow
        <3>3. /\ phase[r] = "read" /\ phase' = [phase EXCEPT ![r] = "write"]
              /\ w' = [w EXCEPT ![r] = w'[r]]
              /\ UNCHANGED <<call, at, reply, pending, runs, database>>
            BY <2>9, <3>2 DEF ReadRow
        <3>4. ASSUME NEW q \in Requests, q # r PROVE RequestInv(q)'
            BY <3>3, <3>4
        <3>5. RequestInv(r)'
            BY <3>1, <3>2, <3>3
        <3> QED  BY <3>4, <3>5
    <2>10. CASE WriteRow(r)
        BY <2>10 DEF WriteRow, Overwrite, Write, Taken, Held
    <2>11. CASE WriteUnknown(r)
        BY <2>11 DEF WriteUnknown, Overwrite, Write, Taken, Held
    <2>12. CASE WriteDuplicate(r)
        BY <2>12 DEF WriteDuplicate
    <2>13. CASE RemoveRow(r)
        BY <2>13 DEF RemoveRow, Erase, Write
    <2>14. CASE RemoveUnknown(r)
        BY <2>14 DEF RemoveUnknown, Erase, Write
    <2>15. CASE Missing(r)
        BY <2>15 DEF Missing
    <2>16. CASE StoreFails(r)
        BY <2>16 DEF StoreFails
    <2> QED
        BY <1>2, <2>1, <2>2, <2>3, <2>4, <2>5, <2>6, <2>7, <2>8,
           <2>9, <2>10, <2>11, <2>12, <2>13, <2>14, <2>15, <2>16 DEF Handle, Proceed, Falter
<1>3. ASSUME NEW p \in Replicas, Operate(p) PROVE \A q \in Requests : RequestInv(q)'
    <2>1. CASE Crash(p)  BY <1>t, <2>1 DEF Crash
    <2>2. CASE ~Crash(p)  BY <1>3, <2>2 DEF Operate, Boot, SaveSettings, Reread
    <2> QED  BY <2>1, <2>2
<1>4. CASE UNCHANGED vars
    BY <1>4 DEF vars
<1> QED  BY <1>1, <1>2, <1>3, <1>4 DEF Next

(* Every step keeps one committed task per committed widget. *)
LEMMA OutboxStep == IInv /\ [Next]_vars => OutboxAtomic'
<1> SUFFICES ASSUME IInv, [Next]_vars PROVE OutboxAtomic'
    OBVIOUS
<1>t. TypeOK /\ TypeOK'
    BY TypeStep DEF IInv
<1> USE DEF IInv, TypeOK, Phases, InFlight, InTx, Replies, Refusals, OutboxAtomic, RequestInv, Born
<1>1. ASSUME NEW r \in Requests, Arrive(r) PROVE OutboxAtomic'
    <2> PICK p \in Replicas, c \in CallsOf(r) : Accept(r, p, c) \/ Refuse(r, p, c)
        BY <1>1 DEF Arrive
    <2>0. c \in Calls /\ (c.op = "create" => [name |-> c.name, desc |-> c.desc] \in Row)
        BY CallsOfType DEF CallsOf, Row
    <2>1. CASE Accept(r, p, c)
        BY <1>t, <2>0, <2>1 DEF Accept, FirstPhase, Calls, Ops
    <2>2. CASE Refuse(r, p, c)
        BY <1>t, <2>0, <2>2 DEF Refuse
    <2> QED  BY <2>1, <2>2
<1>2. ASSUME NEW r \in Requests, Handle(r) PROVE OutboxAtomic'
    <2> USE <1>t DEF Finish, Goto
    <2>1. CASE InsertRow(r)
        BY <2>1 DEF InsertRow
    <2>2. CASE InsertDuplicate(r)
        BY <2>2 DEF InsertDuplicate
    <2>3. CASE ScheduleEvent(r)
        BY <2>3 DEF ScheduleEvent
    <2>4. CASE Commit(r)
        BY <2>4 DEF Commit, Land, Write
    <2>5. CASE CommitUnknown(r)
        BY <2>5 DEF CommitUnknown, Land, Write
    <2>6. CASE Rerun(r)
        BY <2>6 DEF Rerun
    <2>7. CASE Notify(r)
        BY <2>7 DEF Notify
    <2>8. CASE PublishAudit(r)
        BY <2>8 DEF PublishAudit
    <2>9. CASE ReadRow(r)
        BY <2>9 DEF ReadRow
    <2>10. CASE WriteRow(r)
        BY <2>10 DEF WriteRow, Overwrite, Write
    <2>11. CASE WriteUnknown(r)
        BY <2>11 DEF WriteUnknown, Overwrite, Write
    <2>12. CASE WriteDuplicate(r)
        BY <2>12 DEF WriteDuplicate
    <2>13. CASE RemoveRow(r)
        BY <2>13 DEF RemoveRow, Erase, Write
    <2>14. CASE RemoveUnknown(r)
        BY <2>14 DEF RemoveUnknown, Erase, Write
    <2>15. CASE Missing(r)
        BY <2>15 DEF Missing
    <2>16. CASE StoreFails(r)
        BY <2>16 DEF StoreFails
    <2> QED
        BY <1>2, <2>1, <2>2, <2>3, <2>4, <2>5, <2>6, <2>7, <2>8,
           <2>9, <2>10, <2>11, <2>12, <2>13, <2>14, <2>15, <2>16 DEF Handle, Proceed, Falter
<1>3. ASSUME NEW p \in Replicas, Operate(p) PROVE OutboxAtomic'
    <2>1. CASE Crash(p)  BY <1>t, <2>1 DEF Crash
    <2>2. CASE ~Crash(p)  BY <1>3, <2>2 DEF Operate, Boot, SaveSettings, Reread
    <2> QED  BY <2>1, <2>2
<1>4. CASE UNCHANGED vars
    BY <1>4 DEF vars
<1> QED  BY <1>1, <1>2, <1>3, <1>4 DEF Next

(* Every step keeps the answers truthful. *)
LEMMA ReplyStep == IInv /\ [Next]_vars => ReplyTruthful'
<1> SUFFICES ASSUME IInv, [Next]_vars PROVE ReplyTruthful'
    OBVIOUS
<1>t. TypeOK /\ TypeOK'
    BY TypeStep DEF IInv
<1> USE DEF IInv, TypeOK, Phases, InFlight, InTx, Replies, Refusals, ReplyTruthful, RequestInv
<1>1. ASSUME NEW r \in Requests, Arrive(r) PROVE ReplyTruthful'
    <2> PICK p \in Replicas, c \in CallsOf(r) : Accept(r, p, c) \/ Refuse(r, p, c)
        BY <1>1 DEF Arrive
    <2>0. c \in Calls /\ (c.op = "create" => [name |-> c.name, desc |-> c.desc] \in Row)
        BY CallsOfType DEF CallsOf, Row
    <2>1. CASE Accept(r, p, c)
        BY <1>t, <2>0, <2>1 DEF Accept, FirstPhase, Calls, Ops
    <2>2. CASE Refuse(r, p, c)
        BY <1>t, <2>0, <2>2 DEF Refuse
    <2> QED  BY <2>1, <2>2
<1>2. ASSUME NEW r \in Requests, Handle(r) PROVE ReplyTruthful'
    <2> USE <1>t DEF Finish, Goto
    <2>1. CASE InsertRow(r)
        BY <2>1 DEF InsertRow
    <2>2. CASE InsertDuplicate(r)
        BY <2>2 DEF InsertDuplicate
    <2>3. CASE ScheduleEvent(r)
        BY <2>3 DEF ScheduleEvent
    <2>4. CASE Commit(r)
        BY <2>4 DEF Commit, Land, Write
    <2>5. CASE CommitUnknown(r)
        BY <2>5 DEF CommitUnknown, Land, Write
    <2>6. CASE Rerun(r)
        BY <2>6 DEF Rerun
    <2>7. CASE Notify(r)
        BY <2>7 DEF Notify
    <2>8. CASE PublishAudit(r)
        BY <2>8 DEF PublishAudit
    <2>9. CASE ReadRow(r)
        BY <2>9 DEF ReadRow
    <2>10. CASE WriteRow(r)
        BY <2>10 DEF WriteRow, Overwrite, Write
    <2>11. CASE WriteUnknown(r)
        BY <2>11 DEF WriteUnknown, Overwrite, Write
    <2>12. CASE WriteDuplicate(r)
        BY <2>12 DEF WriteDuplicate
    <2>13. CASE RemoveRow(r)
        BY <2>13 DEF RemoveRow, Erase, Write
    <2>14. CASE RemoveUnknown(r)
        BY <2>14 DEF RemoveUnknown, Erase, Write
    <2>15. CASE Missing(r)
        BY <2>15 DEF Missing
    <2>16. CASE StoreFails(r)
        BY <2>16 DEF StoreFails
    <2> QED
        BY <1>2, <2>1, <2>2, <2>3, <2>4, <2>5, <2>6, <2>7, <2>8,
           <2>9, <2>10, <2>11, <2>12, <2>13, <2>14, <2>15, <2>16 DEF Handle, Proceed, Falter
<1>3. ASSUME NEW p \in Replicas, Operate(p) PROVE ReplyTruthful'
    <2>1. CASE Crash(p)  BY <1>t, <2>1 DEF Crash
    <2>2. CASE ~Crash(p)  BY <1>3, <2>2 DEF Operate, Boot, SaveSettings, Reread
    <2> QED  BY <2>1, <2>2
<1>4. CASE UNCHANGED vars
    BY <1>4 DEF vars
<1> QED  BY <1>1, <1>2, <1>3, <1>4 DEF Next

(* Every step keeps the counter, the webhook and the audit log behind the  *)
(* commits.                                                                *)
LEMMA EffectsStep == IInv /\ [Next]_vars => EffectsFollowCommit'
<1> SUFFICES ASSUME IInv, [Next]_vars PROVE EffectsFollowCommit'
    OBVIOUS
<1>t. TypeOK /\ TypeOK'
    BY TypeStep DEF IInv
<1> USE DEF IInv, TypeOK, Phases, InFlight, InTx, Replies, Refusals, EffectsFollowCommit, RequestInv, Born
<1>1. ASSUME NEW r \in Requests, Arrive(r) PROVE EffectsFollowCommit'
    <2> PICK p \in Replicas, c \in CallsOf(r) : Accept(r, p, c) \/ Refuse(r, p, c)
        BY <1>1 DEF Arrive
    <2>0. c \in Calls /\ (c.op = "create" => [name |-> c.name, desc |-> c.desc] \in Row)
        BY CallsOfType DEF CallsOf, Row
    <2>1. CASE Accept(r, p, c)
        BY <1>t, <2>0, <2>1 DEF Accept, FirstPhase, Calls, Ops
    <2>2. CASE Refuse(r, p, c)
        BY <1>t, <2>0, <2>2 DEF Refuse
    <2> QED  BY <2>1, <2>2
<1>2. ASSUME NEW r \in Requests, Handle(r) PROVE EffectsFollowCommit'
    <2> USE <1>t DEF Finish, Goto
    <2>1. CASE InsertRow(r)
        BY <2>1 DEF InsertRow
    <2>2. CASE InsertDuplicate(r)
        BY <2>2 DEF InsertDuplicate
    <2>3. CASE ScheduleEvent(r)
        BY <2>3 DEF ScheduleEvent
    <2>4. CASE Commit(r)
        BY <2>4 DEF Commit, Land, Write
    <2>5. CASE CommitUnknown(r)
        BY <2>5 DEF CommitUnknown, Land, Write
    <2>6. CASE Rerun(r)
        BY <2>6 DEF Rerun
    <2>7. CASE Notify(r)
        BY <2>7 DEF Notify
    <2>8. CASE PublishAudit(r)
        BY <2>8 DEF PublishAudit
    <2>9. CASE ReadRow(r)
        BY <2>9 DEF ReadRow
    <2>10. CASE WriteRow(r)
        BY <2>10 DEF WriteRow, Overwrite, Write
    <2>11. CASE WriteUnknown(r)
        BY <2>11 DEF WriteUnknown, Overwrite, Write
    <2>12. CASE WriteDuplicate(r)
        BY <2>12 DEF WriteDuplicate
    <2>13. CASE RemoveRow(r)
        BY <2>13 DEF RemoveRow, Erase, Write
    <2>14. CASE RemoveUnknown(r)
        BY <2>14 DEF RemoveUnknown, Erase, Write
    <2>15. CASE Missing(r)
        BY <2>15 DEF Missing
    <2>16. CASE StoreFails(r)
        BY <2>16 DEF StoreFails
    <2> QED
        BY <1>2, <2>1, <2>2, <2>3, <2>4, <2>5, <2>6, <2>7, <2>8,
           <2>9, <2>10, <2>11, <2>12, <2>13, <2>14, <2>15, <2>16 DEF Handle, Proceed, Falter
<1>3. ASSUME NEW p \in Replicas, Operate(p) PROVE EffectsFollowCommit'
    <2>1. CASE Crash(p)  BY <1>t, <2>1 DEF Crash
    <2>2. CASE ~Crash(p)  BY <1>3, <2>2 DEF Operate, Boot, SaveSettings, Reread
    <2> QED  BY <2>1, <2>2
<1>4. CASE UNCHANGED vars
    BY <1>4 DEF vars
<1> QED  BY <1>1, <1>2, <1>3, <1>4 DEF Next

(* Every step keeps names unique, those of open transactions included.     *)
LEMMA NamesStep == IInv /\ [Next]_vars => NamesUnique' /\ NameLocks'
<1> SUFFICES ASSUME IInv, [Next]_vars PROVE NamesUnique' /\ NameLocks'
    OBVIOUS
<1>t. TypeOK /\ TypeOK'
    BY TypeStep DEF IInv
<1> USE DEF IInv, TypeOK, Phases, InFlight, InTx, Replies, Refusals, NamesUnique, NameLocks, RequestInv
<1>1. ASSUME NEW r \in Requests, Arrive(r) PROVE NamesUnique' /\ NameLocks'
    <2> PICK p \in Replicas, c \in CallsOf(r) : Accept(r, p, c) \/ Refuse(r, p, c)
        BY <1>1 DEF Arrive
    <2>0. c \in Calls /\ (c.op = "create" => [name |-> c.name, desc |-> c.desc] \in Row)
        BY CallsOfType DEF CallsOf, Row
    <2>1. CASE Accept(r, p, c)
        BY <1>t, <2>0, <2>1 DEF Accept, FirstPhase, Calls, Ops
    <2>2. CASE Refuse(r, p, c)
        BY <1>t, <2>0, <2>2 DEF Refuse
    <2> QED  BY <2>1, <2>2
<1>2. ASSUME NEW r \in Requests, Handle(r) PROVE NamesUnique' /\ NameLocks'
    <2> USE <1>t DEF Finish, Goto
    <2>1. CASE InsertRow(r)
        BY <2>1 DEF InsertRow, Duplicate, Taken, Held
    <2>2. CASE InsertDuplicate(r)
        BY <2>2 DEF InsertDuplicate
    <2>3. CASE ScheduleEvent(r)
        BY <2>3 DEF ScheduleEvent
    <2>4. CASE Commit(r)
        BY <2>4 DEF Commit, Land, Write
    <2>5. CASE CommitUnknown(r)
        BY <2>5 DEF CommitUnknown, Land, Write
    <2>6. CASE Rerun(r)
        BY <2>6 DEF Rerun
    <2>7. CASE Notify(r)
        BY <2>7 DEF Notify
    <2>8. CASE PublishAudit(r)
        BY <2>8 DEF PublishAudit
    <2>9. CASE ReadRow(r)
        BY <2>9 DEF ReadRow
    <2>10. CASE WriteRow(r)
        BY <2>10 DEF WriteRow, Overwrite, Write, Taken, Held
    <2>11. CASE WriteUnknown(r)
        BY <2>11 DEF WriteUnknown, Overwrite, Write, Taken, Held
    <2>12. CASE WriteDuplicate(r)
        BY <2>12 DEF WriteDuplicate
    <2>13. CASE RemoveRow(r)
        BY <2>13 DEF RemoveRow, Erase, Write
    <2>14. CASE RemoveUnknown(r)
        BY <2>14 DEF RemoveUnknown, Erase, Write
    <2>15. CASE Missing(r)
        BY <2>15 DEF Missing
    <2>16. CASE StoreFails(r)
        BY <2>16 DEF StoreFails
    <2> QED
        BY <1>2, <2>1, <2>2, <2>3, <2>4, <2>5, <2>6, <2>7, <2>8,
           <2>9, <2>10, <2>11, <2>12, <2>13, <2>14, <2>15, <2>16 DEF Handle, Proceed, Falter
<1>3. ASSUME NEW p \in Replicas, Operate(p) PROVE NamesUnique' /\ NameLocks'
    <2>1. CASE Crash(p)  BY <1>t, <2>1 DEF Crash
    <2>2. CASE ~Crash(p)  BY <1>3, <2>2 DEF Operate, Boot, SaveSettings, Reread
    <2> QED  BY <2>1, <2>2
<1>4. CASE UNCHANGED vars
    BY <1>4 DEF vars
<1> QED  BY <1>1, <1>2, <1>3, <1>4 DEF Next

(* A write that takes effect goes under the updates of its row that have   *)
(* read it, and under no other.                                            *)
LEMMA WriteMerge ==
    ASSUME IInv, NEW r \in Requests, NEW id \in Requests, NEW row, Write(r, id, row),
           NEW q \in Requests \ {r}, UNCHANGED <<phase[q], call, w[q]>>
    PROVE  MergeInv(q)'
<1> SUFFICES ASSUME phase[q] = "write", q \notin raced' PROVE MergeInv(q)'
    BY DEF MergeInv
<1>1. q \notin raced /\ call[q].id # id
    BY DEF Write
<1>2. rows'[call[q].id] = rows[call[q].id]
    BY <1>1 DEF Write, IInv, TypeOK
<1> QED  BY <1>1, <1>2 DEF IInv, MergeInv

(* Every step keeps an update that nobody raced on the row it read. *)
LEMMA MergeStep == IInv /\ [Next]_vars => \A q \in Requests : MergeInv(q)'
<1> SUFFICES ASSUME IInv, [Next]_vars, NEW q \in Requests PROVE MergeInv(q)'
    OBVIOUS
<1> USE DEF IInv, TypeOK, InFlight, InTx
<1>0. MergeInv(q)
    OBVIOUS
<1>1. ASSUME NEW r \in Requests, Arrive(r) PROVE MergeInv(q)'
    <2>1. PICK p \in Replicas, c \in CallsOf(r) : Accept(r, p, c) \/ Refuse(r, p, c)
        BY <1>1 DEF Arrive
    <2>2. FirstPhase[c.op] # "write"
        BY CallsOfType DEF FirstPhase, Calls, Ops
    <2>3. UNCHANGED <<rows, raced>>
        BY <2>1 DEF Accept, Refuse
    <2>4. CASE q = r
        BY <2>1, <2>2, <2>4 DEF Accept, Refuse, MergeInv
    <2>5. CASE q # r
        <3>1. UNCHANGED <<phase[q], call[q], w[q]>>
            BY <2>1, <2>5 DEF Accept, Refuse
        <3> QED  BY <1>0, <2>3, <3>1 DEF MergeInv
    <2> QED  BY <2>4, <2>5
<1>2. ASSUME NEW r \in Requests, Handle(r) PROVE MergeInv(q)'
    <2>1. UNCHANGED call /\ (q # r => UNCHANGED <<phase[q], w[q]>>)
        BY <1>2 DEF Handle, Proceed, Falter,
           InsertRow, InsertDuplicate, ScheduleEvent, Commit, CommitUnknown,
           Rerun, Notify, PublishAudit, ReadRow, WriteRow, WriteUnknown, WriteDuplicate,
           RemoveRow, RemoveUnknown, Missing, StoreFails, Goto, Finish
    <2>2. CASE Commit(r) \/ CommitUnknown(r)
        <3>1. Write(r, r, w[r]) /\ phase'[r] # "write"
            BY <2>2 DEF Commit, CommitUnknown, Land, Goto, Finish
        <3> QED  BY <2>1, <3>1, WriteMerge DEF MergeInv
    <2>3. CASE WriteRow(r) \/ WriteUnknown(r)
        <3>1. Write(r, call[r].id, w[r]) /\ phase[r] = "write" /\ phase'[r] # "write"
            BY <2>3 DEF WriteRow, WriteUnknown, Overwrite, Goto, Finish
        <3>2. call[r].id \in Requests
            BY <3>1 DEF RequestInv, Calls
        <3> QED  BY <2>1, <3>1, <3>2, WriteMerge DEF MergeInv
    <2>4. CASE RemoveRow(r) \/ RemoveUnknown(r)
        <3>1. Write(r, call[r].id, NoRow) /\ phase[r] = "remove" /\ phase'[r] # "write"
            BY <2>4 DEF RemoveRow, RemoveUnknown, Erase, Finish
        <3>2. call[r].id \in Requests
            BY <3>1 DEF RequestInv, Calls
        <3> QED  BY <2>1, <3>1, <3>2, WriteMerge DEF MergeInv
    <2>5. CASE ReadRow(r)
        BY <1>0, <2>1, <2>5 DEF ReadRow, Goto, MergeInv
    <2>6. CASE \/ InsertRow(r) \/ InsertDuplicate(r) \/ ScheduleEvent(r) \/ Rerun(r)
               \/ Notify(r) \/ PublishAudit(r) \/ WriteDuplicate(r) \/ Missing(r)
               \/ StoreFails(r)
        <3>1. UNCHANGED <<rows, raced>> /\ phase'[r] # "write"
            BY <2>6 DEF InsertRow, InsertDuplicate, ScheduleEvent, Rerun, Notify,
               PublishAudit, WriteDuplicate, Missing, StoreFails, Goto, Finish
        <3> QED  BY <1>0, <2>1, <3>1 DEF MergeInv
    <2> QED  BY <1>2, <2>2, <2>3, <2>4, <2>5, <2>6 DEF Handle, Proceed, Falter
<1>3. ASSUME NEW p \in Replicas, Operate(p) PROVE MergeInv(q)'
    <2>1. CASE Crash(p)  BY <1>0, <2>1 DEF Crash, MergeInv
    <2>2. CASE ~Crash(p)  BY <1>0, <1>3, <2>2 DEF Operate, Boot, SaveSettings, Reread, MergeInv
    <2> QED  BY <2>1, <2>2
<1>4. CASE UNCHANGED vars
    BY <1>0, <1>4 DEF vars, MergeInv
<1> QED  BY <1>1, <1>2, <1>3, <1>4 DEF Next

-----------------------------------------------------------------------------
(* The invariant holds in every reachable state. *)
THEOREM Invariance == Spec => []IInv
<1>1. IInv /\ [Next]_vars => IInv'
    BY TypeStep, RequestStep, OutboxStep, ReplyStep, EffectsStep, NamesStep,
       MergeStep DEF IInv
<1> QED  BY InitInv, <1>1, PTL DEF Spec

(* The variables of the Core have their types, for any number of requests  *)
(* and replicas.                                                           *)
THEOREM TypeCorrect == Spec => []TypeOK
BY Invariance, PTL DEF IInv

(* A widget and its widget.created task are committed together, once,      *)
(* whatever is rolled back, rerun or left without an answer.               *)
THEOREM OutboxIsAtomic == Spec => []OutboxAtomic
BY Invariance, PTL DEF IInv

(* No two live widgets share a name, through concurrent creates, renames   *)
(* and deletes.                                                            *)
THEOREM NamesAreUnique == Spec => []NamesUnique
BY Invariance, PTL DEF IInv

(* A success was committed; AlreadyExists, NotFound and Unavailable left   *)
(* nothing behind.                                                         *)
THEOREM RepliesAreTruthful == Spec => []ReplyTruthful
BY Invariance, PTL DEF IInv

(* The counter, the webhook and the audit log never run ahead of a commit, *)
(* and show no request whose client was told of an error.                  *)
THEOREM EffectsAreCommitted == Spec => []EffectsFollowCommit
BY Invariance, PTL DEF IInv

(* A request in flight waits: nothing was told to its client. *)
LEMMA Waiting ==
    ASSUME IInv, NEW r \in Requests, phase[r] \in InFlight
    PROVE  Registry!Waits(r)
<1>1. phase[r] # "idle" /\ reply[r] = "none" /\ call[r] \in Calls
    BY DEF IInv, RequestInv, InFlight, InTx
<1>2. call[r] # NoCall
    BY <1>1, CoreAssumption
<1> QED  BY <1>1, <1>2 DEF Registry!Waits, Heard, Understood

(* A step that answers one request tells its client, and no other. *)
LEMMA Telling ==
    ASSUME IInv, NEW r \in Requests, NEW a \in Replies, Finish(r, a)
    PROVE  Registry!Tell(r, Understood(a))
<1>1. reply' = [reply EXCEPT ![r] = a] /\ reply \in [Requests -> Replies]
    BY DEF Finish, IInv, TypeOK
<1>2. Heard' = [Heard EXCEPT ![r] = Understood(a)]
    BY <1>1 DEF Heard
<1> QED  BY <1>2 DEF Registry!Tell

(* What definite answers mean to a client, and what the others do. *)
LEMMA Meaning ==
    /\ \A a \in Refusals \cup {"ok"} : Understood(a) = a
    /\ Understood("internal") = "unknown"
    /\ Refusals \cup {"ok", "internal"} \subseteq Replies
BY DEF Understood, Refusals, Replies

(* An answer that says nothing of what happened. *)
LEMMA Losing ==
    ASSUME IInv, NEW r \in Requests, phase[r] \in InFlight, UNCHANGED database,
           Finish(r, "internal")
    PROVE  Registry!Lose({r})
<1>1. Registry!Tell(r, "unknown")
    BY Telling, Meaning
<1>2. Heard' = [q \in Requests |-> IF q \in {r} THEN "unknown" ELSE Heard[q]]
    BY <1>1 DEF Registry!Tell, Heard
<1> QED  BY <1>2, Waiting DEF Registry!Lose, Finish

(* An arrival is a request made, or made and refused. *)
LEMMA ArriveRefines ==
    ASSUME IInv, NEW r \in Requests, Arrive(r)
    PROVE  Registry!Ask(r)
<1>1. PICK p \in Replicas, c \in CallsOf(r) : Accept(r, p, c) \/ Refuse(r, p, c)
    BY DEF Arrive
<1>2. call' = [call EXCEPT ![r] = c] /\ UNCHANGED database
    BY <1>1 DEF Accept, Refuse
<1>3. call[r] = NoCall /\ call \in [Requests -> Calls \cup {NoCall}]
    BY <1>1 DEF Accept, Refuse, IInv, TypeOK, RequestInv
<1>4. call'[r] = c /\ c \in Calls
    BY <1>2, <1>3, CallsOfType
<1>5. UNCHANGED Heard \/ Registry!Tell(r, "unavailable")
    <2>1. CASE Accept(r, p, c)
        BY <2>1 DEF Accept, Heard
    <2>2. CASE Refuse(r, p, c)
        <3>1. reply' = [reply EXCEPT ![r] = "unavailable"] /\ reply \in [Requests -> Replies]
            BY <2>2 DEF Refuse, IInv, TypeOK
        <3>2. Heard' = [Heard EXCEPT ![r] = Understood("unavailable")]
            BY <3>1 DEF Heard
        <3> QED  BY <3>2, Meaning DEF Registry!Tell, Refusals
    <2> QED  BY <1>1, <2>1, <2>2
<1> QED  BY <1>2, <1>3, <1>4, <1>5 DEF Registry!Ask, Calls, Ops

(* A commit adds the widget with its task, answered or not. *)
LEMMA CommitRefines ==
    ASSUME IInv, NEW r \in Requests, Commit(r) \/ CommitUnknown(r)
    PROVE  Registry!Add(r)
<1> USE DEF IInv, TypeOK, RequestInv, InTx
<1>1. /\ phase[r] = "commit" /\ r \notin applied /\ call[r].op = "create"
      /\ Write(r, r, w[r]) /\ UNCHANGED call
      /\ outbox' = [outbox EXCEPT ![r] = @ + pending[r]]
    BY DEF Commit, CommitUnknown, Land, Goto, Finish
<1>2. /\ w[r] = [name |-> call[r].name, desc |-> call[r].desc] /\ w[r] \in Row
      /\ w[r].name = call[r].name
    BY <1>1
<1>3. Registry!Free(w[r].name, r)
    BY <1>1 DEF Registry!Free, NameLocks
<1>4. outbox' = IF Broker THEN [outbox EXCEPT ![r] = 1] ELSE outbox
    <2>1. outbox[r] = 0 /\ pending[r] = IF Broker THEN 1 ELSE 0
        BY <1>1 DEF OutboxAtomic, Born
    <2>2. outbox' = [outbox EXCEPT ![r] = IF Broker THEN 1 ELSE 0]
        BY <1>1, <2>1
    <2>3. [outbox EXCEPT ![r] = outbox[r]] = outbox
        OBVIOUS
    <2> QED  BY <2>1, <2>2, <2>3
<1>5. UNCHANGED Heard \/ Registry!Tell(r, "unknown")
    <2>1. CASE Commit(r)
        BY <2>1 DEF Commit, Goto, Heard
    <2>2. CASE CommitUnknown(r)
        BY <2>2, Telling, Meaning DEF CommitUnknown
    <2> QED  BY <2>1, <2>2
<1>6. Registry!Effect(r, r, w[r])
    BY <1>1, <1>5 DEF Write, Registry!Effect
<1> QED  BY <1>1, <1>2, <1>3, <1>4, <1>6 DEF Registry!Add, Registry!Row, Row

(* The write of an update changes a live widget as its call says. *)
LEMMA WriteRefines ==
    ASSUME IInv, NEW r \in Requests, WriteRow(r) \/ WriteUnknown(r)
    PROVE  \E row \in Registry!Row : Registry!Change(r, row)
<1> USE DEF IInv, RequestInv, InFlight
<1>1. Overwrite(r) /\ phase[r] = "write" /\ UNCHANGED <<call, outbox>>
    BY DEF WriteRow, WriteUnknown, Overwrite, Goto, Finish
<1>2. /\ call[r].op = "update" /\ call[r].id \in Requests
      /\ r \notin applied /\ w[r] \in Row /\ Carries(call[r], w[r])
    BY <1>1 DEF Calls
<1>3. Registry!Free(w[r].name, call[r].id)
    BY <1>1 DEF Overwrite, Taken, Registry!Free
<1>4. UNCHANGED Heard \/ Registry!Tell(r, "unknown")
    <2>1. CASE WriteRow(r)
        BY <2>1 DEF WriteRow, Goto, Heard
    <2>2. CASE WriteUnknown(r)
        BY <2>2, Telling, Meaning DEF WriteUnknown
    <2> QED  BY <2>1, <2>2
<1>5. Registry!Effect(r, call[r].id, w[r])
    BY <1>1, <1>2, <1>4 DEF Overwrite, Write, Registry!Effect
<1>6. Registry!Change(r, w[r])
    BY <1>1, <1>2, <1>3, <1>5 DEF Overwrite, Carries, Registry!Change
<1> QED  BY <1>2, <1>6 DEF Registry!Row, Row

(* A delete removes a live widget. *)
LEMMA RemoveRefines ==
    ASSUME IInv, NEW r \in Requests, RemoveRow(r) \/ RemoveUnknown(r)
    PROVE  Registry!Remove(r)
<1>1. Erase(r) /\ phase[r] = "remove" /\ UNCHANGED <<call, outbox>>
    BY DEF RemoveRow, RemoveUnknown, Erase, Finish
<1>2. call[r].op = "delete" /\ r \notin applied
    BY <1>1 DEF IInv, RequestInv, InTx
<1>3. Registry!Tell(r, "ok") \/ Registry!Tell(r, "unknown")
    BY Telling, Meaning DEF RemoveRow, RemoveUnknown
<1>4. Registry!Effect(r, call[r].id, NoRow)
    BY <1>1, <1>2, <1>3 DEF Erase, Write, Registry!Effect
<1> QED  BY <1>1, <1>2, <1>4 DEF Erase, Registry!Remove

(* An answer is true when it is given. *)
LEMMA AnswerRefines ==
    ASSUME IInv, NEW r \in Requests
    PROVE  /\ InsertDuplicate(r) => Registry!Collide(r)
           /\ PublishAudit(r) => Registry!Confirm(r)
           /\ Missing(r) => Registry!Miss(r)
           /\ WriteDuplicate(r) \/ StoreFails(r) => Registry!Lose({r})
<1> USE DEF IInv, RequestInv, InTx, InFlight, Refusals
<1>1. ASSUME InsertDuplicate(r) PROVE Registry!Collide(r)
    <2>1. phase[r] = "insert" /\ Duplicate(r) /\ UNCHANGED <<database, call>>
        BY <1>1 DEF InsertDuplicate, Finish
    <2>2. r \notin applied /\ call[r].op = "create"
          /\ w[r] = [name |-> call[r].name, desc |-> call[r].desc]
        BY <2>1
    <2>3. rows[r] = NoRow /\ w[r].name = call[r].name
        BY <2>2 DEF Born
    <2>4. ~Registry!Free(call[r].name, r)
        BY <2>1, <2>3 DEF Duplicate, Taken, Registry!Free
    <2>5. Registry!Tell(r, "exists")
        BY <1>1, Telling, Meaning DEF InsertDuplicate
    <2> QED  BY <2>1, <2>2, <2>4, <2>5 DEF Registry!Collide
<1>2. ASSUME PublishAudit(r) PROVE Registry!Confirm(r)
    <2>1. r \in applied /\ Registry!Tell(r, "ok") /\ UNCHANGED <<database, call>>
        BY <1>2, Telling, Meaning DEF PublishAudit, Finish
    <2> QED  BY <2>1 DEF Registry!Confirm
<1>3. Missing(r) => Registry!Miss(r)
    <2> SUFFICES ASSUME Missing(r) PROVE Registry!Miss(r)
        OBVIOUS
    <2>1. Registry!Tell(r, "not_found") /\ UNCHANGED <<database, call>>
        BY Telling, Meaning DEF Missing, Finish
    <2>2. call[r].op \in {"update", "delete"} /\ r \notin applied /\ rows[call[r].id] = NoRow
        BY DEF Missing
    <2> QED  BY <2>1, <2>2 DEF Registry!Miss
<1>4. WriteDuplicate(r) \/ StoreFails(r) => Registry!Lose({r})
    BY Losing DEF WriteDuplicate, StoreFails
<1> QED  BY <1>1, <1>2, <1>3, <1>4

(* A replica that crashes leaves its clients in doubt. *)
LEMMA CrashRefines ==
    ASSUME IInv, NEW p \in Replicas, Crash(p)
    PROVE  \E gone \in SUBSET Requests : Registry!Lose(gone)
<1> DEFINE gone == {r \in Requests : phase[r] \in InFlight /\ at[r] = p}
<1>1. reply' = [r \in Requests |-> IF r \in gone THEN "lost" ELSE reply[r]]
      /\ UNCHANGED <<database, call>>
    BY DEF Crash
<1>2. Heard' = [r \in Requests |-> IF r \in gone THEN "unknown" ELSE Heard[r]]
    BY <1>1 DEF Heard, Understood
<1>3. \A r \in gone : Registry!Waits(r)
    BY Waiting
<1>4. Registry!Lose(gone)
    BY <1>1, <1>2, <1>3 DEF Registry!Lose
<1> QED  BY <1>4

(* What one step is to the registry. *)
LEMMA RegistryStep == IInv /\ [Next]_vars => [Registry!Next]_(Registry!vars)
<1> SUFFICES ASSUME IInv, [Next]_vars
             PROVE  Registry!Next \/ UNCHANGED <<database, call, reply>>
    BY DEF Registry!vars, Heard
<1>1. ASSUME NEW r \in Requests, Handle(r)
      PROVE  Registry!Next \/ UNCHANGED <<database, call, reply>>
    <2>1. CASE \/ InsertRow(r) \/ ScheduleEvent(r) \/ Rerun(r) \/ Notify(r) \/ ReadRow(r)
        BY <2>1 DEF InsertRow, ScheduleEvent, Rerun, Notify, ReadRow, Goto
    <2>2. CASE Registry!Serve(r)
        <3>1. phase[r] \in InFlight
            BY <1>1 DEF Handle, Proceed, Falter,
               InsertRow, InsertDuplicate, ScheduleEvent, Commit, CommitUnknown,
               Rerun, Notify, PublishAudit, ReadRow, WriteRow, WriteUnknown, Overwrite,
               WriteDuplicate, RemoveRow, RemoveUnknown, Erase, Missing, StoreFails,
               InFlight, InTx
        <3> QED  BY <2>2, <3>1, Waiting DEF Registry!Next
    <2>3. CASE Registry!Lose({r})
        BY <2>3 DEF Registry!Next
    <2> QED
        BY <1>1, <2>1, <2>2, <2>3, CommitRefines, WriteRefines, RemoveRefines, AnswerRefines
           DEF Handle, Proceed, Falter, Registry!Serve
<1>2. ASSUME NEW p \in Replicas, Operate(p)
      PROVE  Registry!Next \/ UNCHANGED <<database, call, reply>>
    <2>1. CASE Crash(p)
        BY <2>1, CrashRefines DEF Registry!Next
    <2>2. CASE ~Crash(p)
        BY <1>2, <2>2 DEF Operate, Boot, SaveSettings, Reread
    <2> QED  BY <2>1, <2>2
<1>3. CASE UNCHANGED vars
    BY <1>3 DEF vars
<1> QED  BY <1>1, <1>2, <1>3, ArriveRefines DEF Next, Registry!Next

(* The Core implements its contract: whatever requests, faults and         *)
(* replicas do, a request takes effect at most once and as it asked, names *)
(* are unique, an event is announced with its widget, and every definite   *)
(* answer was true between the request and the answer.                     *)
THEOREM CoreImplementsRegistry == Spec => ImplementsRegistry
<1>1. Init => Registry!Init
    BY DEF Init, Registry!Init, Heard, Understood
<1> QED  BY <1>1, RegistryStep, Invariance, PTL DEF Spec, Registry!Spec, ImplementsRegistry

(* A deleted widget stays deleted: no step of the contract gives a row     *)
(* back to an identifier that had one.                                     *)
THEOREM DeletedIsGone == Spec => DeletedStaysGone
<1>1. IInv /\ [Next]_vars => [\A r \in Born : rows[r] = NoRow => rows'[r] = NoRow]_vars
    <2> SUFFICES ASSUME IInv, [Next]_vars, NEW r \in Born, rows[r] = NoRow
                 PROVE  rows'[r] = NoRow
        OBVIOUS
    <2>1. /\ rows \in [Requests -> Row \cup {NoRow}]
          /\ r \in Requests /\ r \in applied
        BY DEF IInv, TypeOK, Born
    <2>2. CASE UNCHANGED Registry!vars
        BY <2>2 DEF Registry!vars
    <2>3. ASSUME NEW q \in Requests, Registry!Serve(q) PROVE rows'[r] = NoRow
        BY <2>1, <2>3 DEF Registry!Serve, Registry!Add, Registry!Change, Registry!Remove,
           Registry!Effect, Registry!Confirm, Registry!Miss, Registry!Collide
    <2>4. CASE Registry!Next
        BY <2>3, <2>4 DEF Registry!Next, Registry!Ask, Registry!Lose
    <2> QED  BY <2>2, <2>4, RegistryStep
<1> QED  BY <1>1, Invariance, PTL DEF Spec, DeletedStaysGone

(* An update leaves the fields it was not given alone, unless another      *)
(* write of its row came between its read and its write.                   *)
THEOREM OnlyRacesUndoChanges == Spec => OnlyRacesUndo
<1>1. IInv /\ [Next]_vars =>
          [\A r \in (applied' \ applied) \ raced : call[r].op = "update" => KeepsNil(r)]_vars
    <2> SUFFICES ASSUME IInv, Next, NEW r \in (applied' \ applied) \ raced,
                        call[r].op = "update"
                 PROVE  KeepsNil(r)
        OBVIOUS
    <2> USE DEF IInv, TypeOK, RequestInv, InTx, InFlight
    <2>1. PICK o \in Requests : Arrive(o) \/ Handle(o)
        BY DEF Next, Operate, Crash, Boot, SaveSettings, Reread
    <2>2. /\ \/ Commit(o) \/ CommitUnknown(o) \/ WriteRow(o) \/ WriteUnknown(o)
             \/ RemoveRow(o) \/ RemoveUnknown(o)
          /\ r = o
        BY <2>1 DEF Arrive, Accept, Refuse, Handle, Proceed, Falter,
           InsertRow, InsertDuplicate, ScheduleEvent,
           Commit, CommitUnknown, Rerun, Notify, PublishAudit, ReadRow, WriteRow, WriteUnknown,
           WriteDuplicate, RemoveRow, RemoveUnknown, Missing, StoreFails, Land, Overwrite,
           Erase, Write
    <2>3. CASE Commit(o) \/ CommitUnknown(o)
        BY <2>2, <2>3 DEF Commit, CommitUnknown
    <2>4. CASE RemoveRow(o) \/ RemoveUnknown(o)
        BY <2>2, <2>4 DEF RemoveRow, RemoveUnknown, Erase
    <2>5. CASE WriteRow(o) \/ WriteUnknown(o)
        <3>1. Overwrite(r)
            BY <2>2, <2>5 DEF WriteRow, WriteUnknown
        <3>2. w[r] = Merged(call[r], rows[call[r].id]) /\ call[r].id \in Requests
            BY <2>2, <3>1 DEF Overwrite, MergeInv, Calls
        <3>3. rows'[call[r].id] = w[r]
            BY <3>1, <3>2 DEF Overwrite, Write
        <3> QED  BY <3>2, <3>3 DEF KeepsNil, Merged, Given
    <2> QED  BY <2>2, <2>3, <2>4, <2>5
<1> QED  BY <1>1, Invariance, PTL DEF Spec, OnlyRacesUndo

(* A request in flight has boundedly many steps, whatever the others do:   *)
(* each of its own leaves it fewer, and none of another's gives it more.   *)
THEOREM HandlersRunDown == Spec => HandlersEnd
<1>1. IInv /\ [Next]_vars => [Nearer]_vars
    <2> SUFFICES ASSUME IInv, Next, NEW q \in Requests, phase[q] \in InFlight
                 PROVE  Still(q) \/ StepsLeft(q)' \in 0 .. (StepsLeft(q) - 1)
        BY DEF Nearer
    <2> USE DEF IInv, TypeOK, RequestInv, InTx, InFlight, Still
    <2>0. /\ MaxReruns \in Nat /\ runs[q] \in Nat /\ runs[q] <= MaxReruns
          /\ StepsLeft(q) = Left[phase[q]] + 3 * (MaxReruns - runs[q])
          /\ StepsLeft(q) \in Nat \ {0}
        BY CoreAssumption DEF StepsLeft, Left
    <2>1. CASE phase'[q] = "done"
        BY <2>0, <2>1 DEF StepsLeft
    <2>2. ASSUME NEW r \in Requests, r # q, Arrive(r) \/ Handle(r) PROVE Still(q)
        BY <2>2 DEF Arrive, Accept, Refuse, Handle, Proceed, Falter,
           InsertRow, InsertDuplicate, ScheduleEvent,
           Commit, CommitUnknown, Rerun, Notify, PublishAudit, ReadRow, WriteRow, WriteUnknown,
           WriteDuplicate, RemoveRow, RemoveUnknown, Missing, StoreFails, Goto, Finish
    <2>3. ~Arrive(q)
        BY DEF Arrive, Accept, Refuse
    <2>4. CASE Handle(q) /\ phase'[q] # "done"
        <3>1. CASE Rerun(q)
            <4>1. /\ phase[q] \in InTx /\ phase'[q] = "insert"
                  /\ runs'[q] = runs[q] + 1 /\ runs[q] < MaxReruns
                BY <3>1 DEF Rerun, Goto
            <4>2. Left[phase[q]] \in 3 .. 5
                BY <4>1 DEF Left
            <4>3. StepsLeft(q)' = 5 + 3 * (MaxReruns - (runs[q] + 1))
                BY <4>1 DEF StepsLeft, Left
            <4> QED  BY <2>0, <4>1, <4>2, <4>3
        <3>2. CASE ~Rerun(q)
            <4>1. /\ runs'[q] = runs[q]
                  /\ \/ phase[q] = "insert" /\ phase'[q] = "schedule"
                     \/ phase[q] = "schedule" /\ phase'[q] = "commit"
                     \/ phase[q] = "commit" /\ phase'[q] = "notify"
                     \/ phase[q] = "notify" /\ phase'[q] = "audit"
                     \/ phase[q] = "read" /\ phase'[q] = "write"
                     \/ phase[q] = "write" /\ phase'[q] = "audit"
                BY <2>4, <3>2 DEF Handle, Proceed, Falter,
                   InsertRow, InsertDuplicate, ScheduleEvent,
                   Commit, CommitUnknown, Notify, PublishAudit, ReadRow, WriteRow, WriteUnknown,
                   Overwrite, WriteDuplicate, RemoveRow, RemoveUnknown, Missing, StoreFails,
                   Goto, Finish
            <4>2. Left[phase'[q]] \in 1 .. (Left[phase[q]] - 1) /\ phase'[q] \in InFlight
                BY <4>1 DEF Left
            <4>3. StepsLeft(q)' = Left[phase'[q]] + 3 * (MaxReruns - runs[q])
                BY <4>1, <4>2 DEF StepsLeft
            <4>4. Left[phase[q]] \in Nat
                BY DEF Left
            <4> QED  BY <2>0, <4>2, <4>3, <4>4
        <3> QED  BY <3>1, <3>2
    <2>5. ASSUME NEW p \in Replicas, Operate(p) PROVE Still(q) \/ phase'[q] = "done"
        <3>1. CASE Crash(p)  BY <3>1 DEF Crash
        <3>2. CASE ~Crash(p)  BY <2>5, <3>2 DEF Operate, Boot, SaveSettings, Reread
        <3> QED  BY <3>1, <3>2
    <2> QED  BY <2>1, <2>2, <2>3, <2>4, <2>5 DEF Next
<1> QED  BY <1>1, Invariance, PTL DEF Spec, HandlersEnd

(* A pause that every replica has seen holds until an admin lifts it:      *)
(* restarts and rereads take the stored settings, and no request is        *)
(* accepted.                                                               *)
THEOREM PauseIsKept == Spec => PauseHolds
<1>1. IInv /\ [Next]_vars => [Quiet /\ stored' => Quiet' /\ UNCHANGED rows]_vars
    <2> SUFFICES ASSUME IInv, Next, Quiet, stored' PROVE Quiet' /\ UNCHANGED rows
        BY DEF vars
    <2> USE DEF IInv, TypeOK, Quiet
    <2>1. ASSUME NEW r \in Requests, Arrive(r) PROVE Quiet' /\ UNCHANGED rows
        BY <2>1 DEF Arrive, Accept, Refuse, Writable
    <2>2. ASSUME NEW r \in Requests PROVE ~Handle(r)
        BY DEF Handle, Proceed, Falter,
           InsertRow, InsertDuplicate, ScheduleEvent, Commit, CommitUnknown, Rerun,
           Notify, PublishAudit, ReadRow, WriteRow, WriteUnknown, Overwrite, WriteDuplicate,
           RemoveRow, RemoveUnknown, Erase, Missing, StoreFails, InTx
    <2>3. ASSUME NEW p \in Replicas, Operate(p) PROVE Quiet' /\ UNCHANGED rows
        <3>1. CASE Crash(p)  BY <3>1 DEF Crash, InFlight, InTx
        <3>2. CASE Boot(p)  BY <3>2 DEF Boot
        <3>3. CASE Reread(p)  BY <3>3 DEF Reread
        <3>4. CASE \E readOnly \in BOOLEAN : SaveSettings(p, readOnly)
            BY <3>4 DEF SaveSettings
        <3> QED  BY <2>3, <3>1, <3>2, <3>3, <3>4 DEF Operate
    <2> QED  BY <2>1, <2>2, <2>3 DEF Next
<1> QED  BY <1>1, Invariance, PTL DEF Spec, PauseHolds
=============================================================================
