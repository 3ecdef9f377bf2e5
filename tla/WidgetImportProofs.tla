------------------------- MODULE WidgetImportProofs -------------------------
(***************************************************************************)
(* What a completed, a repeated and a given up import leaves in the table, *)
(* for any numbers of tasks, workers, rows, statements and runs.           *)
(***************************************************************************)
EXTENDS WidgetImport, FiniteSetTheorems, TLAPS

USE DEF queue, worker, history

(* The identifiers of a batch. *)
LEMMA Identifiers ==
    /\ \A t \in Tasks, i \in 1 .. MaxImport : <<t, i>> \in Ids /\ <<t, i>> \notin Created
    /\ Created \subseteq Ids
BY ImportAssumption DEF Ids, Imported

(* A payload has rows 1 to n. *)
LEMMA Payload ==
    ASSUME NEW b \in Batch
    PROVE  \E n \in 1 .. MaxImport : DOMAIN b = 1 .. n /\ b \in [1 .. n -> Names]
BY DEF Batch

(* What a worker runs is a task with a payload, whose next rows it sends. *)
LEMMA Running ==
    ASSUME IInv, NEW wk \in Workers, job[wk] # None
    PROVE  /\ job[wk] \in Tasks
           /\ batch[job[wk]] \in Batch
           /\ sent[wk] \in Nat
           /\ \E n \in 1 .. MaxImport :
                /\ DOMAIN batch[job[wk]] = 1 .. n
                /\ \A i \in 1 .. n : batch[job[wk]][i] \in Names
                /\ Part(wk) = {i \in 1 .. n : sent[wk] < i /\ i <= sent[wk] + Statement}
<1>1. job[wk] \in Tasks /\ sent[wk] \in Nat
    BY DEF IInv, TypeOK
<1>2. batch[job[wk]] \in Batch
    BY <1>1 DEF IInv, WorkerInv, TaskInv
<1>3. PICK n \in 1 .. MaxImport :
        DOMAIN batch[job[wk]] = 1 .. n /\ batch[job[wk]] \in [1 .. n -> Names]
    BY <1>2, Payload
<1>4. \A i \in 1 .. n : batch[job[wk]][i] \in Names
    BY <1>3
<1> QED  BY <1>1, <1>2, <1>3, <1>4 DEF Part

(* The rows of a statement that are not there yet. *)
LEMMA FreshRows ==
    ASSUME IInv, NEW wk \in Workers, job[wk] # None
    PROVE  /\ \A id \in Fresh(wk) : id \in Ids /\ table[id] = None
           /\ \A id \in Fresh(wk) : id[1] = job[wk] /\ id[2] \in Part(wk) /\ id = <<job[wk], id[2]>>
           /\ \A i \in Part(wk) : <<job[wk], i>> \in Fresh(wk) \/ table[<<job[wk], i>>] # None
           /\ \A i \in Part(wk) : i \in 1 .. MaxImport /\ <<job[wk], i>> \in Ids
           /\ \A id \in Fresh(wk) : batch[job[wk]][id[2]] \in Names
<1>1. PICK n \in 1 .. MaxImport :
        /\ \A i \in 1 .. n : batch[job[wk]][i] \in Names
        /\ Part(wk) = {i \in 1 .. n : sent[wk] < i /\ i <= sent[wk] + Statement}
    BY Running
<1>2. \A i \in Part(wk) : i \in 1 .. MaxImport /\ batch[job[wk]][i] \in Names
    BY <1>1, ImportAssumption
<1>3. job[wk] \in Tasks
    BY Running
<1>4. ASSUME NEW id \in Fresh(wk)
      PROVE  \E i \in Part(wk) : id = <<job[wk], i>> /\ table[id] = None
    BY DEF Fresh, Row
<1>5. ASSUME NEW i \in Part(wk), table[<<job[wk], i>>] = None PROVE <<job[wk], i>> \in Fresh(wk)
    BY <1>5 DEF Fresh, Row
<1> QED  BY <1>2, <1>3, <1>4, <1>5, Identifiers

(* A row that is there was inserted, once more than it was deleted. *)
LEMMA There ==
    ASSUME TypeOK, RowInv, NEW id \in Ids, table[id] # None
    PROVE  inserted[id] \in Nat /\ inserted[id] > 0
<1>1. inserted[id] = deleted[id] + 1 /\ deleted[id] \in Nat
    BY DEF TypeOK, RowInv
<1> QED  BY <1>1

(* What has not been inserted is not there. *)
LEMMA NeverThere ==
    ASSUME TypeOK, RowInv, NEW id \in Ids, inserted[id] = 0
    PROVE  table[id] = None /\ deleted[id] = 0
<1>1. table[id] = None
    BY There
<1>2. deleted[id] \in Nat /\ 0 = deleted[id] + 0
    BY <1>1 DEF TypeOK, RowInv
<1> QED  BY <1>1, <1>2

(* The initial state satisfies the invariant. *)
LEMMA InitInv == Init => IInv
<1> SUFFICES ASSUME Init PROVE IInv
    OBVIOUS
<1>1. TypeOK
    <2>1. table \in [Ids -> Names \cup {None}] /\ renamed \in [Ids -> Names \cup {None}]
        BY DEF Init
    <2>2. /\ inserted \in [Ids -> Nat] /\ deleted \in [Ids -> Nat]
          /\ sent \in [Workers -> Nat] /\ runs \in [Tasks -> 0 .. MaxRuns]
        BY ImportAssumption DEF Init
    <2>3. batch \in [Tasks -> Batch \cup {<<>>}]
        BY DEF Init
    <2>4. settings \in [readOnly : BOOLEAN, limit : 1 .. MaxImport]
        BY ImportAssumption DEF Init
    <2> QED  BY <2>1, <2>2, <2>3, <2>4 DEF Init, TypeOK
<1>2. RunsInv
    <2> SUFFICES ASSUME NEW t \in Tasks, NEW i \in 1 .. MaxImport
                 PROVE  inserted[<<t, i>>] + Cardinality(Owing(t, i)) <= runs[t]
        BY DEF RunsInv
    <2>1. Owing(t, i) = {}
        BY ImportAssumption DEF Init, Owing
    <2> QED  BY <2>1, FS_EmptySet, Identifiers DEF Init
<1>3. TaskInv /\ WorkerInv /\ RowInv
    BY DEF Init, TaskInv, WorkerInv, RowInv
<1>4. RenameStands /\ DoneIsImported /\ Whole
    BY DEF Init, RenameStands, DoneIsImported, Whole
<1> QED  BY <1>1, <1>2, <1>3, <1>4 DEF IInv

(* A task that is in the queue keeps its payload. *)
LEMMA TasksStay ==
    ASSUME IInv, [Next]_vars
    PROVE  \A t \in Tasks : task[t] # "unborn" => task'[t] # "unborn" /\ batch'[t] = batch[t]
<1>0. TypeOK
    BY DEF IInv
<1>1. CASE Serve
    BY <1>0, <1>1 DEF TypeOK, Serve, Create, Rename, Delete, SaveSettings, Schedule
<1>2. ASSUME NEW wk \in Workers, NEW t \in Tasks, Claim(wk, t) PROVE UNCHANGED <<task, batch>>
    BY <1>2 DEF Claim
<1>3. ASSUME NEW wk \in Workers, Handle(wk)
      PROVE  /\ batch' = batch
             /\ \A t \in Tasks : task[t] # "unborn" => task'[t] # "unborn"
    BY <1>0, <1>3 DEF TypeOK, Handle, InsertRows, Complete, Fail, Report
<1>4. ASSUME NEW wk \in Workers, Crash(wk) PROVE UNCHANGED <<task, batch>>
    BY <1>4 DEF Crash
<1>5. ASSUME NEW t \in Tasks, Lapse(t) PROVE UNCHANGED <<task, batch>>
    BY <1>5 DEF Lapse
<1>7. ASSUME NEW t \in Tasks, GiveUp(t)
      PROVE  batch' = batch /\ \A u \in Tasks : task[u] # "unborn" => task'[u] # "unborn"
    BY <1>0, <1>7 DEF TypeOK, GiveUp
<1>6. CASE UNCHANGED vars
    BY <1>6 DEF vars
<1> QED  BY <1>1, <1>2, <1>3, <1>4, <1>5, <1>6, <1>7 DEF Next

(* What was inserted stays inserted in the history. *)
LEMMA InsertedGrows ==
    ASSUME IInv, [Next]_vars
    PROVE  \A id \in Ids : inserted'[id] >= inserted[id]
<1>0. TypeOK
    BY DEF IInv
<1>1. ASSUME NEW id \in Created, NEW n \in Names, Create(id, n)
      PROVE  \A x \in Ids : inserted'[x] >= inserted[x]
    BY <1>0, <1>1, Identifiers DEF TypeOK, Create
<1>2. ASSUME NEW wk \in Workers, InsertRows(wk) PROVE \A x \in Ids : inserted'[x] >= inserted[x]
    BY <1>0, <1>2 DEF TypeOK, InsertRows
<1>3. CASE UNCHANGED inserted
    BY <1>0, <1>3 DEF TypeOK
<1>4. ASSUME NEW n \in Names, NEW id \in Ids, Rename(id, n) PROVE UNCHANGED inserted
    BY <1>4 DEF Rename
<1>5. ASSUME NEW id \in Ids, Delete(id) PROVE UNCHANGED inserted
    BY <1>5 DEF Delete
<1>6. ASSUME NEW b \in BOOLEAN, NEW l \in 1 .. MaxImport, SaveSettings(b, l) PROVE UNCHANGED inserted
    BY <1>6 DEF SaveSettings
<1>7. ASSUME NEW t \in Tasks, NEW k \in Keys \cup {NoKey}, NEW b \in Batch, Schedule(t, k, b)
      PROVE  UNCHANGED inserted
    BY <1>7 DEF Schedule
<1>8. ASSUME NEW wk \in Workers, NEW t \in Tasks, Claim(wk, t) PROVE UNCHANGED inserted
    BY <1>8 DEF Claim
<1>9. ASSUME NEW wk \in Workers, Complete(wk) \/ Fail(wk) \/ Crash(wk) PROVE UNCHANGED inserted
    BY <1>9 DEF Complete, Fail, Crash
<1>10. ASSUME NEW t \in Tasks, Lapse(t) \/ GiveUp(t) PROVE UNCHANGED inserted
    BY <1>10 DEF Lapse, GiveUp
<1>11. CASE UNCHANGED vars
    BY <1>11, <1>3 DEF vars
<1>12. CASE Serve
    BY <1>1, <1>3, <1>4, <1>5, <1>6, <1>7, <1>12 DEF Serve
<1> QED  BY <1>2, <1>3, <1>8, <1>9, <1>10, <1>11, <1>12 DEF Next, Handle

(* A report changes the task of the worker, if it holds the lease. *)
LEMMA Reported ==
    ASSUME TypeOK, NEW wk \in Workers, NEW status, Report(wk, status), job[wk] \in Tasks
    PROVE  IF owner[job[wk]] = wk
           THEN /\ task[job[wk]] = "queued"
                /\ task' = [task EXCEPT ![job[wk]] = status]
                /\ owner' = [owner EXCEPT ![job[wk]] = None]
           ELSE UNCHANGED <<task, owner>>
<1>1. owner[job[wk]] = wk => task[job[wk]] = "queued"
    BY ImportAssumption DEF TypeOK
<1> QED  BY <1>1 DEF Report

(* Every step keeps the types, and a lease with the worker that runs it. *)
LEMMA TypeStep == ASSUME IInv, [Next]_vars PROVE TypeOK'
<1>0. TypeOK
    BY DEF IInv
<1>1. ASSUME NEW id \in Created, NEW n \in Names, Create(id, n) PROVE TypeOK'
    BY <1>0, <1>1, Identifiers DEF TypeOK, Create
<1>2. ASSUME NEW id \in Ids, NEW n \in Names, Rename(id, n) PROVE TypeOK'
    BY <1>0, <1>2 DEF TypeOK, Rename
<1>3. ASSUME NEW id \in Ids, Delete(id) PROVE TypeOK'
    BY <1>0, <1>3 DEF TypeOK, Delete
<1>4. ASSUME NEW b \in BOOLEAN, NEW l \in 1 .. MaxImport, SaveSettings(b, l) PROVE TypeOK'
    BY <1>0, <1>4 DEF TypeOK, SaveSettings
<1>5. ASSUME NEW t \in Tasks, NEW k \in Keys \cup {NoKey}, NEW b \in Batch, Schedule(t, k, b)
      PROVE  TypeOK'
    BY <1>0, <1>5 DEF TypeOK, Schedule
<1>6. ASSUME NEW wk \in Workers, NEW t \in Tasks, Claim(wk, t) PROVE TypeOK'
    <2>1. runs[t] + 1 \in 0 .. MaxRuns
        BY <1>0, <1>6, ImportAssumption DEF TypeOK, Claim
    <2>2. \A u \in Tasks : owner'[u] # None => task'[u] = "queued" /\ job'[owner'[u]] = u
        BY <1>0, <1>6, ImportAssumption DEF TypeOK, Claim
    <2> QED  BY <1>0, <1>6, <2>1, <2>2 DEF TypeOK, Claim
<1>7. ASSUME NEW wk \in Workers, InsertRows(wk) PROVE TypeOK'
    <2>1. table' \in [Ids -> Names \cup {None}]
        BY <1>0, <1>7, FreshRows DEF TypeOK, InsertRows
    <2>2. inserted' \in [Ids -> Nat] /\ sent' \in [Workers -> Nat]
        BY <1>0, <1>7, ImportAssumption DEF TypeOK, InsertRows
    <2> QED  BY <1>0, <1>7, <2>1, <2>2 DEF TypeOK, InsertRows
<1>8. ASSUME NEW wk \in Workers, Complete(wk) \/ Fail(wk) PROVE TypeOK'
    <2>1. job[wk] \in Tasks
        BY <1>0, <1>8 DEF TypeOK, Complete, Fail
    <2>2. PICK status : status \in {"queued", "done", "dead"} /\ Report(wk, status)
        BY <1>8 DEF Complete, Fail
    <2>3. /\ Free(wk)
          /\ UNCHANGED <<table, key, batch, runs, settings, history>>
        BY <1>8 DEF Complete, Fail
    <2>4. job' \in [Workers -> Tasks \cup {None}] /\ sent' \in [Workers -> Nat]
        BY <1>0, <2>3 DEF TypeOK, Free
    <2>5. /\ task' \in [Tasks -> {"unborn", "queued", "done", "dead"}]
          /\ owner' \in [Tasks -> Workers \cup {None}]
        <3>1. CASE owner[job[wk]] = wk
            <4>1. /\ task' = [task EXCEPT ![job[wk]] = status]
                  /\ owner' = [owner EXCEPT ![job[wk]] = None]
                BY <1>0, <2>1, <2>2, <3>1, Reported
            <4>2. /\ task \in [Tasks -> {"unborn", "queued", "done", "dead"}]
                  /\ owner \in [Tasks -> Workers \cup {None}]
                BY <1>0 DEF TypeOK
            <4> QED  BY <2>1, <2>2, <4>1, <4>2
        <3>2. CASE owner[job[wk]] # wk
            BY <1>0, <2>1, <2>2, <3>2, Reported DEF TypeOK
        <3> QED  BY <3>1, <3>2
    <2>6. ASSUME NEW u \in Tasks, owner'[u] # None
          PROVE  task'[u] = "queued" /\ job'[owner'[u]] = u
        <3>1. owner'[u] = owner[u] /\ owner[u] # wk /\ task'[u] = task[u]
            BY <1>0, <2>1, <2>2, <2>6 DEF TypeOK, Report
        <3>2. owner[u] \in Workers /\ task[u] = "queued" /\ job[owner[u]] = u
            BY <1>0, <2>6, <3>1 DEF TypeOK
        <3>3. job'[owner[u]] = job[owner[u]]
            BY <1>0, <2>3, <3>1, <3>2 DEF TypeOK, Free
        <3> QED  BY <3>1, <3>2, <3>3
    <2> QED  BY <1>0, <2>3, <2>4, <2>5, <2>6 DEF TypeOK
<1>9. ASSUME NEW wk \in Workers, Crash(wk) PROVE TypeOK'
    <2>1. job[wk] \in Tasks
        BY <1>0, <1>9 DEF TypeOK, Crash
    <2>2. ASSUME NEW u \in Tasks, owner'[u] # None
          PROVE  task'[u] = "queued" /\ job'[owner'[u]] = u
        <3>1. owner'[u] = owner[u] /\ owner[u] # wk
            BY <1>0, <1>9, <2>1, <2>2 DEF TypeOK, Crash
        <3> QED  BY <1>0, <1>9, <2>2, <3>1 DEF TypeOK, Crash, Free
    <2> QED  BY <1>0, <1>9, <2>1, <2>2 DEF TypeOK, Crash, Free
<1>10. ASSUME NEW t \in Tasks, Lapse(t) \/ GiveUp(t) PROVE TypeOK'
    BY <1>0, <1>10 DEF TypeOK, Lapse, GiveUp
<1>11. CASE UNCHANGED vars
    BY <1>0, <1>11 DEF TypeOK, vars
<1>12. CASE Serve
    BY <1>1, <1>2, <1>3, <1>4, <1>5, <1>12 DEF Serve
<1> QED  BY <1>6, <1>7, <1>8, <1>9, <1>10, <1>11, <1>12 DEF Next, Handle

(* Workers are few: what they owe can be counted. *)
LEMMA OwingCounts ==
    ASSUME NEW t \in Tasks, NEW i \in 1 .. MaxImport
    PROVE  IsFiniteSet(Owing(t, i)) /\ Cardinality(Owing(t, i)) \in Nat
BY FS_Subset, FS_CardinalityType, ImportAssumption DEF Owing

LEMMA OwingShrinks ==
    ASSUME NEW t \in Tasks, NEW i \in 1 .. MaxImport, Owing(t, i)' \subseteq Owing(t, i)
    PROVE  /\ Cardinality(Owing(t, i)') <= Cardinality(Owing(t, i))
           /\ Cardinality(Owing(t, i)') \in Nat
<1>1. IsFiniteSet(Owing(t, i))
    BY OwingCounts
<1> QED  BY <1>1, FS_Subset, FS_CardinalityType

(* Every step but a claim keeps the count of the runs; a claim adds a run  *)
(* that owes its rows, an insertion is what the run no longer owes.        *)
LEMMA RunsStep == ASSUME IInv, [Next]_vars PROVE RunsInv'
<1>0. TypeOK /\ RunsInv /\ WorkerInv
    BY DEF IInv
<1> SUFFICES ASSUME NEW t \in Tasks, NEW i \in 1 .. MaxImport
             PROVE  (inserted[<<t, i>>] + Cardinality(Owing(t, i)) <= runs[t])'
    BY DEF RunsInv
<1> DEFINE id == <<t, i>>
<1>a. id \in Ids /\ id \notin Created
    BY Identifiers
<1>b. /\ inserted[id] \in Nat /\ runs[t] \in Nat
      /\ inserted[id] + Cardinality(Owing(t, i)) <= runs[t]
      /\ IsFiniteSet(Owing(t, i)) /\ Cardinality(Owing(t, i)) \in Nat
    BY <1>0, <1>a, OwingCounts, ImportAssumption DEF TypeOK, RunsInv
<1>c. ASSUME inserted'[id] = inserted[id], runs'[t] = runs[t], Owing(t, i)' \subseteq Owing(t, i)
      PROVE  (inserted[id] + Cardinality(Owing(t, i)) <= runs[t])'
    <2>1. Cardinality(Owing(t, i)') <= Cardinality(Owing(t, i)) /\ Cardinality(Owing(t, i)') \in Nat
        BY <1>c, OwingShrinks
    <2> QED  BY <1>b, <1>c, <2>1
<1>1. CASE Serve
    <2>1. inserted'[id] = inserted[id]
        BY <1>0, <1>1, <1>a DEF TypeOK, Serve, Create, Rename, Delete, SaveSettings, Schedule
    <2>2. UNCHANGED <<job, sent, runs>>
        BY <1>1 DEF Serve, Create, Rename, Delete, SaveSettings, Schedule
    <2> QED  BY <1>c, <2>1, <2>2 DEF Owing
<1>2. ASSUME NEW wk \in Workers, NEW u \in Tasks, Claim(wk, u)
      PROVE  (inserted[id] + Cardinality(Owing(t, i)) <= runs[t])'
    <2>1. CASE u # t
        <3>1. Owing(t, i)' \subseteq Owing(t, i)
            BY <1>0, <1>2, <2>1 DEF TypeOK, Claim, Owing
        <3> QED  BY <1>0, <1>2, <1>c, <2>1, <3>1 DEF TypeOK, Claim
    <2>2. CASE u = t
        <3>1. Owing(t, i)' = Owing(t, i) \cup {wk} /\ wk \notin Owing(t, i)
            BY <1>0, <1>2, <2>2, ImportAssumption DEF TypeOK, WorkerInv, Claim, Owing
        <3>2. Cardinality(Owing(t, i)') = Cardinality(Owing(t, i)) + 1
            BY <1>b, <3>1, FS_AddElement
        <3>3. runs'[t] = runs[t] + 1 /\ inserted' = inserted
            BY <1>0, <1>2, <2>2 DEF TypeOK, Claim
        <3> QED  BY <1>b, <3>2, <3>3
    <2> QED  BY <2>1, <2>2
<1>3. ASSUME NEW wk \in Workers, InsertRows(wk)
      PROVE  (inserted[id] + Cardinality(Owing(t, i)) <= runs[t])'
    <2>0. job[wk] # None
        BY <1>3 DEF InsertRows
    <2>1. Owing(t, i)' \subseteq Owing(t, i)
        BY <1>0, <1>3, ImportAssumption DEF TypeOK, InsertRows, Owing
    <2>2. CASE id \notin Fresh(wk)
        BY <1>3, <1>a, <1>c, <2>1, <2>2 DEF InsertRows
    <2>3. CASE id \in Fresh(wk)
        <3>1. t = job[wk] /\ i \in Part(wk)
            BY <2>0, <2>3, FreshRows
        <3>2. sent[wk] < i /\ i <= sent[wk] + Statement
            BY <3>1 DEF Part
        <3>3. wk \in Owing(t, i) /\ Owing(t, i)' = Owing(t, i) \ {wk}
            BY <1>0, <1>3, <3>1, <3>2, ImportAssumption DEF TypeOK, InsertRows, Owing
        <3>4. Cardinality(Owing(t, i)') = Cardinality(Owing(t, i)) - 1
            BY <1>b, <3>3, FS_RemoveElement
        <3>5. inserted'[id] = inserted[id] + 1 /\ runs'[t] = runs[t]
            BY <1>3, <1>a, <2>3 DEF InsertRows
        <3> QED  BY <1>b, <3>4, <3>5
    <2> QED  BY <2>2, <2>3
<1>4. ASSUME NEW wk \in Workers, Complete(wk) \/ Fail(wk) \/ Crash(wk)
      PROVE  (inserted[id] + Cardinality(Owing(t, i)) <= runs[t])'
    <2>1. Free(wk) /\ UNCHANGED <<inserted, runs>>
        BY <1>4 DEF Complete, Fail, Crash
    <2>2. Owing(t, i)' \subseteq Owing(t, i)
        BY <1>0, <2>1, ImportAssumption DEF TypeOK, Free, Owing
    <2> QED  BY <1>c, <2>1, <2>2
<1>5. ASSUME NEW u \in Tasks, Lapse(u) \/ GiveUp(u)
      PROVE  (inserted[id] + Cardinality(Owing(t, i)) <= runs[t])'
    BY <1>5, <1>c DEF Lapse, GiveUp, Owing
<1>6. CASE UNCHANGED vars
    BY <1>6, <1>c DEF vars, Owing
<1> QED  BY <1>1, <1>2, <1>3, <1>4, <1>5, <1>6 DEF Next, Handle

(* A task has a payload as soon as it is in the queue. *)
LEMMA TaskStep == ASSUME IInv, [Next]_vars PROVE TaskInv'
<1>0. TypeOK /\ TaskInv
    BY DEF IInv
<1>1. ASSUME NEW t \in Tasks, NEW k \in Keys \cup {NoKey}, NEW b \in Batch, Schedule(t, k, b)
      PROVE  TaskInv'
    BY <1>0, <1>1 DEF TypeOK, TaskInv, Schedule
<1>2. CASE UNCHANGED <<task, batch, runs>>
    BY <1>0, <1>2 DEF TaskInv
<1>3. CASE Serve
    BY <1>1, <1>2, <1>3 DEF Serve, Create, Rename, Delete, SaveSettings
<1>4. ASSUME NEW wk \in Workers, NEW t \in Tasks, Claim(wk, t) PROVE TaskInv'
    BY <1>0, <1>4 DEF TypeOK, TaskInv, Claim
<1>5. ASSUME NEW wk \in Workers, Complete(wk) \/ Fail(wk) PROVE TaskInv'
    <2>1. job[wk] \in Tasks /\ UNCHANGED <<batch, runs>>
        BY <1>0, <1>5 DEF TypeOK, Complete, Fail
    <2>2. \A t \in Tasks : task'[t] = task[t] \/ (task[t] = "queued" /\ task'[t] # "unborn")
        <3>1. CASE owner[job[wk]] = wk
            <4>1. PICK status : status \in {"queued", "done", "dead"} /\ Report(wk, status)
                BY <1>5 DEF Complete, Fail
            <4>2. /\ task[job[wk]] = "queued"
                  /\ task' = [task EXCEPT ![job[wk]] = status]
                BY <1>0, <2>1, <3>1, <4>1, Reported
            <4>3. task \in [Tasks -> {"unborn", "queued", "done", "dead"}]
                BY <1>0 DEF TypeOK
            <4> QED  BY <2>1, <4>1, <4>2, <4>3
        <3>2. CASE owner[job[wk]] # wk
            <4>1. PICK status : Report(wk, status)
                BY <1>5 DEF Complete, Fail
            <4>2. task' = task
                BY <1>0, <2>1, <3>2, <4>1, Reported
            <4> QED  BY <4>2
        <3> QED  BY <3>1, <3>2
    <2> QED  BY <1>0, <2>1, <2>2 DEF TaskInv
<1>6. ASSUME NEW wk \in Workers, InsertRows(wk) \/ Crash(wk) PROVE TaskInv'
    BY <1>2, <1>6 DEF InsertRows, Crash
<1>7. ASSUME NEW t \in Tasks, Lapse(t) PROVE TaskInv'
    BY <1>2, <1>7 DEF Lapse
<1>9. ASSUME NEW t \in Tasks, GiveUp(t) PROVE TaskInv'
    BY <1>0, <1>9 DEF TypeOK, TaskInv, GiveUp
<1>8. CASE UNCHANGED vars
    BY <1>2, <1>8 DEF vars
<1> QED  BY <1>3, <1>4, <1>5, <1>6, <1>7, <1>8, <1>9 DEF Next, Handle

(* A row that was there, or is inserted, was inserted. *)
LEMMA Landing ==
    ASSUME IInv, [Next]_vars, NEW wk \in Workers, InsertRows(wk), NEW i \in Part(wk)
    PROVE  inserted'[<<job[wk], i>>] > 0
<1>0. TypeOK /\ RowInv /\ job[wk] # None
    BY DEF IInv, InsertRows
<1>1. <<job[wk], i>> \in Ids
    BY <1>0, FreshRows
<1>2. CASE <<job[wk], i>> \in Fresh(wk)
    BY <1>0, <1>1, <1>2 DEF TypeOK, InsertRows
<1>3. CASE table[<<job[wk], i>>] # None
    <2>1. inserted[<<job[wk], i>>] > 0
        BY <1>0, <1>1, <1>3, There
    <2>2. inserted'[<<job[wk], i>>] \in Nat /\ inserted[<<job[wk], i>>] \in Nat
        BY <1>0, <1>1, TypeStep DEF TypeOK
    <2> QED  BY <1>1, <2>1, <2>2, InsertedGrows
<1> QED  BY <1>0, <1>2, <1>3, FreshRows

(* What a worker has sent was inserted, and stays so in the history. *)
LEMMA WorkerStep == ASSUME IInv, [Next]_vars PROVE WorkerInv'
<1>0. TypeOK /\ WorkerInv
    BY DEF IInv
<1> SUFFICES ASSUME NEW wk \in Workers
             PROVE  /\ (sent[wk] = 0 \/ sent[wk] >= Statement)'
                    /\ (job[wk] = None => sent[wk] = 0)'
                    /\ (job[wk] # None =>
                           /\ task[job[wk]] # "unborn"
                           /\ \A i \in DOMAIN batch[job[wk]] :
                                 i <= sent[wk] => inserted[<<job[wk], i>>] > 0)'
    BY DEF WorkerInv
<1> DEFINE Goal == /\ sent'[wk] = 0 \/ sent'[wk] >= Statement
                   /\ job'[wk] = None => sent'[wk] = 0
                   /\ job'[wk] # None =>
                         /\ task'[job'[wk]] # "unborn"
                         /\ \A i \in DOMAIN batch'[job'[wk]] :
                               i <= sent'[wk] => inserted'[<<job'[wk], i>>] > 0
<1>1. CASE job'[wk] = job[wk] /\ sent'[wk] = sent[wk]
    <2>1. CASE job[wk] = None
        BY <1>0, <1>1, <2>1 DEF WorkerInv
    <2>2. CASE job[wk] # None
        <3>1. PICK n \in 1 .. MaxImport : DOMAIN batch[job[wk]] = 1 .. n
            BY <2>2, Running
        <3>2. job[wk] \in Tasks /\ task[job[wk]] # "unborn"
            BY <1>0, <2>2 DEF TypeOK, WorkerInv
        <3>3. task'[job[wk]] # "unborn" /\ batch'[job[wk]] = batch[job[wk]]
            BY <3>2, TasksStay
        <3>4. ASSUME NEW i \in 1 .. n, i <= sent[wk] PROVE inserted'[<<job[wk], i>>] > 0
            <4>1. <<job[wk], i>> \in Ids
                BY <3>2, Identifiers, ImportAssumption
            <4>2. inserted[<<job[wk], i>>] > 0
                BY <1>0, <2>2, <3>1, <3>4 DEF WorkerInv
            <4>3. inserted'[<<job[wk], i>>] \in Nat /\ inserted[<<job[wk], i>>] \in Nat
                BY <1>0, <4>1, TypeStep DEF TypeOK
            <4> QED  BY <4>1, <4>2, <4>3, InsertedGrows
        <3> QED  BY <1>0, <1>1, <2>2, <3>1, <3>3, <3>4 DEF WorkerInv
    <2> QED  BY <2>1, <2>2
<1>2. ASSUME NEW t \in Tasks, Claim(wk, t) PROVE Goal
    <2>1. /\ job'[wk] = t /\ sent'[wk] = 0 /\ job[wk] = None
          /\ task'[t] = "queued" /\ batch'[t] = batch[t]
        BY <1>0, <1>2 DEF TypeOK, WorkerInv, Claim
    <2>2. PICK n \in 1 .. MaxImport : DOMAIN batch[t] = 1 .. n
        <3>1. batch[t] \in Batch
            BY <1>2 DEF IInv, TaskInv, Claim
        <3> QED  BY <3>1, Payload
    <2> QED  BY <2>1, <2>2, ImportAssumption
<1>3. CASE InsertRows(wk)
    <2>1. /\ job'[wk] = job[wk] /\ job[wk] # None /\ job[wk] \in Tasks
          /\ sent'[wk] = sent[wk] + Statement /\ sent[wk] \in Nat
        BY <1>0, <1>3 DEF TypeOK, InsertRows
    <2>2. task'[job[wk]] # "unborn" /\ batch'[job[wk]] = batch[job[wk]]
        BY <1>0, <2>1, TasksStay DEF WorkerInv
    <2>3. PICK n \in 1 .. MaxImport : DOMAIN batch[job[wk]] = 1 .. n
        BY <2>1, Running
    <2>4. ASSUME NEW i \in 1 .. n, i <= sent'[wk] PROVE inserted'[<<job[wk], i>>] > 0
        <3>1. <<job[wk], i>> \in Ids
            BY <2>1, Identifiers, ImportAssumption
        <3>2. CASE i <= sent[wk]
            <4>1. inserted[<<job[wk], i>>] > 0
                BY <1>0, <2>1, <2>3, <3>2 DEF WorkerInv
            <4>2. inserted'[<<job[wk], i>>] \in Nat /\ inserted[<<job[wk], i>>] \in Nat
                BY <1>0, <3>1, TypeStep DEF TypeOK
            <4> QED  BY <3>1, <4>1, <4>2, InsertedGrows
        <3>3. CASE ~(i <= sent[wk])
            <4>1. i \in Part(wk)
                BY <2>1, <2>3, <2>4, <3>3, ImportAssumption DEF Part
            <4> QED  BY <1>3, <4>1, Landing
        <3> QED  BY <3>2, <3>3
    <2>5. sent'[wk] >= Statement
        BY <2>1, ImportAssumption
    <2> QED  BY <2>1, <2>2, <2>3, <2>4, <2>5
<1>4. CASE Free(wk)
    BY <1>0, <1>4 DEF TypeOK, Free
<1>5. ASSUME NEW v \in Workers, v # wk,
             \/ \E t \in Tasks : Claim(v, t)
             \/ InsertRows(v) \/ Free(v)
      PROVE  job'[wk] = job[wk] /\ sent'[wk] = sent[wk]
    BY <1>0, <1>5 DEF TypeOK, Claim, InsertRows, Free
<1>6. CASE Serve
    BY <1>1, <1>6 DEF Serve, Create, Rename, Delete, SaveSettings, Schedule
<1>7. ASSUME NEW v \in Workers, Complete(v) \/ Fail(v) \/ Crash(v) PROVE Free(v)
    BY <1>7 DEF Complete, Fail, Crash
<1>8. ASSUME NEW t \in Tasks, Lapse(t) \/ GiveUp(t) PROVE UNCHANGED <<job, sent>>
    BY <1>8 DEF Lapse, GiveUp
<1>9. CASE UNCHANGED vars
    BY <1>1, <1>9 DEF vars
<1> QED  BY <1>1, <1>2, <1>3, <1>4, <1>5, <1>6, <1>7, <1>8, <1>9 DEF Next, Handle

(* An insertion makes a row where there is none, a deletion removes one. *)
LEMMA RowStep == ASSUME IInv, [Next]_vars PROVE RowInv'
<1>0. TypeOK /\ RowInv
    BY DEF IInv
<1> SUFFICES ASSUME NEW x \in Ids
             PROVE  inserted'[x] = deleted'[x] + (IF table'[x] = None THEN 0 ELSE 1)
    BY DEF RowInv
<1>x. /\ inserted[x] = deleted[x] + (IF table[x] = None THEN 0 ELSE 1)
      /\ inserted[x] \in Nat /\ deleted[x] \in Nat
    BY <1>0 DEF TypeOK, RowInv
<1> DEFINE Balanced == inserted'[x] = deleted'[x] + (IF table'[x] = None THEN 0 ELSE 1)
<1>1. ASSUME inserted'[x] = inserted[x], deleted'[x] = deleted[x],
             table'[x] = None <=> table[x] = None
      PROVE  Balanced
    BY <1>x, <1>1
<1>2. ASSUME NEW id \in Created, NEW n \in Names, Create(id, n) PROVE Balanced
    <2>1. inserted[id] = 0 /\ id \in Ids
        BY <1>2, Identifiers DEF Create
    <2>2. CASE x = id
        <3>1. deleted[x] = 0
            BY <1>0, <2>1, <2>2, NeverThere
        <3>2. inserted'[x] = 1 /\ deleted'[x] = deleted[x] /\ table'[x] = n /\ n # None
            BY <1>0, <1>2, <2>2, ImportAssumption DEF TypeOK, Create
        <3> QED  BY <3>1, <3>2
    <2>3. CASE x # id
        BY <1>0, <1>1, <1>2, <2>3 DEF TypeOK, Create
    <2> QED  BY <2>2, <2>3
<1>3. ASSUME NEW id \in Ids, NEW n \in Names, Rename(id, n) PROVE Balanced
    BY <1>0, <1>1, <1>3, ImportAssumption DEF TypeOK, Rename
<1>4. ASSUME NEW id \in Ids, Delete(id) PROVE Balanced
    <2>1. CASE x = id
        <3>1. /\ table[x] # None /\ table'[x] = None
              /\ inserted'[x] = inserted[x] /\ deleted'[x] = deleted[x] + 1
            BY <1>0, <1>4, <2>1 DEF TypeOK, Delete
        <3> QED  BY <1>x, <3>1
    <2>2. CASE x # id
        BY <1>0, <1>1, <1>4, <2>2 DEF TypeOK, Delete
    <2> QED  BY <2>1, <2>2
<1>5. ASSUME NEW wk \in Workers, InsertRows(wk) PROVE Balanced
    <2>0. job[wk] # None /\ deleted' = deleted
        BY <1>5 DEF InsertRows
    <2>1. CASE x \in Fresh(wk)
        <3>1. /\ table[x] = None /\ inserted'[x] = inserted[x] + 1
              /\ table'[x] = batch[job[wk]][x[2]]
            BY <1>5, <2>0, <2>1, FreshRows DEF InsertRows
        <3>2. table'[x] # None
            BY <2>0, <2>1, <3>1, FreshRows, ImportAssumption
        <3> QED  BY <1>x, <2>0, <3>1, <3>2
    <2>2. CASE x \notin Fresh(wk)
        BY <1>1, <1>5, <2>0, <2>2 DEF InsertRows
    <2> QED  BY <2>1, <2>2
<1>6. CASE UNCHANGED <<table, inserted, deleted>>
    BY <1>1, <1>6
<1>7. CASE Serve
    <2>1. ASSUME NEW b \in BOOLEAN, NEW l \in 1 .. MaxImport, SaveSettings(b, l)
          PROVE  UNCHANGED <<table, inserted, deleted>>
        BY <2>1 DEF SaveSettings
    <2>2. ASSUME NEW t \in Tasks, NEW k \in Keys \cup {NoKey}, NEW b \in Batch, Schedule(t, k, b)
          PROVE  UNCHANGED <<table, inserted, deleted>>
        BY <2>2 DEF Schedule
    <2> QED  BY <1>2, <1>3, <1>4, <1>6, <1>7, <2>1, <2>2 DEF Serve
<1>8. ASSUME NEW wk \in Workers,
             (\E t \in Tasks : Claim(wk, t)) \/ Complete(wk) \/ Fail(wk) \/ Crash(wk)
      PROVE  UNCHANGED <<table, inserted, deleted>>
    BY <1>8 DEF Claim, Complete, Fail, Crash
<1>9. ASSUME NEW t \in Tasks, Lapse(t) \/ GiveUp(t) PROVE UNCHANGED <<table, inserted, deleted>>
    BY <1>9 DEF Lapse, GiveUp
<1>10. CASE UNCHANGED vars
    BY <1>6, <1>10 DEF vars
<1> QED  BY <1>5, <1>6, <1>7, <1>8, <1>9, <1>10 DEF Next, Handle

(* A replay inserts only where no row is, so no renamed row is touched. *)
LEMMA RenameStep == ASSUME IInv, [Next]_vars PROVE RenameStands'
<1>0. TypeOK /\ RenameStands
    BY DEF IInv
<1>1. ASSUME NEW id \in Created, NEW n \in Names, Create(id, n) PROVE RenameStands'
    <2>1. renamed[id] = None
        <3>1. id \in Ids /\ inserted[id] = 0
            BY <1>1, Identifiers DEF Create
        <3>2. table[id] = None
            BY <1>0, <3>1, NeverThere DEF IInv
        <3> QED  BY <1>0, <3>1, <3>2 DEF RenameStands
    <2> QED  BY <1>0, <1>1, <2>1, Identifiers DEF TypeOK, RenameStands, Create
<1>2. ASSUME NEW id \in Ids, NEW n \in Names, Rename(id, n) PROVE RenameStands'
    BY <1>0, <1>2 DEF TypeOK, RenameStands, Rename
<1>3. ASSUME NEW id \in Ids, Delete(id) PROVE RenameStands'
    BY <1>0, <1>3 DEF TypeOK, RenameStands, Delete
<1>4. CASE UNCHANGED <<table, renamed>>
    BY <1>0, <1>4 DEF RenameStands
<1>5. ASSUME NEW wk \in Workers, InsertRows(wk) PROVE RenameStands'
    <2>1. \A id \in Fresh(wk) : table[id] = None
        BY <1>5, FreshRows DEF InsertRows
    <2> QED  BY <1>0, <1>5, <2>1 DEF TypeOK, RenameStands, InsertRows
<1>6. CASE Serve
    <2>1. ASSUME NEW b \in BOOLEAN, NEW l \in 1 .. MaxImport, SaveSettings(b, l)
          PROVE  UNCHANGED <<table, renamed>>
        BY <2>1 DEF SaveSettings
    <2>2. ASSUME NEW t \in Tasks, NEW k \in Keys \cup {NoKey}, NEW b \in Batch, Schedule(t, k, b)
          PROVE  UNCHANGED <<table, renamed>>
        BY <2>2 DEF Schedule
    <2> QED  BY <1>1, <1>2, <1>3, <1>4, <1>6, <2>1, <2>2 DEF Serve
<1>7. ASSUME NEW wk \in Workers,
             (\E t \in Tasks : Claim(wk, t)) \/ Complete(wk) \/ Fail(wk) \/ Crash(wk)
      PROVE  UNCHANGED <<table, renamed>>
    BY <1>7 DEF Claim, Complete, Fail, Crash
<1>8. ASSUME NEW t \in Tasks, Lapse(t) \/ GiveUp(t) PROVE UNCHANGED <<table, renamed>>
    BY <1>8 DEF Lapse, GiveUp
<1>9. CASE UNCHANGED vars
    BY <1>4, <1>9 DEF vars
<1> QED  BY <1>4, <1>5, <1>6, <1>7, <1>8, <1>9 DEF Next, Handle

(* A run that has nothing left to send has inserted its whole batch. *)
LEMMA DoneStep == ASSUME IInv, [Next]_vars PROVE DoneIsImported'
<1>0. TypeOK /\ DoneIsImported /\ WorkerInv /\ TaskInv /\ TypeOK'
    BY TypeStep DEF IInv
<1> SUFFICES ASSUME NEW t \in Tasks, task'[t] = "done", NEW i \in DOMAIN batch'[t]
             PROVE  inserted'[<<t, i>>] > 0
    BY DEF DoneIsImported
<1>1. CASE task[t] = "done"
    <2>1. batch'[t] = batch[t] /\ batch[t] \in Batch
        BY <1>0, <1>1, TasksStay DEF TaskInv
    <2>2. i \in 1 .. MaxImport
        BY <2>1, Payload, ImportAssumption
    <2>3. inserted[<<t, i>>] > 0 /\ <<t, i>> \in Ids
        BY <1>0, <1>1, <2>1, <2>2, Identifiers DEF DoneIsImported
    <2>4. inserted'[<<t, i>>] \in Nat /\ inserted[<<t, i>>] \in Nat
        BY <1>0, <2>3 DEF TypeOK
    <2> QED  BY <2>3, <2>4, InsertedGrows
<1>2. ASSUME task[t] # "done", NEW wk \in Workers, Complete(wk)
      PROVE  inserted'[<<t, i>>] > 0
    <2>1. t = job[wk] /\ batch' = batch /\ inserted' = inserted /\ Part(wk) = {}
        BY <1>0, <1>2 DEF TypeOK, Complete, Report
    <2>2. PICK n \in 1 .. MaxImport :
            /\ DOMAIN batch[t] = 1 .. n
            /\ Part(wk) = {j \in 1 .. n : sent[wk] < j /\ j <= sent[wk] + Statement}
        BY <1>2, <2>1, Running DEF Complete
    <2>3. n <= sent[wk]
        <3>1. sent[wk] \in Nat
            BY <1>0 DEF TypeOK
        <3>2. sent[wk] + 1 \notin Part(wk)
            BY <2>1
        <3> QED  BY <2>2, <3>1, <3>2, ImportAssumption
    <2>4. i \in 1 .. n /\ i <= sent[wk]
        <3>1. sent[wk] \in Nat /\ i \in 1 .. n
            BY <1>0, <2>1, <2>2 DEF TypeOK
        <3> QED  BY <2>3, <3>1
    <2>5. job[wk] # None
        BY <1>2 DEF Complete
    <2> QED  BY <1>0, <2>1, <2>2, <2>4, <2>5 DEF WorkerInv
<1>3. CASE task' = task
    BY <1>1, <1>3
<1>4. ASSUME NEW wk \in Workers, Fail(wk) PROVE task[t] = "done"
    BY <1>0, <1>4 DEF TypeOK, Fail, Report
<1>5. CASE Serve
    <2>1. task[t] = "done"
        BY <1>0, <1>5 DEF TypeOK, Serve, Create, Rename, Delete, SaveSettings, Schedule
    <2> QED  BY <1>1, <2>1
<1>6. ASSUME NEW wk \in Workers,
             (\E u \in Tasks : Claim(wk, u)) \/ InsertRows(wk) \/ Crash(wk)
      PROVE  task' = task
    BY <1>6 DEF Claim, InsertRows, Crash
<1>7. ASSUME NEW u \in Tasks, Lapse(u) PROVE task' = task
    BY <1>7 DEF Lapse
<1>9. ASSUME NEW u \in Tasks, GiveUp(u) PROVE task[t] = "done"
    BY <1>0, <1>9 DEF TypeOK, GiveUp
<1>8. CASE UNCHANGED vars
    BY <1>3, <1>8 DEF vars
<1> QED  BY <1>1, <1>2, <1>3, <1>4, <1>5, <1>6, <1>7, <1>8, <1>9 DEF Next, Handle

(* One statement takes the whole batch, and takes it or leaves it. *)
LEMMA WholeStep == ASSUME IInv, [Next]_vars PROVE Whole'
<1>0. TypeOK /\ Whole /\ WorkerInv /\ TaskInv /\ RowInv /\ RunsInv /\ TypeOK'
    BY TypeStep DEF IInv
<1> SUFFICES ASSUME NEW t \in Tasks, DOMAIN batch'[t] \subseteq 1 .. Statement,
                    NEW i \in DOMAIN batch'[t], NEW j \in DOMAIN batch'[t],
                    inserted'[<<t, i>>] > 0
             PROVE  inserted'[<<t, j>>] > 0
    BY DEF Whole
<1>1. ASSUME batch'[t] = batch[t], task[t] # "unborn", inserted'[<<t, i>>] = inserted[<<t, i>>]
      PROVE  inserted'[<<t, j>>] > 0
    <2>1. batch[t] \in Batch
        BY <1>0, <1>1 DEF TaskInv
    <2>2. i \in 1 .. MaxImport /\ j \in 1 .. MaxImport
        BY <1>1, <2>1, Payload, ImportAssumption
    <2>3. <<t, j>> \in Ids /\ inserted[<<t, j>>] > 0
        BY <1>0, <1>1, <2>2, Identifiers DEF Whole
    <2>4. inserted'[<<t, j>>] \in Nat /\ inserted[<<t, j>>] \in Nat
        BY <1>0, <2>3 DEF TypeOK
    <2> QED  BY <2>3, <2>4, InsertedGrows
<1>2. CASE task[t] = "unborn" /\ batch'[t] = batch[t]
    BY <1>0, <1>2 DEF TaskInv
<1>3. ASSUME task[t] = "unborn", batch'[t] \in Batch, inserted'[<<t, i>>] = inserted[<<t, i>>]
      PROVE  FALSE
    <2>1. i \in 1 .. MaxImport
        BY <1>3, Payload, ImportAssumption
    <2>2. inserted[<<t, i>>] + Cardinality(Owing(t, i)) <= 0
        BY <1>0, <1>3, <2>1 DEF RunsInv, TaskInv
    <2>3. inserted[<<t, i>>] \in Nat /\ Cardinality(Owing(t, i)) \in Nat
        BY <1>0, <2>1, Identifiers, OwingCounts DEF TypeOK
    <2> QED  BY <1>3, <2>2, <2>3
<1>4. ASSUME UNCHANGED <<batch, inserted>> PROVE inserted'[<<t, j>>] > 0
    BY <1>1, <1>2, <1>4
<1>5. ASSUME NEW wk \in Workers, InsertRows(wk) PROVE inserted'[<<t, j>>] > 0
    <2>0. job[wk] # None /\ batch' = batch /\ Part(wk) # {}
        BY <1>5 DEF InsertRows
    <2>1. CASE t = job[wk]
        <3>1. PICK n \in 1 .. MaxImport :
                /\ DOMAIN batch[t] = 1 .. n
                /\ Part(wk) = {x \in 1 .. n : sent[wk] < x /\ x <= sent[wk] + Statement}
            BY <2>0, <2>1, Running
        <3>2. sent[wk] \in Nat /\ (sent[wk] = 0 \/ sent[wk] >= Statement)
            BY <1>0 DEF TypeOK, WorkerInv
        <3>3. PICK x \in 1 .. n : sent[wk] < x
            BY <2>0, <3>1
        <3>4. n <= Statement
            BY <2>0, <3>1, ImportAssumption
        <3>5. sent[wk] = 0
            BY <3>2, <3>3, <3>4, ImportAssumption
        <3>6. j \in Part(wk)
            BY <2>0, <3>1, <3>4, <3>5, ImportAssumption
        <3> QED  BY <1>5, <2>1, <3>6, Landing
    <2>2. CASE t # job[wk]
        <3>1. <<t, i>> \notin Fresh(wk)
            BY <2>0, <2>2, FreshRows
        <3>2. CASE task[t] = "unborn"
            BY <1>2, <2>0, <3>2
        <3>3. CASE task[t] # "unborn"
            <4>1. i \in 1 .. MaxImport
                BY <1>0, <2>0, <3>3, Payload, ImportAssumption DEF TaskInv
            <4>2. inserted'[<<t, i>>] = inserted[<<t, i>>]
                BY <1>5, <3>1, <4>1, Identifiers DEF InsertRows
            <4> QED  BY <1>1, <2>0, <3>3, <4>2
        <3> QED  BY <3>2, <3>3
    <2> QED  BY <2>1, <2>2
<1>6. ASSUME NEW id \in Created, NEW n \in Names, Create(id, n) PROVE inserted'[<<t, j>>] > 0
    <2>1. batch' = batch
        BY <1>6 DEF Create
    <2>2. CASE task[t] = "unborn"
        BY <1>2, <2>1, <2>2
    <2>3. CASE task[t] # "unborn"
        <3>1. i \in 1 .. MaxImport
            BY <1>0, <2>1, <2>3, Payload, ImportAssumption DEF TaskInv
        <3>2. inserted'[<<t, i>>] = inserted[<<t, i>>]
            BY <1>0, <1>6, <3>1, Identifiers DEF TypeOK, Create
        <3> QED  BY <1>1, <2>1, <2>3, <3>2
    <2> QED  BY <2>2, <2>3
<1>7. ASSUME NEW u \in Tasks, NEW k \in Keys \cup {NoKey}, NEW b \in Batch, Schedule(u, k, b)
      PROVE  inserted'[<<t, j>>] > 0
    <2>1. inserted' = inserted
        BY <1>7 DEF Schedule
    <2>2. CASE u = t
        <3>1. task[t] = "unborn" /\ batch'[t] \in Batch
            BY <1>0, <1>7, <2>2 DEF TypeOK, Schedule
        <3> QED  BY <1>3, <2>1, <3>1
    <2>3. CASE u # t
        <3>1. batch'[t] = batch[t]
            BY <1>0, <1>7, <2>3 DEF TypeOK, Schedule
        <3> QED  BY <1>1, <1>2, <2>1, <3>1
    <2> QED  BY <2>2, <2>3
<1>8. CASE Serve
    <2>1. ASSUME NEW id \in Ids, NEW n \in Names, Rename(id, n) PROVE UNCHANGED <<batch, inserted>>
        BY <2>1 DEF Rename
    <2>2. ASSUME NEW id \in Ids, Delete(id) PROVE UNCHANGED <<batch, inserted>>
        BY <2>2 DEF Delete
    <2>3. ASSUME NEW b \in BOOLEAN, NEW l \in 1 .. MaxImport, SaveSettings(b, l)
          PROVE  UNCHANGED <<batch, inserted>>
        BY <2>3 DEF SaveSettings
    <2> QED  BY <1>4, <1>6, <1>7, <1>8, <2>1, <2>2, <2>3 DEF Serve
<1>9. ASSUME NEW wk \in Workers,
             (\E u \in Tasks : Claim(wk, u)) \/ Complete(wk) \/ Fail(wk) \/ Crash(wk)
      PROVE  UNCHANGED <<batch, inserted>>
    BY <1>9 DEF Claim, Complete, Fail, Crash
<1>10. ASSUME NEW u \in Tasks, Lapse(u) \/ GiveUp(u) PROVE UNCHANGED <<batch, inserted>>
    BY <1>10 DEF Lapse, GiveUp
<1>11. CASE UNCHANGED vars
    BY <1>4, <1>11 DEF vars
<1> QED  BY <1>4, <1>5, <1>8, <1>9, <1>10, <1>11 DEF Next, Handle

(* Every state the import reaches satisfies IInv: the types and leases, an *)
(* account of what each run has sent, and the properties below.            *)
THEOREM Invariance == Spec => []IInv
<1>1. ASSUME IInv, [Next]_vars PROVE IInv'
    BY <1>1, TypeStep, RunsStep, TaskStep, WorkerStep, RowStep, RenameStep, DoneStep, WholeStep
       DEF IInv
<1> QED  BY <1>1, InitInv, PTL DEF Spec

(* The types of the variables, and the leases (queue.Workers). *)
THEOREM TypeCorrect == Spec => []TypeOK
<1>1. IInv => TypeOK
    BY DEF IInv
<1> QED  BY <1>1, Invariance, PTL

(* A completed task left every row of its batch in the table at some time, *)
(* whatever crashed, failed or ran twice (Importer.Handle).                *)
THEOREM DoneImportsAreWhole == Spec => []DoneIsImported
<1>1. IInv => DoneIsImported
    BY DEF IInv
<1> QED  BY <1>1, Invariance, PTL

(* A row is inserted at most once per run of its task (repo.BulkInsert). *)
THEOREM RunsInsertOnce == Spec => []OncePerRun
<1>1. ASSUME IInv PROVE OncePerRun
    <2> SUFFICES ASSUME NEW t \in Tasks, NEW i \in 1 .. MaxImport
                 PROVE  inserted[<<t, i>>] <= runs[t]
        BY DEF OncePerRun
    <2>1. inserted[<<t, i>>] + Cardinality(Owing(t, i)) <= runs[t]
        BY <1>1 DEF IInv, RunsInv
    <2>2. inserted[<<t, i>>] \in Nat /\ runs[t] \in Nat /\ Cardinality(Owing(t, i)) \in Nat
        BY <1>1, Identifiers, OwingCounts, ImportAssumption DEF IInv, TypeOK
    <2> QED  BY <2>1, <2>2
<1> QED  BY <1>1, Invariance, PTL

(* A replay revives deleted widgets and nothing else: over all statements, *)
(* runs, lapses and crashes a row is inserted once, and once more at most  *)
(* for each time its widget was deleted (repo.BulkInsert).                 *)
THEOREM RevivalNeedsDeletion == Spec => []RevivesDeletedOnly
<1>1. ASSUME IInv PROVE RevivesDeletedOnly
    <2> SUFFICES ASSUME NEW id \in Ids PROVE inserted[id] <= 1 + deleted[id]
        BY DEF RevivesDeletedOnly
    <2>1. /\ inserted[id] = deleted[id] + (IF table[id] = None THEN 0 ELSE 1)
          /\ deleted[id] \in Nat
        BY <1>1 DEF IInv, TypeOK, RowInv
    <2> QED  BY <2>1
<1> QED  BY <1>1, Invariance, PTL

(* A rename outlives every replay of the batch the widget came with. *)
THEOREM RenamesStand == Spec => []RenameStands
<1>1. IInv => RenameStands
    BY DEF IInv
<1> QED  BY <1>1, Invariance, PTL

(* A batch of one statement is imported whole or not at all. *)
THEOREM BatchesAreWhole == Spec => []Whole
<1>1. IInv => Whole
    BY DEF IInv
<1> QED  BY <1>1, Invariance, PTL

(* A batch that is posted again while it is in the queue adds none: a task *)
(* that has left the queue does not come back under its old key.           *)
THEOREM NoSecondBatch == Spec => []OneQueuedPerKey
<1>1. Init => OneQueuedPerKey
    BY DEF Init, OneQueuedPerKey
<1>2. ASSUME IInv, [Next]_vars, OneQueuedPerKey PROVE OneQueuedPerKey'
    <2>t. TypeOK
        BY <1>2 DEF IInv
    <2>s. ASSUME UNCHANGED key, \A t \in Tasks : task'[t] = "queued" => task[t] = "queued"
          PROVE  OneQueuedPerKey'
        BY <1>2, <2>s DEF OneQueuedPerKey
    <2>1. ASSUME NEW t \in Tasks, NEW k \in Keys \cup {NoKey}, NEW names \in Batch,
                 Schedule(t, k, names)
          PROVE  OneQueuedPerKey'
        BY <1>2, <2>t, <2>1 DEF Schedule, Queued, OneQueuedPerKey, TypeOK
    <2>2. CASE UNCHANGED <<task, key>>
        BY <2>2, <2>s
    <2>3. ASSUME NEW wk \in Workers, Complete(wk) \/ Fail(wk) PROVE OneQueuedPerKey'
        <3>1. job[wk] \in Tasks /\ UNCHANGED key
            BY <2>t, <2>3 DEF Complete, Fail, TypeOK
        <3>2. \E status : Report(wk, status)
            BY <2>3 DEF Complete, Fail
        <3>3. PICK status : Report(wk, status)
            BY <3>2
        <3>4. CASE owner[job[wk]] = wk
            <4>1. task[job[wk]] = "queued"
                BY <2>t, <3>1, <3>4, ImportAssumption DEF TypeOK
            <4>2. \A t \in Tasks \ {job[wk]} : task'[t] = task[t]
                BY <2>t, <3>1, <3>3, <3>4 DEF Report, TypeOK
            <4> QED  BY <2>s, <3>1, <4>1, <4>2
        <3>5. CASE owner[job[wk]] # wk
            BY <2>s, <3>1, <3>3, <3>5 DEF Report
        <3> QED  BY <3>4, <3>5
    <2>5. ASSUME NEW t \in Tasks, GiveUp(t) PROVE OneQueuedPerKey'
        BY <2>t, <2>s, <2>5 DEF GiveUp, TypeOK
    <2>4. \/ UNCHANGED <<task, key>>
          \/ \E t \in Tasks : GiveUp(t)
          \/ \E wk \in Workers : Complete(wk) \/ Fail(wk)
          \/ \E t \in Tasks, k \in Keys \cup {NoKey}, names \in Batch : Schedule(t, k, names)
        BY <1>2 DEF Next, vars, queue, Serve, Handle, Create, Rename, Delete, SaveSettings, Claim,
           InsertRows, Lapse, Crash
    <2> QED  BY <2>1, <2>2, <2>3, <2>4, <2>5
<1> QED  BY <1>1, <1>2, Invariance, PTL DEF Spec

(* What the outcome of a run changes: the task of a worker that holds its  *)
(* lease, which the worker gives back.                                     *)
LEMMA Outcome ==
    ASSUME IInv, NEW wk \in Workers, Complete(wk) \/ Fail(wk), NEW t \in Tasks
    PROVE  /\ runs'[t] = runs[t]
           /\ \/ UNCHANGED <<task[t], owner[t]>>
              \/ /\ t = job[wk] /\ owner[t] = wk /\ task[t] = "queued"
                 /\ owner'[t] = None /\ job'[wk] = None
                 /\ task'[t] \in {"queued", "done", "dead"}
                 /\ task'[t] = "done" => Part(wk) = {}
<1>0. TypeOK /\ job[wk] \in Tasks
    BY DEF IInv, TypeOK, Complete, Fail
<1>1. PICK status \in {"queued", "done", "dead"} :
        Report(wk, status) /\ (status = "done" => Part(wk) = {})
    BY DEF Complete, Fail
<1>2. UNCHANGED runs /\ job'[wk] = None
    BY <1>0 DEF Complete, Fail, Free, TypeOK
<1>3. CASE owner[job[wk]] = wk
    <2>1. /\ task[job[wk]] = "queued"
          /\ task' = [task EXCEPT ![job[wk]] = status]
          /\ owner' = [owner EXCEPT ![job[wk]] = None]
        BY <1>0, <1>1, <1>3, Reported
    <2> QED  BY <1>0, <1>1, <1>2, <1>3, <2>1 DEF TypeOK
<1>4. CASE owner[job[wk]] # wk
    BY <1>0, <1>1, <1>2, <1>4, Reported
<1> QED  BY <1>3, <1>4

(* What a step does to a task that was scheduled. *)
LEMMA QueueStep ==
    ASSUME IInv, [Next]_vars, NEW t \in Tasks, task[t] # "unborn"
    PROVE  \/ UNCHANGED <<task[t], runs[t], owner[t]>>
           \/ /\ UNCHANGED task[t] /\ task[t] = "queued" /\ owner[t] = None /\ owner'[t] # None
              /\ runs[t] < MaxRuns /\ runs'[t] = runs[t] + 1
           \/ UNCHANGED <<task[t], runs[t]>> /\ owner[t] # None /\ owner'[t] = None
           \/ \E wk \in Workers : Complete(wk) \/ Fail(wk)
           \/ GiveUp(t)
<1>0. TypeOK
    BY DEF IInv
<1>1. ASSUME NEW u \in Tasks, NEW k \in Keys \cup {NoKey}, NEW b \in Batch, Schedule(u, k, b)
      PROVE  UNCHANGED <<task[t], runs[t], owner[t]>>
    BY <1>0, <1>1 DEF Schedule, TypeOK
<1>2. ASSUME NEW wk \in Workers, NEW u \in Tasks, Claim(wk, u), u = t
      PROVE  /\ UNCHANGED task[t] /\ task[t] = "queued" /\ owner[t] = None /\ owner'[t] # None
             /\ runs[t] < MaxRuns /\ runs'[t] = runs[t] + 1
    BY <1>0, <1>2, ImportAssumption DEF Claim, TypeOK
<1>3. ASSUME NEW wk \in Workers, NEW u \in Tasks, Claim(wk, u), u # t
      PROVE  UNCHANGED <<task[t], runs[t], owner[t]>>
    BY <1>0, <1>3 DEF Claim, TypeOK
<1>4. ASSUME NEW wk \in Workers, Crash(wk)
      PROVE  /\ UNCHANGED <<task[t], runs[t]>>
             /\ (owner[t] # None /\ owner'[t] = None) \/ UNCHANGED owner[t]
    BY <1>0, <1>4, ImportAssumption DEF Crash, TypeOK
<1>5. ASSUME NEW u \in Tasks, Lapse(u)
      PROVE  /\ UNCHANGED <<task[t], runs[t]>>
             /\ (owner[t] # None /\ owner'[t] = None) \/ UNCHANGED owner[t]
    BY <1>0, <1>5 DEF Lapse, TypeOK
<1>6. ASSUME NEW u \in Tasks, GiveUp(u), u # t PROVE UNCHANGED <<task[t], runs[t], owner[t]>>
    BY <1>0, <1>6 DEF GiveUp, TypeOK
<1>7. CASE UNCHANGED queue
    BY <1>7
<1>8. \/ UNCHANGED queue
      \/ \E wk \in Workers : Complete(wk) \/ Fail(wk) \/ Crash(wk) \/ \E u \in Tasks : Claim(wk, u)
      \/ \E u \in Tasks : Lapse(u) \/ GiveUp(u)
      \/ \E u \in Tasks, k \in Keys \cup {NoKey}, b \in Batch : Schedule(u, k, b)
    BY DEF Next, vars, Serve, Handle, Create, Rename, Delete, SaveSettings, InsertRows
<1> QED  BY <1>1, <1>2, <1>3, <1>4, <1>5, <1>6, <1>7, <1>8

(* A task is settled by the worker that holds its lease, once it has sent  *)
(* all rows for "done", or by the queue after a last run that was lost;    *)
(* never by a worker whose lease lapsed.                                   *)
THEOREM LeasesDecide == Spec => LeaseDecides
<1>1. ASSUME IInv, [Next]_vars, NEW t \in Tasks, task[t] # "unborn", task'[t] # task[t]
      PROVE  /\ task[t] = "queued"
             /\ IF owner[t] = None THEN runs[t] = MaxRuns /\ task'[t] = "dead"
                ELSE /\ job'[owner[t]] = None
                     /\ task'[t] = "done" => Part(owner[t]) = {}
    <2>t. TypeOK
        BY <1>1 DEF IInv
    <2>1. CASE GiveUp(t)
        BY <1>1, <2>t, <2>1 DEF GiveUp, TypeOK
    <2>2. ASSUME NEW wk \in Workers, Complete(wk) \/ Fail(wk)
          PROVE  /\ task[t] = "queued" /\ owner[t] # None /\ job'[owner[t]] = None
                 /\ task'[t] = "done" => Part(owner[t]) = {}
        BY <1>1, <2>2, Outcome, ImportAssumption
    <2> QED  BY <1>1, <2>1, <2>2, QueueStep
<1>2. IInv /\ [Next]_vars =>
          [\A t \in Tasks : task[t] # "unborn" /\ task'[t] # task[t] =>
              /\ task[t] = "queued"
              /\ IF owner[t] = None THEN runs[t] = MaxRuns /\ task'[t] = "dead"
                 ELSE /\ job'[owner[t]] = None
                      /\ task'[t] = "done" => Part(owner[t]) = {}]_vars
    BY <1>1
<1> QED  BY <1>2, Invariance, PTL DEF Spec, LeaseDecides

(* A task in the queue comes nearer to its last run with every claim,      *)
(* failure, lapse and crash, those of the last run included, and settles   *)
(* for good; a run has boundedly many statements: each leaves it fewer, and *)
(* nothing the other workers and the API do gives it more.                 *)
THEOREM ImportsRunDown == Spec => RunsEnd
<1>2. ASSUME IInv, Next, NEW t \in Tasks, task[t] # "unborn"
      PROVE  \/ UNCHANGED <<task[t], runs[t], owner[t]>>
             \/ task[t] = "queued" /\ task'[t] \in {"done", "dead"}
             \/ /\ task[t] = "queued" /\ task'[t] = "queued"
                /\ RunsLeft(t)' \in 0 .. (RunsLeft(t) - 1)
    <2>t. /\ TypeOK /\ runs[t] \in 0 .. MaxRuns /\ MaxRuns \in Nat
          /\ owner[t] # None => task[t] = "queued"
        BY <1>2, ImportAssumption DEF IInv, TypeOK
    <2>1. CASE UNCHANGED <<task[t], runs[t], owner[t]>>
        BY <2>1
    <2>2. CASE /\ UNCHANGED task[t] /\ task[t] = "queued" /\ owner[t] = None /\ owner'[t] # None
               /\ runs[t] < MaxRuns /\ runs'[t] = runs[t] + 1
        <3>1. RunsLeft(t) = 2 * (MaxRuns - runs[t]) /\ RunsLeft(t)' = 2 * (MaxRuns - (runs[t] + 1)) + 1
            BY <2>t, <2>2 DEF RunsLeft
        <3> QED  BY <2>t, <2>2, <3>1
    <2>l. ASSUME runs'[t] = runs[t], owner[t] # None, owner'[t] = None
          PROVE  RunsLeft(t)' \in 0 .. (RunsLeft(t) - 1)
        <3>1. RunsLeft(t) = 2 * (MaxRuns - runs[t]) + 1 /\ RunsLeft(t)' = 2 * (MaxRuns - runs[t])
            BY <2>t, <2>l DEF RunsLeft
        <3> QED  BY <2>t, <3>1
    <2>3. CASE UNCHANGED <<task[t], runs[t]>> /\ owner[t] # None /\ owner'[t] = None
        BY <2>t, <2>l, <2>3
    <2>4. ASSUME NEW wk \in Workers, Complete(wk) \/ Fail(wk)
          PROVE  \/ UNCHANGED <<task[t], runs[t], owner[t]>>
                 \/ task[t] = "queued" /\ task'[t] \in {"done", "dead"}
                 \/ /\ task[t] = "queued" /\ task'[t] = "queued"
                    /\ RunsLeft(t)' \in 0 .. (RunsLeft(t) - 1)
        BY <1>2, <2>l, <2>4, Outcome, ImportAssumption
    <2>5. CASE GiveUp(t)
        BY <2>t, <2>5 DEF GiveUp, TypeOK
    <2> QED  BY <1>2, <2>1, <2>2, <2>3, <2>4, <2>5, QueueStep
<1>1. IInv /\ [Next]_vars => [RunNearer]_vars
    <2> SUFFICES ASSUME IInv, Next, NEW wk \in Workers, job[wk] # None
                 PROVE  UNCHANGED <<job[wk], sent[wk]>> \/ StepsLeft(wk)' \in 0 .. (StepsLeft(wk) - 1)
        BY DEF RunNearer
    <2>0. /\ TypeOK /\ sent[wk] \in Nat /\ MaxImport \in Nat /\ Statement \in Nat \ {0}
        BY ImportAssumption DEF IInv, TypeOK
    <2>1. CASE InsertRows(wk)
        <3>1. PICK n \in 1 .. MaxImport :
                Part(wk) = {i \in 1 .. n : sent[wk] < i /\ i <= sent[wk] + Statement}
            BY Running
        <3>2. sent[wk] < MaxImport
            BY <2>0, <2>1, <3>1 DEF InsertRows
        <3>3. job'[wk] = job[wk] /\ sent'[wk] = sent[wk] + Statement
            BY <2>0, <2>1 DEF InsertRows, TypeOK
        <3> QED  BY <2>0, <3>2, <3>3 DEF StepsLeft
    <2>2. CASE Free(wk)
        BY <2>0, <2>2 DEF Free, StepsLeft, TypeOK
    <2>3. ASSUME NEW v \in Workers, v # wk,
                 \/ \E t \in Tasks : Claim(v, t)
                 \/ InsertRows(v) \/ Free(v)
          PROVE  UNCHANGED <<job[wk], sent[wk]>>
        BY <2>0, <2>3 DEF Claim, InsertRows, Free, TypeOK
    <2>4. ~\E t \in Tasks : Claim(wk, t)
        BY DEF Claim
    <2>5. ASSUME NEW v \in Workers, Complete(v) \/ Fail(v) \/ Crash(v) PROVE Free(v)
        BY <2>5 DEF Complete, Fail, Crash
    <2>6. CASE Serve \/ \E t \in Tasks : Lapse(t) \/ GiveUp(t)
        BY <2>6 DEF Serve, Create, Rename, Delete, SaveSettings, Schedule, Lapse, GiveUp
    <2> QED  BY <2>1, <2>2, <2>3, <2>4, <2>5, <2>6 DEF Next, Handle
<1>3. IInv /\ [Next]_vars => [TaskNearer /\ RunNearer]_vars
    BY <1>1, <1>2 DEF TaskNearer
<1> QED  BY <1>3, Invariance, PTL DEF Spec, RunsEnd
=============================================================================
