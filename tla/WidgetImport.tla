---------------------------- MODULE WidgetImport ----------------------------
(***************************************************************************)
(* Batches of widgets on their way through the import queue into the table *)
(* that the API writes as well.  Schedule gives the rows of a batch their  *)
(* identifiers; a worker claims the task and bulk-inserts the rows; the    *)
(* task is completed, retried or given up.  A lease may lapse under a      *)
(* worker that goes on, so two workers may run one task at a time.         *)
(*                                                                         *)
(* The writes of the API are single steps here: what happens inside their  *)
(* transactions is the matter of WidgetCore.  A payload that does not      *)
(* decode is left out, for Schedule wrote it.                              *)
(***************************************************************************)
EXTENDS Naturals, FiniteSets

CONSTANTS
    Tasks,      \* import tasks
    Workers,    \* handlers of import tasks, of all replicas
    Created,    \* identifiers of widgets the API creates
    Names,      \* widget names
    Keys,       \* dedup keys
    NoKey,      \* the empty dedup key
    None,       \* no row, no name, no worker, no task
    MaxImport,  \* rows of the largest batch
    Statement,  \* rows of one statement of dbx.BulkInsert
    MaxRuns     \* runs after which the queue gives a task up

(* Schedule makes the identifiers of a batch, before the task is stored. *)
Imported == Tasks \X (1 .. MaxImport)
Ids == Created \cup Imported

Batch == UNION {[1 .. n -> Names] : n \in 1 .. MaxImport}

ASSUME ImportAssumption ==
    /\ None \notin Names \cup Workers \cup Tasks
    /\ NoKey \notin Keys
    /\ IsFiniteSet(Workers)
    /\ Created \cap Imported = {}
    /\ MaxImport \in Nat \ {0} /\ Statement \in Nat \ {0} /\ MaxRuns \in Nat \ {0}

VARIABLES
    table,      \* the widgets table: the name of each row
    task,       \* per task: unborn, queued, done or dead
    key,        \* its dedup key
    batch,      \* its payload: the names of its rows
    runs,       \* how often it was claimed
    owner,      \* the worker that holds its lease
    job,        \* per worker, the task it runs
    sent,       \* per worker, the rows it has sent
    settings,   \* the widget settings
    inserted,   \* history: how often each identifier was inserted
    renamed,    \* history: the name an API call gave a live row
    deleted     \* history: how often the API deleted each identifier

queue == <<task, key, batch, runs, owner>>
worker == <<job, sent>>
history == <<inserted, renamed, deleted>>
vars == <<table, queue, worker, settings, history>>

-----------------------------------------------------------------------------
(* The API. *)

(* widgets_name_key *)
Unique(rows) == \A x, y \in Ids : x # y /\ rows[x] # None => rows[x] # rows[y]

Create(id, n) ==
    /\ ~settings.readOnly
    /\ inserted[id] = 0
    /\ table' = [table EXCEPT ![id] = n]
    /\ Unique(table')
    /\ inserted' = [inserted EXCEPT ![id] = 1]
    /\ UNCHANGED <<renamed, deleted, queue, worker, settings>>

Rename(id, n) ==
    /\ ~settings.readOnly
    /\ table[id] # None
    /\ table' = [table EXCEPT ![id] = n]
    /\ Unique(table')
    /\ renamed' = [renamed EXCEPT ![id] = n]
    /\ UNCHANGED <<inserted, deleted, queue, worker, settings>>

Delete(id) ==
    /\ ~settings.readOnly
    /\ table[id] # None
    /\ table' = [table EXCEPT ![id] = None]
    /\ renamed' = [renamed EXCEPT ![id] = None]
    /\ deleted' = [deleted EXCEPT ![id] = @ + 1]
    /\ UNCHANGED <<inserted, queue, worker, settings>>

SaveSettings(readOnly, limit) ==
    /\ settings' = [readOnly |-> readOnly, limit |-> limit]
    /\ UNCHANGED <<table, queue, worker, history>>

(* A task with the key is in the queue.  Whether a dead letter counts is   *)
(* the library's affair: the model lets a second task in, or not.          *)
Queued(k) == k # NoKey /\ \E t \in Tasks : task[t] = "queued" /\ key[t] = k

Schedule(t, k, names) ==
    /\ ~settings.readOnly
    /\ \A i \in DOMAIN names : i <= settings.limit
    /\ ~Queued(k)
    /\ task[t] = "unborn"
    /\ task' = [task EXCEPT ![t] = "queued"]
    /\ key' = [key EXCEPT ![t] = k]
    /\ batch' = [batch EXCEPT ![t] = names]
    /\ UNCHANGED <<table, runs, owner, worker, settings, history>>

-----------------------------------------------------------------------------
(* The workers. *)

Free(wk) ==
    /\ job' = [job EXCEPT ![wk] = None]
    /\ sent' = [sent EXCEPT ![wk] = 0]

Claim(wk, t) ==
    /\ job[wk] = None
    /\ task[t] = "queued" /\ owner[t] = None /\ runs[t] < MaxRuns
    /\ runs' = [runs EXCEPT ![t] = @ + 1]
    /\ owner' = [owner EXCEPT ![t] = wk]
    /\ job' = [job EXCEPT ![wk] = t]
    /\ UNCHANGED <<table, task, key, batch, sent, settings, history>>

(* Rows of the next statement. *)
Part(wk) == {i \in DOMAIN batch[job[wk]] : sent[wk] < i /\ i <= sent[wk] + Statement}

Row(wk, i) == <<job[wk], i>>

(* Mutants: ON CONFLICT (id) DO UPDATE, and ON CONFLICT DO NOTHING with no *)
(* target, which skips the rows with a taken name as well.                 *)
FreshAndOld(wk) == {Row(wk, i) : i \in Part(wk)}

FreshUntaken(wk) ==
    {Row(wk, i) : i \in {j \in Part(wk) :
        /\ table[Row(wk, j)] = None
        /\ \A id \in Ids : table[id] # batch[job[wk]][j]}}

(* ON CONFLICT (id) DO NOTHING: the rows whose identifier is not there. *)
Fresh(wk) == {Row(wk, i) : i \in {j \in Part(wk) : table[Row(wk, j)] = None}}

(* One statement; a taken name fails it as a whole. *)
InsertRows(wk) ==
    /\ job[wk] # None /\ Part(wk) # {}
    /\ table' = [id \in Ids |-> IF id \in Fresh(wk) THEN batch[job[wk]][id[2]] ELSE table[id]]
    /\ Unique(table')
    /\ inserted' = [id \in Ids |-> IF id \in Fresh(wk) THEN inserted[id] + 1 ELSE inserted[id]]
    /\ sent' = [sent EXCEPT ![wk] = @ + Statement]
    /\ UNCHANGED <<queue, job, settings, renamed, deleted>>

(* Mutant: the lease outlives the run. *)
ReportKeepsLease(wk, status) ==
    LET t == job[wk] IN
    IF owner[t] = wk
    THEN task' = [task EXCEPT ![t] = status] /\ UNCHANGED owner
    ELSE UNCHANGED <<task, owner>>

(* Mutant: the outcome counts whoever holds the lease. *)
ReportAnyway(wk, status) ==
    /\ task' = [task EXCEPT ![job[wk]] = status]
    /\ owner' = [owner EXCEPT ![job[wk]] = None]

(* The outcome of a run, which counts while its lease is held. *)
Report(wk, status) ==
    LET t == job[wk] IN
    IF owner[t] = wk
    THEN /\ task' = [task EXCEPT ![t] = status]
         /\ owner' = [owner EXCEPT ![t] = None]
    ELSE UNCHANGED <<task, owner>>

(* Mutant: a run is over after its first statement. *)
CompleteEarly(wk) ==
    /\ job[wk] # None /\ sent[wk] > 0
    /\ Report(wk, "done")
    /\ Free(wk)
    /\ UNCHANGED <<table, key, batch, runs, settings, history>>

(* Handle returned nil: the task is deleted. *)
Complete(wk) ==
    /\ job[wk] # None /\ Part(wk) = {}
    /\ Report(wk, "done")
    /\ Free(wk)
    /\ UNCHANGED <<table, key, batch, runs, settings, history>>

(* Mutant: the handler tries again itself. *)
FailAndResend(wk) ==
    /\ job[wk] # None /\ Part(wk) # {}
    /\ sent' = [sent EXCEPT ![wk] = 0]
    /\ UNCHANGED <<table, queue, job, settings, history>>

(* Mutant: the handler waits until no widget has the name of a row. *)
FailUnlessTaken(wk) ==
    /\ job[wk] # None
    /\ \A i \in Part(wk), id \in Ids : table[id] # batch[job[wk]][i]
    /\ Report(wk, IF runs[job[wk]] < MaxRuns THEN "queued" ELSE "dead")
    /\ Free(wk)
    /\ UNCHANGED <<table, key, batch, runs, settings, history>>

(* Handle returned an error (a taken name, a failing database, an answer   *)
(* that was lost): the task is retried or given up.                        *)
Fail(wk) ==
    /\ job[wk] # None
    /\ Report(wk, IF runs[job[wk]] < MaxRuns THEN "queued" ELSE "dead")
    /\ Free(wk)
    /\ UNCHANGED <<table, key, batch, runs, settings, history>>

(* The lease runs out under a worker that goes on. *)
Lapse(t) ==
    /\ owner[t] # None
    /\ owner' = [owner EXCEPT ![t] = None]
    /\ UNCHANGED <<table, task, key, batch, runs, worker, settings, history>>

(* A worker dies; the lease of its task lapses. *)
Crash(wk) ==
    /\ job[wk] # None
    /\ Free(wk)
    /\ owner' = [owner EXCEPT ![job[wk]] = IF @ = wk THEN None ELSE @]
    /\ UNCHANGED <<table, task, key, batch, runs, settings, history>>

(* The last run of a task was lost: the queue gives the task up, also      *)
(* under a worker that goes on.                                            *)
GiveUp(t) ==
    /\ task[t] = "queued" /\ owner[t] = None /\ runs[t] = MaxRuns
    /\ task' = [task EXCEPT ![t] = "dead"]
    /\ UNCHANGED <<table, key, batch, runs, owner, worker, settings, history>>

-----------------------------------------------------------------------------
Init ==
    /\ table = [id \in Ids |-> None]
    /\ task = [t \in Tasks |-> "unborn"]
    /\ key = [t \in Tasks |-> NoKey]
    /\ batch = [t \in Tasks |-> <<>>]
    /\ runs = [t \in Tasks |-> 0]
    /\ owner = [t \in Tasks |-> None]
    /\ job = [wk \in Workers |-> None]
    /\ sent = [wk \in Workers |-> 0]
    /\ settings = [readOnly |-> FALSE, limit |-> MaxImport]
    /\ inserted = [id \in Ids |-> 0]
    /\ renamed = [id \in Ids |-> None]
    /\ deleted = [id \in Ids |-> 0]

Serve ==
    \/ \E n \in Names :
          \/ \E id \in Created : Create(id, n)
          \/ \E id \in Ids : Rename(id, n)
    \/ \E id \in Ids : Delete(id)
    \/ \E readOnly \in BOOLEAN, limit \in 1 .. MaxImport : SaveSettings(readOnly, limit)
    \/ \E t \in Tasks, k \in Keys \cup {NoKey}, names \in Batch : Schedule(t, k, names)

Handle(wk) == InsertRows(wk) \/ Complete(wk) \/ Fail(wk)

Next ==
    \/ Serve
    \/ \E wk \in Workers :
          \/ \E t \in Tasks : Claim(wk, t)
          \/ Handle(wk)
          \/ Crash(wk)
    \/ \E t \in Tasks : Lapse(t) \/ GiveUp(t)

Spec == Init /\ [][Next]_vars

(* The workers keep running: each handler returns, and a task that waits   *)
(* is claimed by whoever is free, or given up when it has no run left.     *)
FairSpec ==
    /\ Spec
    /\ \A wk \in Workers : WF_vars(Handle(wk))
    /\ \A t \in Tasks : WF_vars(GiveUp(t) \/ \E wk \in Workers : Claim(wk, t))

-----------------------------------------------------------------------------
(* The variables have their types, and a lease belongs to the worker that  *)
(* runs its task, which is in the queue.                                   *)
TypeOK ==
    /\ table \in [Ids -> Names \cup {None}]
    /\ task \in [Tasks -> {"unborn", "queued", "done", "dead"}]
    /\ key \in [Tasks -> Keys \cup {NoKey}]
    /\ batch \in [Tasks -> Batch \cup {<<>>}]
    /\ runs \in [Tasks -> 0 .. MaxRuns]
    /\ owner \in [Tasks -> Workers \cup {None}]
    /\ job \in [Workers -> Tasks \cup {None}]
    /\ sent \in [Workers -> Nat]
    /\ settings \in [readOnly : BOOLEAN, limit : 1 .. MaxImport]
    /\ inserted \in [Ids -> Nat]
    /\ renamed \in [Ids -> Names \cup {None}]
    /\ deleted \in [Ids -> Nat]
    /\ \A t \in Tasks : owner[t] # None => task[t] = "queued" /\ job[owner[t]] = t

(* A completed import put every row of its batch into the table, whatever  *)
(* failed, crashed or ran twice on the way (Importer.Handle).              *)
DoneIsImported ==
    \A t \in Tasks : task[t] = "done" =>
        \A i \in DOMAIN batch[t] : inserted[<<t, i>>] > 0

(* A run of a task inserts a row at most once: a widget that was deleted   *)
(* comes back only with another run (Importer.Handle, repo.BulkInsert).    *)
OncePerRun ==
    \A t \in Tasks : \A i \in 1 .. MaxImport : inserted[<<t, i>>] <= runs[t]

(* A replay of a batch leaves the widgets that are there alone: a rename   *)
(* stands until the widget is deleted (repo.BulkInsert).                   *)
RenameStands ==
    \A id \in Ids : renamed[id] # None => table[id] = renamed[id]

(* A batch that fits one statement is in the table whole or not at all,    *)
(* also when it is given up over a taken name (repo.BulkInsert).           *)
Whole ==
    \A t \in Tasks : DOMAIN batch[t] \subseteq 1 .. Statement =>
        \A i, j \in DOMAIN batch[t] : inserted[<<t, i>>] > 0 => inserted[<<t, j>>] > 0

(* A task is settled by the worker that holds its lease, done only when it *)
(* has sent all rows, or, after its last run was lost, by the queue: the   *)
(* outcome of a worker whose lease lapsed does not settle the run of the   *)
(* next one (server.go, initWorkers).                                      *)
LeaseDecides ==
    [][\A t \in Tasks : task[t] # "unborn" /\ task'[t] # task[t] =>
          /\ task[t] = "queued"
          /\ IF owner[t] = None THEN runs[t] = MaxRuns /\ task'[t] = "dead"
             ELSE /\ job'[owner[t]] = None
                  /\ task'[t] = "done" => Part(owner[t]) = {}]_vars

(* "A batch already in the queue is imported" (Importer.Schedule), or      *)
(* given up: a taken name, a crash or a lapse, of the last run too, does   *)
(* not leave it there.                                                     *)
Settles ==
    \A t \in Tasks : task[t] = "queued" ~> task[t] \in {"done", "dead"}

(* Why it does: a task in the queue comes nearer to its last run with each *)
(* claim, lapse, crash or failure, and settles for good; a run has         *)
(* boundedly many steps, of which nothing that others do makes more.       *)
RunsLeft(t) == 2 * (MaxRuns - runs[t]) + (IF owner[t] = None THEN 0 ELSE 1)

TaskNearer ==
    \A t \in Tasks : task[t] # "unborn" =>
        \/ UNCHANGED <<task[t], runs[t], owner[t]>>
        \/ task[t] = "queued" /\ task'[t] \in {"done", "dead"}
        \/ /\ task[t] = "queued" /\ task'[t] = "queued"
           /\ RunsLeft(t)' \in 0 .. (RunsLeft(t) - 1)

StepsLeft(wk) ==
    IF job[wk] = None THEN 0 ELSE 1 + (IF sent[wk] < MaxImport THEN MaxImport - sent[wk] ELSE 0)

RunNearer ==
    \A wk \in Workers : job[wk] # None =>
        UNCHANGED <<job[wk], sent[wk]>> \/ StepsLeft(wk)' \in 0 .. (StepsLeft(wk) - 1)

RunsEnd == [][TaskNearer /\ RunNearer]_vars

(* A name that is posted again while its batch is in the queue adds none   *)
(* (Importer.Schedule, queueDedupKey).                                     *)
OneQueuedPerKey ==
    \A t, u \in Tasks :
        task[t] = "queued" /\ task[u] = "queued" /\ key[t] = key[u] /\ key[t] # NoKey => t = u

(* BulkInsert is there "to make replays harmless" (widgetimport.go): what  *)
(* an import inserted once no replay inserts again.                        *)
ReplayHarmless == \A id \in Ids : inserted[id] <= 1

(* How far that goes: a row is inserted once, and once more at most for    *)
(* each time the API deleted its widget, over all statements and runs.     *)
RevivesDeletedOnly == \A id \in Ids : inserted[id] <= 1 + deleted[id]

-----------------------------------------------------------------------------
(* The inductive invariant. *)

(* Workers that have a row of a task still to send. *)
Owing(t, i) == {wk \in Workers : job[wk] = t /\ sent[wk] < i}

(* A row was inserted by a run that has sent it: the others still owe it. *)
RunsInv ==
    \A t \in Tasks : \A i \in 1 .. MaxImport :
        inserted[<<t, i>>] + Cardinality(Owing(t, i)) <= runs[t]

TaskInv ==
    \A t \in Tasks :
        IF task[t] = "unborn" THEN batch[t] = <<>> /\ runs[t] = 0 ELSE batch[t] \in Batch

(* What a worker has sent was inserted. *)
WorkerInv ==
    \A wk \in Workers :
        /\ sent[wk] = 0 \/ sent[wk] >= Statement
        /\ job[wk] = None => sent[wk] = 0
        /\ job[wk] # None =>
              /\ task[job[wk]] # "unborn"
              /\ \A i \in DOMAIN batch[job[wk]] :
                    i <= sent[wk] => inserted[<<job[wk], i>>] > 0

(* Each identifier was inserted as often as deleted, and once more while   *)
(* its row is there.                                                       *)
RowInv ==
    \A id \in Ids : inserted[id] = deleted[id] + (IF table[id] = None THEN 0 ELSE 1)

IInv ==
    /\ TypeOK /\ RunsInv /\ TaskInv /\ WorkerInv /\ RowInv
    /\ RenameStands /\ DoneIsImported /\ Whole
=============================================================================
