----------------------------- MODULE WidgetCore -----------------------------
(***************************************************************************)
(* Concurrent Create, Update and Delete requests on widget.Core, served by *)
(* several replicas over one Postgres.  Every request is a process; a step *)
(* is a statement of the database, a commit, or a call to the in-process   *)
(* bus, so requests interleave wherever the code lets another one in.      *)
(*                                                                         *)
(* The transaction of Core.insert is modelled as Postgres runs it: the     *)
(* inserted row holds its name against other writers until the commit, is  *)
(* invisible before it, and the closure may run again after a deadlock.    *)
(* A commit, or a single statement, may take effect although its answer is *)
(* lost.  A replica may crash between any two steps.                       *)
(*                                                                         *)
(* Abstracted: identifiers are those of the creating request (uuid.New     *)
(* never repeats one), timestamps are left out, the settings keep their    *)
(* ReadOnly field.                                                         *)
(***************************************************************************)
EXTENDS Naturals, FiniteSets

CONSTANTS
    Requests,   \* requests; a widget has the identifier of its create
    Replicas,   \* processes that serve the API
    Names, Descs,
    Nil,        \* a nil field of UpdateWidget, and "no replica"
    NoRow,      \* no row in the table
    NoCall,     \* a request that has not arrived
    Broker,     \* the broker is on
    Faults,     \* stores, buses and replicas may fail
    MaxReruns   \* bound: how often a transaction is run again

Row == [name: Names, desc: Descs]

Ops == {"create", "update", "delete"}

(* A call on the Core: the operation, the widget it is about (its own      *)
(* identifier for a create) and the fields it brings, Nil when absent.     *)
Calls == [op: Ops, id: Requests, name: Names \cup {Nil}, desc: Descs \cup {Nil}]

ASSUME CoreAssumption ==
    /\ Nil \notin Names \cup Descs \cup Replicas
    /\ NoRow \notin Row
    /\ NoCall \notin Calls
    /\ Broker \in BOOLEAN /\ Faults \in BOOLEAN
    /\ MaxReruns \in Nat

VARIABLES
    rows,       \* the widgets table, committed
    outbox,     \* per widget, the committed widget.created tasks
    stored,     \* ReadOnly of the settings document in the database
    seen,       \* ReadOnly each replica has in memory
    up,         \* replicas that run
    created,    \* per replica, the requests its created counter counted
    webhook,    \* creates delivered to the webhook
    audit,      \* requests whose snapshot is in the audit log
    phase,      \* per request, what it does next
    call,       \* per request, its call
    at,         \* per request in flight, its replica
    w,          \* per request, the variable w of its handler
    pending,    \* per request, tasks scheduled in its open transaction
    runs,       \* per request, how often its transaction was run again
    reply,      \* per request, its answer
    applied,    \* history: requests whose write took effect
    raced       \* history: updates whose row was written under them

database == <<rows, outbox, applied, raced>>
replica == <<stored, seen, up>>
effects == <<created, webhook, audit>>
handler == <<phase, call, at, w, pending, runs, reply>>
vars == <<database, replica, effects, handler>>

InTx == {"insert", "schedule", "commit"}
InFlight == InTx \cup {"notify", "audit", "read", "write", "remove"}
Refusals == {"exists", "not_found", "unavailable"}
Replies == Refusals \cup {"none", "ok", "internal", "lost"}

-----------------------------------------------------------------------------
(* The handler's answer ends the request; its local state is gone. *)

Finish(r, answer) ==
    /\ phase' = [phase EXCEPT ![r] = "done"]
    /\ reply' = [reply EXCEPT ![r] = answer]
    /\ at' = [at EXCEPT ![r] = Nil]
    /\ w' = [w EXCEPT ![r] = NoRow]
    /\ pending' = [pending EXCEPT ![r] = 0]
    /\ runs' = [runs EXCEPT ![r] = 0]
    /\ UNCHANGED call

Goto(r, p) ==
    /\ phase' = [phase EXCEPT ![r] = p]
    /\ UNCHANGED <<call, at, reply>>

(* widgets_name_key: the name belongs to another committed row, or to the  *)
(* row of a transaction that has neither committed nor rolled back.        *)
Taken(n, id) ==
    \E o \in Requests \ {id} : rows[o] # NoRow /\ rows[o].name = n

(* Mutants: a lookup before the write in place of the unique index, and a  *)
(* name that is held from the moment the transaction begins.               *)
HeldByNobody(n, id) == FALSE

HeldFromTheStart(n, id) ==
    \E o \in Requests \ {id} : phase[o] \in InTx /\ w[o].name = n

Held(n, id) ==
    \E o \in Requests \ {id} :
        phase[o] \in {"schedule", "commit"} /\ w[o].name = n

(* A write takes effect: the row, and the updates it goes under. *)
Write(r, id, row) ==
    /\ rows' = [rows EXCEPT ![id] = row]
    /\ applied' = applied \cup {r}
    /\ raced' = raced \cup {o \in Requests \ {r} : phase[o] = "write" /\ call[o].id = id}

-----------------------------------------------------------------------------
(* Arrival: every operation first reads the settings of its replica. *)

CallsOf(r) ==
         [op: {"create"}, id: {r}, name: Names, desc: Descs]
    \cup [op: {"update"}, id: Requests, name: Names \cup {Nil}, desc: Descs \cup {Nil}]
    \cup [op: {"delete"}, id: Requests, name: {Nil}, desc: {Nil}]

FirstPhase == [create |-> "insert", update |-> "read", delete |-> "remove"]

Writable(p) == ~seen[p]

Accept(r, p, c) ==
    /\ phase[r] = "idle" /\ p \in up /\ Writable(p)
    /\ phase' = [phase EXCEPT ![r] = FirstPhase[c.op]]
    /\ call' = [call EXCEPT ![r] = c]
    /\ at' = [at EXCEPT ![r] = p]
    /\ w' = [w EXCEPT ![r] = IF c.op = "create"
                             THEN [name |-> c.name, desc |-> c.desc]
                             ELSE NoRow]
    /\ UNCHANGED <<pending, runs, reply, database, replica, effects>>

Refuse(r, p, c) ==
    /\ phase[r] = "idle" /\ p \in up /\ ~Writable(p)
    /\ phase' = [phase EXCEPT ![r] = "done"]
    /\ call' = [call EXCEPT ![r] = c]
    /\ reply' = [reply EXCEPT ![r] = "unavailable"]
    /\ UNCHANGED <<at, w, pending, runs, database, replica, effects>>

-----------------------------------------------------------------------------
(* Create: the row and its event in one transaction. *)

(* The primary key or the name is in the table. *)
Duplicate(r) == rows[r] # NoRow \/ Taken(w[r].name, r)

InsertRow(r) ==
    /\ phase[r] = "insert"
    /\ ~Duplicate(r) /\ ~Held(w[r].name, r)
    /\ Goto(r, "schedule")
    /\ UNCHANGED <<w, pending, runs, database, replica, effects>>

InsertDuplicate(r) ==
    /\ phase[r] = "insert"
    /\ Duplicate(r)
    /\ Finish(r, "exists")
    /\ UNCHANGED <<database, replica, effects>>

(* The route of the event: the queue of events, or Drop without a broker. *)
ScheduleEvent(r) ==
    /\ phase[r] = "schedule"
    /\ pending' = [pending EXCEPT ![r] = IF Broker THEN @ + 1 ELSE @]
    /\ Goto(r, "commit")
    /\ UNCHANGED <<w, runs, database, replica, effects>>

Land(r) ==
    /\ Write(r, r, w[r])
    /\ outbox' = [outbox EXCEPT ![r] = @ + pending[r]]

Commit(r) ==
    /\ phase[r] = "commit"
    /\ Land(r)
    /\ Goto(r, "notify")
    /\ UNCHANGED <<w, pending, runs, replica, effects>>

(* Mutant: a create whose commit was not answered is counted all the same. *)
CommitUnknownCounted(r) ==
    /\ Faults /\ phase[r] = "commit"
    /\ Land(r)
    /\ created' = [created EXCEPT ![at[r]] = @ \cup {r}]
    /\ Finish(r, "internal")
    /\ UNCHANGED <<webhook, audit, replica>>

(* The commit took effect, its answer did not come back. *)
CommitUnknown(r) ==
    /\ Faults /\ phase[r] = "commit"
    /\ Land(r)
    /\ Finish(r, "internal")
    /\ UNCHANGED <<replica, effects>>

(* Mutant: a closure that keeps state between runs. *)
RerunWithState(r) ==
    /\ Faults /\ phase[r] \in InTx /\ runs[r] < MaxReruns
    /\ runs' = [runs EXCEPT ![r] = @ + 1]
    /\ Goto(r, "insert")
    /\ UNCHANGED <<w, pending, database, replica, effects>>

(* Postgres broke a deadlock or a serialization conflict by rolling this   *)
(* transaction back; the closure runs from its start.                      *)
Rerun(r) ==
    /\ Faults /\ phase[r] \in InTx /\ runs[r] < MaxReruns
    /\ pending' = [pending EXCEPT ![r] = 0]
    /\ runs' = [runs EXCEPT ![r] = @ + 1]
    /\ Goto(r, "insert")
    /\ UNCHANGED <<w, database, replica, effects>>

(* created.Inc and the synchronous bus: a failed delivery is only logged.  *)
Notify(r) ==
    /\ phase[r] = "notify"
    /\ created' = [created EXCEPT ![at[r]] = @ \cup {r}]
    /\ \E delivered \in BOOLEAN :
          webhook' = IF delivered THEN webhook \cup {r} ELSE webhook
    /\ Goto(r, "audit")
    /\ UNCHANGED <<w, pending, runs, audit, database, replica>>

(* publishAudit, then the answer of a create or an update. *)
PublishAudit(r) ==
    /\ phase[r] = "audit"
    /\ \E recorded \in BOOLEAN :
          /\ recorded \/ Faults
          /\ audit' = IF recorded THEN audit \cup {r} ELSE audit
    /\ Finish(r, "ok")
    /\ UNCHANGED <<created, webhook, database, replica>>

-----------------------------------------------------------------------------
(* Update: a read, the merge in memory, a write of the whole row. *)

Given(new, old) == IF new = Nil THEN old ELSE new

(* Mutant: the fields of the call are taken without the nil checks. *)
MergedBlindly(c, row) == [name |-> c.name, desc |-> c.desc]

Merged(c, row) == [name |-> Given(c.name, row.name), desc |-> Given(c.desc, row.desc)]

ReadRow(r) ==
    /\ phase[r] = "read"
    /\ rows[call[r].id] # NoRow
    /\ w' = [w EXCEPT ![r] = Merged(call[r], rows[call[r].id])]
    /\ Goto(r, "write")
    /\ UNCHANGED <<pending, runs, database, replica, effects>>

(* Mutant: an upsert, which does not miss a deleted row. *)
Upsert(r) ==
    /\ phase[r] = "write"
    /\ ~Taken(w[r].name, call[r].id) /\ ~Held(w[r].name, call[r].id)
    /\ Write(r, call[r].id, w[r])
    /\ UNCHANGED outbox

Overwrite(r) ==
    /\ phase[r] = "write"
    /\ rows[call[r].id] # NoRow
    /\ ~Taken(w[r].name, call[r].id) /\ ~Held(w[r].name, call[r].id)
    /\ Write(r, call[r].id, w[r])
    /\ UNCHANGED outbox

WriteRow(r) ==
    /\ Overwrite(r)
    /\ Goto(r, "audit")
    /\ UNCHANGED <<w, pending, runs, replica, effects>>

WriteUnknown(r) ==
    /\ Faults
    /\ Overwrite(r)
    /\ Finish(r, "internal")
    /\ UNCHANGED <<replica, effects>>

(* The new name is of another widget: not mapped, an Internal error. *)
WriteDuplicate(r) ==
    /\ phase[r] = "write"
    /\ rows[call[r].id] # NoRow /\ Taken(w[r].name, call[r].id)
    /\ Finish(r, "internal")
    /\ UNCHANGED <<database, replica, effects>>

(* Delete: one statement; its effect is not published. *)

Erase(r) ==
    /\ phase[r] = "remove"
    /\ rows[call[r].id] # NoRow
    /\ Write(r, call[r].id, NoRow)
    /\ UNCHANGED outbox

RemoveRow(r) ==
    /\ Erase(r)
    /\ Finish(r, "ok")
    /\ UNCHANGED <<replica, effects>>

RemoveUnknown(r) ==
    /\ Faults
    /\ Erase(r)
    /\ Finish(r, "internal")
    /\ UNCHANGED <<replica, effects>>

(* No row with this identifier: QueryByID found none, or the statement     *)
(* changed none.                                                           *)
Missing(r) ==
    /\ phase[r] \in {"read", "write", "remove"}
    /\ rows[call[r].id] = NoRow
    /\ Finish(r, "not_found")
    /\ UNCHANGED <<database, replica, effects>>

(* The store failed and nothing took effect. *)
StoreFails(r) ==
    /\ Faults /\ phase[r] \in InTx \cup {"read", "write", "remove"}
    /\ Finish(r, "internal")
    /\ UNCHANGED <<database, replica, effects>>

-----------------------------------------------------------------------------
(* Replicas and the settings of the admin. *)

(* Requests of the replica end without an answer, their transactions roll  *)
(* back, its counter starts again from zero.                               *)
Crash(p) ==
    LET gone == {r \in Requests : phase[r] \in InFlight /\ at[r] = p} IN
    /\ Faults /\ p \in up
    /\ up' = up \ {p}
    /\ phase' = [r \in Requests |-> IF r \in gone THEN "done" ELSE phase[r]]
    /\ reply' = [r \in Requests |-> IF r \in gone THEN "lost" ELSE reply[r]]
    /\ at' = [r \in Requests |-> IF r \in gone THEN Nil ELSE at[r]]
    /\ w' = [r \in Requests |-> IF r \in gone THEN NoRow ELSE w[r]]
    /\ pending' = [r \in Requests |-> IF r \in gone THEN 0 ELSE pending[r]]
    /\ runs' = [r \in Requests |-> IF r \in gone THEN 0 ELSE runs[r]]
    /\ created' = [created EXCEPT ![p] = {}]
    /\ UNCHANGED <<call, stored, seen, webhook, audit, database>>

(* Mutant: the start goes on with the default settings. *)
BootOnDefaults(p) ==
    /\ p \notin up
    /\ up' = up \cup {p}
    /\ seen' = [seen EXCEPT ![p] = FALSE]
    /\ UNCHANGED <<stored, database, effects, handler>>

(* settings.New reads the stored document; a failed read fails the start.  *)
Boot(p) ==
    /\ p \notin up
    /\ up' = up \cup {p}
    /\ seen' = [seen EXCEPT ![p] = stored]
    /\ UNCHANGED <<stored, database, effects, handler>>

(* PUT /admin/widget-settings on p: stored, and in force on p at once. *)
SaveSettings(p, readOnly) ==
    /\ p \in up
    /\ stored' = readOnly
    /\ seen' = [seen EXCEPT ![p] = readOnly]
    /\ UNCHANGED <<up, database, effects, handler>>

(* The periodic reread of the other replicas. *)
Reread(p) ==
    /\ p \in up
    /\ seen' = [seen EXCEPT ![p] = stored]
    /\ UNCHANGED <<stored, up, database, effects, handler>>

-----------------------------------------------------------------------------
Init ==
    /\ rows = [r \in Requests |-> NoRow]
    /\ outbox = [r \in Requests |-> 0]
    /\ stored = FALSE
    /\ seen = [p \in Replicas |-> FALSE]
    /\ up = Replicas
    /\ created = [p \in Replicas |-> {}]
    /\ webhook = {} /\ audit = {}
    /\ phase = [r \in Requests |-> "idle"]
    /\ call = [r \in Requests |-> NoCall]
    /\ at = [r \in Requests |-> Nil]
    /\ w = [r \in Requests |-> NoRow]
    /\ pending = [r \in Requests |-> 0]
    /\ runs = [r \in Requests |-> 0]
    /\ reply = [r \in Requests |-> "none"]
    /\ applied = {} /\ raced = {}

Arrive(r) ==
    \E p \in Replicas, c \in CallsOf(r) : Accept(r, p, c) \/ Refuse(r, p, c)

(* What a handler does when the database and the bus answer it. *)
Proceed(r) ==
    \/ InsertRow(r)
    \/ InsertDuplicate(r)
    \/ ScheduleEvent(r)
    \/ Commit(r)
    \/ Notify(r)
    \/ PublishAudit(r)
    \/ ReadRow(r)
    \/ WriteRow(r)
    \/ WriteDuplicate(r)
    \/ RemoveRow(r)
    \/ Missing(r)

(* What may befall it instead. *)
Falter(r) ==
    \/ CommitUnknown(r)
    \/ Rerun(r)
    \/ WriteUnknown(r)
    \/ RemoveUnknown(r)
    \/ StoreFails(r)

Handle(r) == Proceed(r) \/ Falter(r)

Operate(p) ==
    \/ Crash(p)
    \/ Boot(p)
    \/ Reread(p)
    \/ \E readOnly \in BOOLEAN : SaveSettings(p, readOnly)

Next ==
    \/ \E r \in Requests : Arrive(r) \/ Handle(r)
    \/ \E p \in Replicas : Operate(p)

Spec == Init /\ [][Next]_vars

(* A request in flight is a goroutine that keeps being scheduled, and a    *)
(* call on the database or the bus returns unless it waits for a lock.     *)
(* That a call fails, or that a request ends by a failure, is never owed.  *)
FairSpec == Spec /\ \A r \in Requests : WF_vars(Proceed(r))

-----------------------------------------------------------------------------
Phases == InFlight \cup {"idle", "done"}

(* The variables have their types. *)
TypeOK ==
    /\ rows \in [Requests -> Row \cup {NoRow}]
    /\ outbox \in [Requests -> Nat]
    /\ stored \in BOOLEAN
    /\ seen \in [Replicas -> BOOLEAN]
    /\ up \subseteq Replicas
    /\ created \in [Replicas -> SUBSET Requests]
    /\ webhook \subseteq Requests /\ audit \subseteq Requests
    /\ phase \in [Requests -> Phases]
    /\ call \in [Requests -> Calls \cup {NoCall}]
    /\ at \in [Requests -> Replicas \cup {Nil}]
    /\ w \in [Requests -> Row \cup {NoRow}]
    /\ pending \in [Requests -> Nat]
    /\ runs \in [Requests -> 0 .. MaxReruns]
    /\ reply \in [Requests -> Replies]
    /\ applied \subseteq Requests /\ raced \subseteq Requests

(* Creates that took effect: the widgets that were ever in the table. *)
Born == {r \in applied : call[r].op = "create"}

(* widgets_name_key holds through interleaved creates and renames: two     *)
(* live widgets never share a name.                                        *)
NamesUnique ==
    \A r, o \in Requests :
        rows[r] # NoRow /\ rows[o] # NoRow /\ rows[r].name = rows[o].name => r = o

(* Core.insert: a widget that was ever committed has exactly one           *)
(* widget.created task, and a create that was rolled back, rerun or lost   *)
(* has none beyond that; without a broker nothing is scheduled.            *)
OutboxAtomic ==
    \A r \in Requests : outbox[r] = IF Broker /\ r \in Born THEN 1 ELSE 0

(* A success was committed, and an error that names its reason             *)
(* (AlreadyExists, NotFound, Unavailable) left nothing behind: only        *)
(* Internal and a lost connection leave the client in doubt.               *)
ReplyTruthful ==
    \A r \in Requests :
        /\ reply[r] = "ok" => r \in applied
        /\ reply[r] \in Refusals => r \notin applied

(* The in-process effects follow the commit: the counter, the webhook and  *)
(* the audit log never show a write that did not take effect, the webhook  *)
(* is told of creates only, and a request whose client was told of an      *)
(* error is in none of them, also when its commit did take effect and only *)
(* the answer to it was lost.                                              *)
EffectsFollowCommit ==
    /\ webhook \subseteq Born
    /\ audit \subseteq applied
    /\ \A p \in Replicas : created[p] \subseteq Born
    /\ \A r \in webhook \cup audit \cup UNION {created[p] : p \in Replicas} :
          reply[r] \in {"none", "ok", "lost"}

(* A deleted widget stays deleted, also under an Update that read it       *)
(* before the Delete and writes it after.                                  *)
DeletedStaysGone ==
    [][\A r \in Born : rows[r] = NoRow => rows'[r] = NoRow]_vars

(* Once the pause is stored, every running replica has reread it and the   *)
(* writes that were in flight are over, no widget changes until an admin   *)
(* lifts the pause: not by a replica that restarts either.                 *)
Quiet ==
    /\ stored
    /\ \A p \in up : seen[p]
    /\ \A r \in Requests : phase[r] \in {"idle", "done"}

PauseHolds == [][Quiet /\ stored' => Quiet' /\ UNCHANGED rows]_vars

(* Every request that was accepted is answered or ends with its replica,   *)
(* although nothing ever has to fail: a create that waits for the name in  *)
(* another's open transaction gets it or is told that it is taken, two     *)
(* that want one name do not wait for each other, and reruns come to an    *)
(* end.                                                                    *)
Answered ==
    \A r \in Requests : phase[r] \in InFlight ~> phase[r] = "done"

(* Why it is: the steps a request still has, reruns included, grow fewer   *)
(* with each one it takes, and nothing that others do gives it more; it    *)
(* waits only for the name of an open transaction, which waits for none.   *)
Left == [insert |-> 5, schedule |-> 4, commit |-> 3, read |-> 3, write |-> 2, notify |-> 2,
         audit |-> 1, remove |-> 1]

StepsLeft(r) ==
    IF phase[r] \in InFlight THEN Left[phase[r]] + 3 * (MaxReruns - runs[r]) ELSE 0

Still(r) == UNCHANGED <<phase[r], call[r], at[r], w[r], pending[r], runs[r]>>

Nearer ==
    \A r \in Requests : phase[r] \in InFlight =>
        Still(r) \/ StepsLeft(r)' \in 0 .. (StepsLeft(r) - 1)

HandlersEnd == [][Nearer]_vars

(* "Nil fields are left unchanged" (UpdateWidget, core/widget/model.go):   *)
(* the write of an update leaves a field it was not given as it was.       *)
KeepsNil(r) ==
    LET c == call[r] IN
    /\ c.name = Nil => rows'[c.id].name = rows[c.id].name
    /\ c.desc = Nil => rows'[c.id].desc = rows[c.id].desc

NilFieldsUnchanged ==
    [][\A r \in applied' \ applied : call[r].op = "update" => KeepsNil(r)]_vars

(* It does so but for an update whose row was written between its read and *)
(* its write: nothing else between two statements undoes a change.         *)
OnlyRacesUndo ==
    [][\A r \in (applied' \ applied) \ raced : call[r].op = "update" => KeepsNil(r)]_vars

-----------------------------------------------------------------------------
(* The inductive invariant behind the safety properties: what a request in *)
(* each phase has done and holds.                                          *)

Carries(c, row) ==
    /\ c.name # Nil => row.name = c.name
    /\ c.desc # Nil => row.desc = c.desc

RequestInv(r) ==
    /\ phase[r] = "idle" => call[r] = NoCall /\ reply[r] = "none" /\ r \notin applied
    /\ phase[r] # "idle" => call[r] \in Calls
    /\ phase[r] \in InFlight => at[r] \in Replicas /\ reply[r] = "none"
    /\ phase[r] \in InTx \cup {"notify"} =>
          /\ call[r].op = "create"
          /\ w[r] \in Row /\ w[r] = [name |-> call[r].name, desc |-> call[r].desc]
    /\ phase[r] \in InTx \cup {"read", "write", "remove"} => r \notin applied
    /\ phase[r] \in {"read", "write"} => call[r].op = "update"
    /\ phase[r] = "remove" => call[r].op = "delete"
    /\ phase[r] = "write" => w[r] \in Row /\ Carries(call[r], w[r])
    /\ phase[r] \in {"notify", "audit"} => r \in applied
    /\ phase[r] \in {"idle", "insert", "schedule"} => pending[r] = 0
    /\ phase[r] = "commit" => pending[r] = IF Broker THEN 1 ELSE 0
    /\ rows[r] # NoRow => r \in Born

(* An update that nobody raced holds the row merged with its call. *)
MergeInv(r) ==
    phase[r] = "write" /\ r \notin raced =>
        /\ rows[call[r].id] # NoRow
        /\ w[r] = Merged(call[r], rows[call[r].id])

(* The name of an open transaction is nobody else's. *)
NameLocks ==
    \A r, o \in Requests :
        phase[r] \in {"schedule", "commit"} /\ r # o =>
            /\ rows[o] # NoRow => rows[o].name # w[r].name
            /\ phase[o] \in {"schedule", "commit"} => w[o].name # w[r].name

IInv ==
    /\ TypeOK
    /\ \A r \in Requests : RequestInv(r) /\ MergeInv(r)
    /\ NamesUnique /\ NameLocks
    /\ OutboxAtomic /\ ReplyTruthful /\ EffectsFollowCommit

-----------------------------------------------------------------------------
(* What a client was told, an Internal error being no news. *)
Understood(told) == IF told \in {"internal", "lost"} THEN "unknown" ELSE told

Heard == [r \in Requests |-> Understood(reply[r])]

Registry == INSTANCE WidgetRegistry WITH
    done <- applied, answer <- Heard, announced <- outbox

(* The Core implements its promise: what requests, faults and replicas do  *)
(* to the table and the tasks, and what clients are told, is what the      *)
(* registry allows.                                                        *)
ImplementsRegistry == Registry!Spec
=============================================================================
