------------------------------- MODULE Users --------------------------------
(***************************************************************************)
(* The REST routes of the users: create, get, update and delete on a table *)
(* with a unique email.  Every statement is a transaction of its own; an   *)
(* update is a read, a merge in memory and a write, and other requests run *)
(* in between.                                                             *)
(*                                                                         *)
(* Abstracted: the identifier of a user is the request that made it        *)
(* (uuid.New never repeats one); a body or an id in the path that does not *)
(* parse or validate is Bad; timestamps are left out; two emails are the   *)
(* same when the column says so.                                           *)
(***************************************************************************)
EXTENDS Naturals

CONSTANTS
    Requests,       \* requests; a user has the identifier of its create
    Emails, Names,
    Nil,            \* a nil field
    Bad,            \* in a call that does not parse or validate
    NoRow, NoCall, NoReply

Row == [email: Emails, name: Names]

Calls == [op: {"create", "get", "update", "delete"}, id: Requests,
          email: Emails \cup {Nil}, name: Names \cup {Nil, Bad}]

Statuses == {"ok", "invalid", "exists", "not_found", "internal", "lost"}
Replies == [status: Statuses, row: Row \cup {NoRow}]

ASSUME UsersAssumption ==
    /\ Nil \notin Emails \cup Names /\ Bad \notin Names \cup {Nil}
    /\ NoRow \notin Row /\ NoCall \notin Calls /\ NoReply \notin Replies

VARIABLES
    rows,       \* the users table
    applied,    \* history: requests whose write took effect
    raced,      \* history: updates whose row was written under them
    phase,      \* per request: idle, start, write (an update that has read) or done
    call,       \* per request, its call
    u,          \* per update, the merged user
    reply       \* per request, its answer

table == <<rows, applied, raced>>
request == <<phase, call, u, reply>>
vars == <<table, request>>

InFlight == {"start", "write"}

Answer(status, row) == [status |-> status, row |-> row]

Finish(r, response) ==
    /\ phase' = [phase EXCEPT ![r] = "done"]
    /\ reply' = [reply EXCEPT ![r] = response]
    /\ u' = [u EXCEPT ![r] = NoRow]
    /\ UNCHANGED call

(* users_email_key, against every user but this one. *)
Taken(e, id) == \E o \in Requests \ {id} : rows[o] # NoRow /\ rows[o].email = e

-----------------------------------------------------------------------------
CallsOf(r) ==
         [op: {"create"}, id: {r}, email: Emails, name: Names \cup {Bad}]
    \cup [op: {"update"}, id: Requests, email: Emails \cup {Nil}, name: Names \cup {Nil, Bad}]
    \cup [op: {"get", "delete"}, id: Requests, email: {Nil}, name: {Nil, Bad}]

Arrive(r, c) ==
    /\ phase[r] = "idle"
    /\ phase' = [phase EXCEPT ![r] = "start"]
    /\ call' = [call EXCEPT ![r] = c]
    /\ UNCHANGED <<u, reply, table>>

Runs(r, op) == phase[r] = "start" /\ call[r].op = op /\ call[r].name # Bad

(* A write takes effect: the row, and the updates it goes under. *)
Write(r, id, row) ==
    /\ rows' = [rows EXCEPT ![id] = row]
    /\ applied' = applied \cup {r}
    /\ raced' = raced \cup {o \in Requests \ {r} : phase[o] = "write" /\ call[o].id = id}

(* Its answer, or Internal or nothing when that was lost. *)
Acknowledge(r, response) ==
    \E a \in {response, Answer("internal", NoRow), Answer("lost", NoRow)} : Finish(r, a)

-----------------------------------------------------------------------------
Reject(r) ==
    /\ phase[r] = "start" /\ call[r].name = Bad
    /\ Finish(r, Answer("invalid", NoRow))
    /\ UNCHANGED table

Insert(r) ==
    LET row == [email |-> call[r].email, name |-> call[r].name] IN
    /\ Runs(r, "create") /\ ~Taken(row.email, r)
    /\ Write(r, r, row)
    /\ Acknowledge(r, Answer("ok", row))

QueryByID(r) ==
    /\ Runs(r, "get") /\ rows[call[r].id] # NoRow
    /\ Finish(r, Answer("ok", rows[call[r].id]))
    /\ UNCHANGED table

Given(new, old) == IF new = Nil THEN old ELSE new

(* Mutant: the fields of the body are taken without the nil checks. *)
MergedBlindly(c, row) == [email |-> c.email, name |-> c.name]

Merged(c, row) == [email |-> Given(c.email, row.email), name |-> Given(c.name, row.name)]

ReadRow(r) ==
    /\ Runs(r, "update") /\ rows[call[r].id] # NoRow
    /\ u' = [u EXCEPT ![r] = Merged(call[r], rows[call[r].id])]
    /\ phase' = [phase EXCEPT ![r] = "write"]
    /\ UNCHANGED <<call, reply, table>>

(* Mutant: an upsert, which does not miss a deleted row. *)
Upsert(r) ==
    LET id == call[r].id IN
    /\ phase[r] = "write" /\ ~Taken(u[r].email, id)
    /\ Write(r, id, u[r])
    /\ Acknowledge(r, Answer("ok", u[r]))

Overwrite(r) ==
    LET id == call[r].id IN
    /\ phase[r] = "write" /\ rows[id] # NoRow /\ ~Taken(u[r].email, id)
    /\ Write(r, id, u[r])
    /\ Acknowledge(r, Answer("ok", u[r]))

Erase(r) ==
    /\ Runs(r, "delete") /\ rows[call[r].id] # NoRow
    /\ Write(r, call[r].id, NoRow)
    /\ Acknowledge(r, Answer("ok", NoRow))

(* writeErr: the row that is there may be updated, the new one inserted,   *)
(* but for the email of another.                                           *)
Duplicate(r) ==
    /\ \/ Runs(r, "create") /\ Taken(call[r].email, r)
       \/ phase[r] = "write" /\ rows[call[r].id] # NoRow /\ Taken(u[r].email, call[r].id)
    /\ Finish(r, Answer("exists", NoRow))
    /\ UNCHANGED table

Missing(r) ==
    /\ phase[r] = "write" \/ \E op \in {"get", "update", "delete"} : Runs(r, op)
    /\ rows[call[r].id] = NoRow
    /\ Finish(r, Answer("not_found", NoRow))
    /\ UNCHANGED table

StoreFails(r) ==
    /\ phase[r] \in InFlight /\ call[r].name # Bad
    /\ Finish(r, Answer("internal", NoRow))
    /\ UNCHANGED table

(* A replica ends under its requests. *)
Crash(gone) ==
    /\ gone # {} /\ \A r \in gone : phase[r] \in InFlight
    /\ phase' = [r \in Requests |-> IF r \in gone THEN "done" ELSE phase[r]]
    /\ reply' = [r \in Requests |-> IF r \in gone THEN Answer("lost", NoRow) ELSE reply[r]]
    /\ u' = [r \in Requests |-> IF r \in gone THEN NoRow ELSE u[r]]
    /\ UNCHANGED <<call, table>>

Init ==
    /\ rows = [r \in Requests |-> NoRow] /\ applied = {} /\ raced = {}
    /\ phase = [r \in Requests |-> "idle"]
    /\ call = [r \in Requests |-> NoCall]
    /\ u = [r \in Requests |-> NoRow]
    /\ reply = [r \in Requests |-> NoReply]

Serve(r) ==
    \/ Reject(r) \/ Insert(r) \/ QueryByID(r) \/ ReadRow(r) \/ Overwrite(r) \/ Erase(r)
    \/ Duplicate(r) \/ Missing(r) \/ StoreFails(r)

Next ==
    \/ \E r \in Requests : Serve(r) \/ \E c \in CallsOf(r) : Arrive(r, c)
    \/ \E gone \in SUBSET Requests : Crash(gone)

Spec == Init /\ [][Next]_vars

-----------------------------------------------------------------------------
(* The variables have their types. *)
TypeOK ==
    /\ rows \in [Requests -> Row \cup {NoRow}]
    /\ applied \subseteq Requests /\ raced \subseteq Requests
    /\ phase \in [Requests -> InFlight \cup {"idle", "done"}]
    /\ call \in [Requests -> Calls \cup {NoCall}]
    /\ u \in [Requests -> Row \cup {NoRow}]
    /\ reply \in [Requests -> Replies \cup {NoReply}]

(* No two users have one email (users_email_key), also when an update that *)
(* read a free email writes after another took it.                         *)
EmailsUnique ==
    \A i, j \in Requests : i # j /\ rows[i] # NoRow /\ rows[j] # NoRow =>
        rows[i].email # rows[j].email

(* A refused write left nothing behind and an acknowledged one took        *)
(* effect, through the error mapping of store, Core and handler.           *)
ReplyTruthful ==
    \A r \in Requests : reply[r] # NoReply =>
        /\ reply[r].status \in {"invalid", "exists", "not_found"} => r \notin applied
        /\ reply[r].status = "ok" => r \in applied \/ call[r].op = "get"

(* "Nil fields are left unchanged" (UpdateUser) as far as the read and the *)
(* write of an update leave it: a field changes only under an update that  *)
(* was given it, or one whose row was written since it read it.            *)
OnlyRacesUndo ==
    [][\A r, id \in Requests :
         phase[r] = "write" /\ phase'[r] = "done" /\ r \in applied' /\ call[r].id = id
             /\ r \notin raced =>
             /\ rows'[id].email # rows[id].email => call[r].email # Nil
             /\ rows'[id].name # rows[id].name => call[r].name # Nil]_vars

(* Users implement their directory: what a client is told was so. *)
Heard(r) ==
    IF reply[r] = NoReply THEN [status |-> "none", row |-> NoRow]
    ELSE IF reply[r].status \in {"internal", "lost"} THEN [status |-> "unknown", row |-> NoRow]
    ELSE reply[r]

Directory ==
    INSTANCE UserDirectory WITH
        born <- {r \in applied : call[r].op = "create"},
        answer <- [r \in Requests |-> Heard(r)]

ImplementsDirectory == Directory!Spec

-----------------------------------------------------------------------------
(* The inductive invariant: what a request is doing follows from its call, *)
(* and an update that nobody raced holds the row merged with its call.     *)

RequestInv(r) ==
    /\ phase[r] = "idle" => reply[r] = NoReply /\ call[r] = NoCall
    /\ phase[r] # "idle" => call[r] \in CallsOf(r)
    /\ phase[r] # "done" => reply[r] = NoReply /\ r \notin applied
    /\ phase[r] = "done" => reply[r] # NoReply
    /\ phase[r] = "write" => call[r].op = "update" /\ call[r].name # Bad /\ u[r] \in Row
    /\ rows[r] # NoRow => r \in applied /\ call[r].op = "create"

MergeInv(r) ==
    phase[r] = "write" /\ r \notin raced =>
        /\ rows[call[r].id] # NoRow
        /\ u[r] = Merged(call[r], rows[call[r].id])

IInv ==
    /\ TypeOK /\ EmailsUnique /\ ReplyTruthful
    /\ \A r \in Requests : RequestInv(r) /\ MergeInv(r)
=============================================================================
