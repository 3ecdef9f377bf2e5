------------------------------ MODULE Products ------------------------------
(***************************************************************************)
(* The REST routes of the products, with the idempotency middleware around *)
(* POST /products (internal/app/idempotency, HTTP): requests of several    *)
(* callers, their retries under one Idempotency-Key, and the updates and   *)
(* deletes that interleave with them.                                      *)
(*                                                                         *)
(* The Keeper of the keys is a library.  As the code uses it: a key that   *)
(* is neither in progress nor answered is leased to the request that runs  *)
(* the handler; its answer is stored, or an error frees the key.  A lease  *)
(* may lapse under a slow handler, a record passes its TTL or goes with the *)
(* process of a mem:// store, and any call on the store may fail.  What the *)
(* store does with the outcome of a request that lost its lease is left    *)
(* open.                                                                   *)
(*                                                                         *)
(* Abstracted: the identifier of a product is the request that made it     *)
(* (uuid.New never repeats one); a body that does not decode or validate   *)
(* is Bad; timestamps and the encoding of a response are left out.         *)
(***************************************************************************)
EXTENDS Naturals, FiniteSets

CONSTANTS
    Requests, Callers, Headers,     \* requests, principals, Idempotency-Keys
    Names, Prices,
    Nil,        \* a nil field, no header, no product
    NoRow, NoCall, NoReply,
    Bad,        \* the name in a body that does not decode or validate
    Auth,       \* auth is on: callers are told apart
    MaxFaults   \* bound: faults of one key

Row == [name: Names, price: Prices]

Calls == [op: {"create", "update", "delete"}, by: Callers, key: Headers \cup {Nil},
          id: Requests, name: Names \cup {Nil, Bad}, price: Prices \cup {Nil}]

(* A response: its status, and the product in its body. *)
Refusals == {"invalid", "not_found", "in_progress", "unavailable"}
Statuses == Refusals \cup {"created", "ok", "internal", "lost"}
Responses == [status: Statuses, id: Requests \cup {Nil}]

ASSUME ProductsAssumption ==
    /\ IsFiniteSet(Requests)
    /\ Nil \notin Requests \cup Headers \cup Names \cup Prices
    /\ Bad \notin Names \cup {Nil}
    /\ NoRow \notin Row /\ NoCall \notin Calls /\ NoReply \notin Responses
    /\ Auth \in BOOLEAN /\ MaxFaults \in Nat

VARIABLES
    rows,       \* the products table
    applied,    \* history: requests whose write took effect
    lease,      \* per key, the request that holds it
    stored,     \* per key, the response stored for it
    faults,     \* history: per key, how often a fault let its handler run again
    phase,      \* per request, what it does next
    call,       \* per request, its call
    p,          \* per update, the merged product
    live,       \* per request, the response of its handler
    reply       \* per request, its answer

table == <<rows, applied>>
keeper == <<lease, stored, faults>>
request == <<phase, call, p, live, reply>>
vars == <<table, keeper, request>>

InFlight == {"claim", "insert", "record", "read", "write", "remove"}

Answer(status) == [status |-> status, id |-> Nil]

-----------------------------------------------------------------------------
(* Keys: the route, the owner and the header. *)

Owners == IF Auth THEN Callers ELSE {"anonymous"}
Keys == [owner: Owners, header: Headers]

(* Mutant: the key without its owner. *)
keyOfAnyone(c) == [owner |-> CHOOSE o \in Owners : TRUE, header |-> c.key]

httpKey(c) == [owner |-> IF Auth THEN c.by ELSE "anonymous", header |-> c.key]

Keyed(c) == c.op = "create" /\ c.key # Nil

Open(k) == lease[k] = Nil /\ stored[k] = NoReply

Goto(r, next) ==
    /\ phase' = [phase EXCEPT ![r] = next]
    /\ UNCHANGED <<call, reply>>

Finish(r, response) ==
    /\ phase' = [phase EXCEPT ![r] = "done"]
    /\ reply' = [reply EXCEPT ![r] = response]
    /\ p' = [p EXCEPT ![r] = NoRow]
    /\ live' = [live EXCEPT ![r] = NoReply]
    /\ UNCHANGED call

Fault(k) ==
    /\ faults[k] < MaxFaults
    /\ faults' = [faults EXCEPT ![k] = @ + 1]

-----------------------------------------------------------------------------
(* Arrival.  Only a POST with the header goes through the Keeper. *)

CallsOf(r) ==
         [op: {"create"}, by: Callers, key: Headers \cup {Nil},
          id: {r}, name: Names \cup {Bad}, price: Prices]
    \cup [op: {"update"}, by: Callers, key: {Nil},
          id: Requests, name: Names \cup {Nil, Bad}, price: Prices \cup {Nil}]
    \cup [op: {"delete"}, by: Callers, key: {Nil}, id: Requests, name: {Nil}, price: {Nil}]

FirstPhase(c) ==
    IF Keyed(c) THEN "claim"
    ELSE CASE c.op = "create" -> "insert" [] c.op = "update" -> "read" [] OTHER -> "remove"

Arrive(r, c) ==
    /\ phase[r] = "idle"
    /\ phase' = [phase EXCEPT ![r] = FirstPhase(c)]
    /\ call' = [call EXCEPT ![r] = c]
    /\ UNCHANGED <<p, live, reply, table, keeper>>

-----------------------------------------------------------------------------
(* The Keeper's Do before the handler. *)

(* Mutant: a key in progress does not stop a second run. *)
TakeStoredOnly(r) ==
    LET k == httpKey(call[r]) IN
    /\ phase[r] = "claim" /\ stored[k] = NoReply
    /\ lease' = [lease EXCEPT ![k] = r]
    /\ Goto(r, "insert")
    /\ UNCHANGED <<p, live, stored, faults, table>>

TakeKey(r) ==
    LET k == httpKey(call[r]) IN
    /\ phase[r] = "claim" /\ Open(k)
    /\ lease' = [lease EXCEPT ![k] = r]
    /\ Goto(r, "insert")
    /\ UNCHANGED <<p, live, stored, faults, table>>

(* A retry gets the stored response, with the same body. *)
Replay(r) ==
    LET k == httpKey(call[r]) IN
    /\ phase[r] = "claim" /\ stored[k] # NoReply
    /\ Finish(r, stored[k])
    /\ UNCHANGED <<table, keeper>>

(* 409 while the key is leased, with nothing stored. *)
InProgress(r) ==
    LET k == httpKey(call[r]) IN
    /\ phase[r] = "claim" /\ stored[k] = NoReply /\ lease[k] # Nil
    /\ Finish(r, Answer("in_progress"))
    /\ UNCHANGED <<table, keeper>>

(* The store is down (503), or its record can not be read (500); the key   *)
(* is as it was.                                                           *)
NoKeeper(r) ==
    /\ phase[r] = "claim"
    /\ \E status \in {"unavailable", "internal"} : Finish(r, Answer(status))
    /\ UNCHANGED <<table, keeper>>

(* The claim took effect, its answer was lost: a 503 that leaves its key   *)
(* leased, with no handler running.                                        *)
ClaimUnknown(r) ==
    LET k == httpKey(call[r]) IN
    /\ phase[r] = "claim" /\ Open(k)
    /\ lease' = [lease EXCEPT ![k] = r]
    /\ Finish(r, Answer("unavailable"))
    /\ UNCHANGED <<stored, faults, table>>

-----------------------------------------------------------------------------
(* The handler of POST /products: decode, validate, Core.Create. *)

(* Its response: the answer of an unkeyed request, or live in Do. *)
Respond(r, response) ==
    IF Keyed(call[r])
    THEN /\ live' = [live EXCEPT ![r] = response]
         /\ Goto(r, "record")
         /\ UNCHANGED p
    ELSE Finish(r, response)

Reject(r) ==
    /\ phase[r] = "insert" /\ call[r].name = Bad
    /\ Respond(r, Answer("invalid"))
    /\ UNCHANGED <<table, keeper>>

Land(r) ==
    /\ phase[r] = "insert" /\ call[r].name # Bad
    /\ rows' = [rows EXCEPT ![r] = [name |-> call[r].name, price |-> call[r].price]]
    /\ applied' = applied \cup {r}

Insert(r) ==
    /\ Land(r)
    /\ Respond(r, [status |-> "created", id |-> r])
    /\ UNCHANGED keeper

(* The row is there, the answer of the statement is not: Internal. *)
InsertUnknown(r) ==
    /\ Land(r)
    /\ IF Keyed(call[r]) THEN Fault(httpKey(call[r])) ELSE UNCHANGED faults
    /\ Respond(r, Answer("internal"))
    /\ UNCHANGED <<lease, stored>>

InsertFails(r) ==
    /\ phase[r] = "insert" /\ call[r].name # Bad
    /\ Respond(r, Answer("internal"))
    /\ UNCHANGED <<table, keeper>>

-----------------------------------------------------------------------------
(* Do after the handler, and the return of HTTP: live, stored or not. *)

(* record: an error response is not stored. *)
Recorded(response) == response.status = "created"

Save(r) ==
    LET k == httpKey(call[r]) IN
    /\ phase[r] = "record" /\ Recorded(live[r])
    /\ \/ /\ stored' = [stored EXCEPT ![k] = live[r]]
          /\ lease' = [lease EXCEPT ![k] = Nil]
       \/ lease[k] # r /\ UNCHANGED <<lease, stored>>
    /\ Finish(r, live[r])
    /\ UNCHANGED <<faults, table>>

(* Mutant: the error of the Keeper goes ahead of the handler's response. *)
SaveFailsUnavailable(r) ==
    /\ phase[r] = "record" /\ Recorded(live[r])
    /\ Fault(httpKey(call[r]))
    /\ Finish(r, Answer("unavailable"))
    /\ UNCHANGED <<lease, stored, table>>

(* The response could not be saved: the client gets it, a retry does not.  *)
SaveFails(r) ==
    LET k == httpKey(call[r]) IN
    /\ phase[r] = "record" /\ Recorded(live[r])
    /\ Fault(k)
    /\ \/ UNCHANGED lease
       \/ lease[k] = r /\ lease' = [lease EXCEPT ![k] = Nil]
    /\ Finish(r, live[r])
    /\ UNCHANGED <<stored, table>>

(* Mutant: an error leaves its key leased. *)
KeepKey(r) ==
    /\ phase[r] = "record" /\ ~Recorded(live[r])
    /\ Finish(r, live[r])
    /\ UNCHANGED <<keeper, table>>

FreeKey(r) ==
    LET k == httpKey(call[r]) IN
    /\ phase[r] = "record" /\ ~Recorded(live[r])
    /\ \/ lease' = [lease EXCEPT ![k] = Nil]
       \/ lease[k] # r /\ UNCHANGED lease
    /\ Finish(r, live[r])
    /\ UNCHANGED <<stored, faults, table>>

(* The key could not be freed: retries are told to wait for the lease. *)
FreeFails(r) ==
    /\ phase[r] = "record" /\ ~Recorded(live[r])
    /\ Fault(httpKey(call[r]))
    /\ Finish(r, live[r])
    /\ UNCHANGED <<lease, stored, table>>

(* The lease runs out, the record is past its TTL, or the memory of the    *)
(* keys is gone.                                                           *)
KeyLapses(k) ==
    /\ ~Open(k)
    /\ Fault(k)
    /\ lease' = [lease EXCEPT ![k] = Nil]
    /\ stored' = [stored EXCEPT ![k] = NoReply]
    /\ UNCHANGED <<table, request>>

-----------------------------------------------------------------------------
(* PUT /products/{id}: a read, the merge in memory, a write of the row. *)

Given(new, old) == IF new = Nil THEN old ELSE new

(* Mutant: the fields of the body are taken without the nil checks. *)
MergedBlindly(c, row) == [name |-> c.name, price |-> c.price]

Merged(c, row) == [name |-> Given(c.name, row.name), price |-> Given(c.price, row.price)]

RejectUpdate(r) ==
    /\ phase[r] = "read" /\ call[r].name = Bad
    /\ Finish(r, Answer("invalid"))
    /\ UNCHANGED <<table, keeper>>

ReadRow(r) ==
    LET c == call[r] IN
    /\ phase[r] = "read" /\ c.name # Bad
    /\ rows[c.id] # NoRow
    /\ p' = [p EXCEPT ![r] = Merged(c, rows[c.id])]
    /\ Goto(r, "write")
    /\ UNCHANGED <<live, table, keeper>>

Overwrite(r) ==
    /\ phase[r] = "write" /\ rows[call[r].id] # NoRow
    /\ rows' = [rows EXCEPT ![call[r].id] = p[r]]
    /\ applied' = applied \cup {r}

Erase(r) ==
    /\ phase[r] = "remove" /\ rows[call[r].id] # NoRow
    /\ rows' = [rows EXCEPT ![call[r].id] = NoRow]
    /\ applied' = applied \cup {r}

(* The statement took effect; "internal" when its answer was lost. *)
Change(r) ==
    /\ Overwrite(r) \/ Erase(r)
    /\ \E status \in {"ok", "internal"} : Finish(r, Answer(status))
    /\ UNCHANGED keeper

Missing(r) ==
    /\ phase[r] \in {"read", "write", "remove"} /\ call[r].name # Bad
    /\ rows[call[r].id] = NoRow
    /\ Finish(r, Answer("not_found"))
    /\ UNCHANGED <<table, keeper>>

StoreFails(r) ==
    /\ phase[r] \in {"read", "write", "remove"} /\ call[r].name # Bad
    /\ Finish(r, Answer("internal"))
    /\ UNCHANGED <<table, keeper>>

-----------------------------------------------------------------------------
(* A replica ends under its requests; their leases are left to lapse. *)
Crash(gone) ==
    /\ gone # {} /\ \A r \in gone : phase[r] \in InFlight
    /\ phase' = [r \in Requests |-> IF r \in gone THEN "done" ELSE phase[r]]
    /\ reply' = [r \in Requests |-> IF r \in gone THEN Answer("lost") ELSE reply[r]]
    /\ p' = [r \in Requests |-> IF r \in gone THEN NoRow ELSE p[r]]
    /\ live' = [r \in Requests |-> IF r \in gone THEN NoReply ELSE live[r]]
    /\ UNCHANGED <<call, table, keeper>>

Init ==
    /\ rows = [r \in Requests |-> NoRow] /\ applied = {}
    /\ lease = [k \in Keys |-> Nil]
    /\ stored = [k \in Keys |-> NoReply]
    /\ faults = [k \in Keys |-> 0]
    /\ phase = [r \in Requests |-> "idle"]
    /\ call = [r \in Requests |-> NoCall]
    /\ p = [r \in Requests |-> NoRow]
    /\ live = [r \in Requests |-> NoReply]
    /\ reply = [r \in Requests |-> NoReply]

Create(r) ==
    \/ TakeKey(r) \/ Replay(r) \/ InProgress(r) \/ NoKeeper(r) \/ ClaimUnknown(r)
    \/ Reject(r) \/ Insert(r) \/ InsertUnknown(r) \/ InsertFails(r)
    \/ Save(r) \/ SaveFails(r) \/ FreeKey(r) \/ FreeFails(r)

Alter(r) == RejectUpdate(r) \/ ReadRow(r) \/ Change(r) \/ Missing(r) \/ StoreFails(r)

Next ==
    \/ \E r \in Requests : Create(r) \/ Alter(r) \/ \E c \in CallsOf(r) : Arrive(r, c)
    \/ \E k \in Keys : KeyLapses(k)
    \/ \E gone \in SUBSET Requests : Crash(gone)

Spec == Init /\ [][Next]_vars

-----------------------------------------------------------------------------
(* The variables have their types. *)
TypeOK ==
    /\ rows \in [Requests -> Row \cup {NoRow}]
    /\ applied \subseteq Requests
    /\ lease \in [Keys -> Requests \cup {Nil}]
    /\ stored \in [Keys -> Responses \cup {NoReply}]
    /\ faults \in [Keys -> Nat]
    /\ phase \in [Requests -> InFlight \cup {"idle", "done"}]
    /\ call \in [Requests -> Calls \cup {NoCall}]
    /\ p \in [Requests -> Row \cup {NoRow}]
    /\ live \in [Requests -> Responses \cup {NoReply}]
    /\ reply \in [Requests -> Responses \cup {NoReply}]

(* Products ever made under the key k. *)
Made(k) == {r \in applied : Keyed(call[r]) /\ httpKey(call[r]) = k}

(* "Runs a POST once per Idempotency-Key of its caller" (idempotency.go,   *)
(* HTTP): retries, however they interleave, make one product under a key,  *)
(* and each further one needs a fault of its own: a lease or record that   *)
(* was lost, a response that was not saved, an insert nobody answered.     *)
OncePerKey == \A k \in Keys : Cardinality(Made(k)) <= 1 + faults[k]

(* "Callers never share keys", "an error response is not stored": what a   *)
(* key holds is the success of a product made under it, and a create is    *)
(* answered with a product of its own key, committed before the answer.    *)
ReplaysFaithful ==
    /\ \A k \in Keys : stored[k] # NoReply =>
          stored[k].status = "created" /\ stored[k].id \in Made(k)
    /\ \A r \in Requests : reply[r] # NoReply /\ reply[r].status = "created" =>
          LET o == reply[r].id IN
          /\ o \in applied /\ call[o].op = "create"
          /\ o # r => /\ Keyed(call[r]) /\ call[o].key = call[r].key
                      /\ Auth => call[o].by = call[r].by

(* HTTP "answers its retries with the stored response" (idempotency.go):   *)
(* until a fault of their key, all who are told of a creation under it     *)
(* hear of one product.                                                    *)
ToldOf(r, k) ==
    /\ call[r] # NoCall /\ Keyed(call[r]) /\ httpKey(call[r]) = k
    /\ reply[r] # NoReply /\ reply[r].status = "created"

RetriesAgree ==
    \A k \in Keys : faults[k] = 0 =>
        \A r, q \in Requests : ToldOf(r, k) /\ ToldOf(q, k) => reply[r].id = reply[q].id

(* An answer that names its reason left no product made or changed, 409    *)
(* and 503 of the middleware included, and an update or delete answered    *)
(* with success took effect.                                               *)
ReplyTruthful ==
    \A r \in Requests : reply[r] # NoReply =>
        /\ reply[r].status \in Refusals => r \notin applied
        /\ reply[r].status = "ok" => r \in applied

(* Requests that run the handler of POST under the key k. *)
Running(k) ==
    {r \in Requests :
        phase[r] \in {"insert", "record"} /\ Keyed(call[r]) /\ httpKey(call[r]) = k}

(* The requests whose claim of a key was cut off: the replica ended, or    *)
(* the store took the claim and did not answer.                            *)
CutOff == {Answer("lost"), Answer("unavailable")}

(* "A retry while the first request runs gets 409" (idempotency.go, HTTP): *)
(* until a fault of its key, the handler runs for one request of a key at  *)
(* a time and the key stays leased to it all the while; a key that is      *)
(* leased with no handler running was left by a claim that was cut off,    *)
(* never by a request that was answered.                                   *)
BusyIsBusy ==
    \A k \in Keys : faults[k] = 0 =>
        /\ \A r \in Running(k) : lease[k] = r
        /\ lease[k] # Nil => lease[k] \in Running(k) \/ reply[lease[k]] \in CutOff

(* A deleted product stays deleted, also under an update that read it.     *)
DeletedStaysGone ==
    [][\A r \in applied : call[r].op = "create" /\ rows[r] = NoRow => rows'[r] = NoRow]_vars

(* What a client takes from an answer, and what each has been told. *)
Understood(response) ==
    LET s == response.status IN
    [status |-> CASE s \in {"created", "ok", "not_found"} -> s
                  [] s \in Refusals \ {"not_found"} -> "refused"
                  [] OTHER -> "unknown",
     id |-> IF s = "created" THEN response.id ELSE Nil]

Heard ==
    [r \in Requests |->
        IF reply[r] = NoReply THEN [status |-> "none", id |-> Nil] ELSE Understood(reply[r])]

Born == {r \in applied : call[r].op = "create"}

(* The routes, the middleware, its store and the table implement what they *)
(* promise together: a fault of a key is what may make one more product.   *)
Catalog == INSTANCE ProductCatalog WITH born <- Born, answer <- Heard, slack <- faults

ImplementsCatalog == Catalog!Spec

-----------------------------------------------------------------------------
(* The inductive invariant.  A key has spent the requests that made a      *)
(* product under it or still may, and, until their key is freed, those     *)
(* whose insert nobody answered: their fault is counted and not yet used.  *)

(* A row with the fields an update gave. *)
Carries(c, row) ==
    /\ c.name # Nil => row.name = c.name
    /\ c.price # Nil => row.price = c.price

RequestInv(r) ==
    /\ phase[r] = "idle" => call[r] = NoCall
    /\ phase[r] # "done" => reply[r] = NoReply
    /\ phase[r] # "idle" => call[r] \in CallsOf(r)
    /\ phase[r] = "claim" => Keyed(call[r])
    /\ phase[r] \in {"insert", "record"} => call[r].op = "create"
    /\ phase[r] \in {"read", "write"} => call[r].op = "update"
    /\ phase[r] = "remove" => call[r].op = "delete"
    /\ phase[r] = "write" => call[r].name # Bad /\ p[r] \in Row /\ Carries(call[r], p[r])
    /\ phase[r] \in {"idle", "claim", "insert", "read", "write", "remove"} => r \notin applied
    /\ rows[r] # NoRow => r \in applied /\ call[r].op = "create"

RecordInv(r) ==
    phase[r] = "record" =>
        /\ Keyed(call[r])
        /\ live[r] \in Responses
        /\ live[r].status \in {"created", "internal", "invalid"}
        /\ live[r].status = "created" => live[r].id = r /\ r \in applied
        /\ live[r].status = "invalid" => r \notin applied

Spent(k) ==
    {r \in Requests :
        /\ call[r] # NoCall /\ Keyed(call[r]) /\ httpKey(call[r]) = k
        /\ r \in applied \/ phase[r] \in {"insert", "record"}}

Unanswered(k) ==
    {r \in Spent(k) : r \in applied /\ phase[r] = "record" /\ ~Recorded(live[r])}

KeyInv(k) ==
    /\ Cardinality(Spent(k)) + Cardinality(Unanswered(k))
          <= faults[k] + (IF Open(k) THEN 0 ELSE 1)
    /\ lease[k] # Nil =>
          LET r == lease[k] IN
          call[r] # NoCall /\ Keyed(call[r]) /\ httpKey(call[r]) = k

IInv ==
    /\ TypeOK
    /\ \A r \in Requests : RequestInv(r) /\ RecordInv(r)
    /\ \A k \in Keys : KeyInv(k)
    /\ ReplaysFaithful /\ ReplyTruthful /\ BusyIsBusy
=============================================================================
