--------------------------- MODULE ProductCatalog ----------------------------
(***************************************************************************)
(* What POST, PUT and DELETE on /products promise to their clients, with   *)
(* no lease, stored response, read or merge in sight: products whose       *)
(* identifiers are used once, one product under an Idempotency-Key of a    *)
(* caller and one more at most for each fault of the key, and answers that *)
(* were true at one moment between the request and its answer.  Products   *)
(* is shown to implement it.                                               *)
(***************************************************************************)
EXTENDS Naturals, FiniteSets

CONSTANTS
    Requests,       \* requests; a product has the identifier of its create
    Callers, Headers, Names, Prices,
    Nil,            \* no header, a nil field, no product
    Bad,            \* the name in a body that is not valid
    Auth,           \* callers are told apart
    NoRow, NoCall

Row == [name: Names, price: Prices]

VARIABLES
    rows,       \* the products
    born,       \* identifiers that were ever given to a product
    call,       \* what each request asked for
    answer,     \* what it was told: nothing yet, or a status and a product
    slack       \* per key, the faults it has had

vars == <<rows, born, call, answer, slack>>

Keyed(c) == c.op = "create" /\ c.key # Nil

(* The scope of a key: one caller's, when callers are told apart. *)
Scope(c) == [owner |-> IF Auth THEN c.by ELSE "anonymous", header |-> c.key]

Keys == [owner: IF Auth THEN Callers ELSE {"anonymous"}, header: Headers]

Made(k) == {r \in born : Keyed(call[r]) /\ Scope(call[r]) = k}

Told(status, id) == [status |-> status, id |-> id]
None == Told("none", Nil)
Unknown == Told("unknown", Nil)

(* A request that was made and not answered: what follows is done for it.  *)
Waits(r) == call[r] # NoCall /\ answer[r] = None

(* An effect comes with its answer, or with one that says nothing of it. *)
Reply(r, told) == \E a \in {told, Unknown} : answer' = [answer EXCEPT ![r] = a]

-----------------------------------------------------------------------------
Init ==
    /\ rows = [r \in Requests |-> NoRow] /\ born = {}
    /\ call = [r \in Requests |-> NoCall]
    /\ answer = [r \in Requests |-> None]
    /\ slack = [k \in Keys |-> 0]

Ask(r) ==
    /\ call[r] = NoCall
    /\ call'[r] \in [op: {"create", "update", "delete"}, by: Callers, key: Headers \cup {Nil},
                    id: Requests, name: Names \cup {Nil, Bad}, price: Prices \cup {Nil}]
    /\ call' = [call EXCEPT ![r] = call'[r]]
    /\ UNCHANGED <<rows, born, answer>>

(* A product is made, and its client is told now or later. *)
Make(r) ==
    LET c == call[r] IN
    /\ c.op = "create" /\ r \notin born
    /\ Keyed(c) => Cardinality(Made(Scope(c))) <= slack[Scope(c)]
    /\ [name |-> c.name, price |-> c.price] \in Row
    /\ rows' = [rows EXCEPT ![r] = [name |-> c.name, price |-> c.price]]
    /\ born' = born \cup {r}
    /\ UNCHANGED answer \/ Reply(r, Told("created", r))
    /\ UNCHANGED call

Confirm(r) ==
    /\ r \in born
    /\ Reply(r, Told("created", r))
    /\ UNCHANGED <<rows, born, call>>

(* A retry is told of the product that was made under its key. *)
Repeat(r) ==
    /\ r \notin born /\ Keyed(call[r])
    /\ \E o \in Made(Scope(call[r])) : answer' = [answer EXCEPT ![r] = Told("created", o)]
    /\ UNCHANGED <<rows, born, call>>

(* The fields that were given are the product's from now on. *)
Change(r) ==
    LET c == call[r] IN
    /\ c.op = "update" /\ rows[c.id] # NoRow
    /\ \E row \in Row :
          /\ c.name # Nil => row.name = c.name
          /\ c.price # Nil => row.price = c.price
          /\ rows' = [rows EXCEPT ![c.id] = row]
    /\ Reply(r, Told("ok", Nil))
    /\ UNCHANGED <<born, call>>

Remove(r) ==
    LET c == call[r] IN
    /\ c.op = "delete" /\ rows[c.id] # NoRow
    /\ rows' = [rows EXCEPT ![c.id] = NoRow]
    /\ Reply(r, Told("ok", Nil))
    /\ UNCHANGED <<born, call>>

(* Not there, at the moment of the answer. *)
Miss(r) ==
    /\ call[r].op \in {"update", "delete"} /\ rows[call[r].id] = NoRow
    /\ answer' = [answer EXCEPT ![r] = Told("not_found", Nil)]
    /\ UNCHANGED <<rows, born, call>>

(* Told that nothing was done, of a request that did nothing. *)
Refuse(r) ==
    /\ r \notin born
    /\ answer' = [answer EXCEPT ![r] = Told("refused", Nil)]
    /\ UNCHANGED <<rows, born, call>>

(* Internal, or a lost connection: the client knows nothing. *)
Lose(gone) ==
    /\ \A r \in gone : Waits(r)
    /\ answer' = [r \in Requests |-> IF r \in gone THEN Unknown ELSE answer[r]]
    /\ UNCHANGED <<rows, born, call>>

Serve ==
    \/ \E r \in Requests :
          \/ Ask(r)
          \/ /\ Waits(r)
             /\ \/ Make(r) \/ Confirm(r) \/ Repeat(r)
                \/ Change(r) \/ Remove(r) \/ Miss(r) \/ Refuse(r)
    \/ \E gone \in SUBSET Requests : Lose(gone)

(* A fault may come with any step, or alone. *)
Fail == \E k \in Keys : slack' = [slack EXCEPT ![k] = @ + 1]

Next ==
    \/ Serve /\ (Fail \/ UNCHANGED slack)
    \/ Fail /\ UNCHANGED <<rows, born, call, answer>>

Spec == Init /\ [][Next]_vars
=============================================================================
