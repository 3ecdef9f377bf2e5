--------------------------- MODULE WidgetRegistry ---------------------------
(***************************************************************************)
(* What the Core promises to its clients and to the rest of the service,   *)
(* with no transaction, read, rerun or replica in sight: widgets whose     *)
(* names are unique, each request taking effect at most once, a            *)
(* widget.created event in the step that adds a widget and in no other,    *)
(* and answers that were true at one moment between the request and its    *)
(* answer: a refusal means that nothing was and will be done, a success    *)
(* that it was.  WidgetCore is shown to implement it.                      *)
(***************************************************************************)
EXTENDS Naturals

CONSTANTS
    Requests,       \* requests; a widget has the identifier of its create
    Names, Descs,
    Nil,            \* a field that was not given
    NoRow, NoCall,  \* no widget, a request that was not made
    Broker          \* TRUE when the broker is on: events are announced

Row == [name: Names, desc: Descs]

VARIABLES
    rows,       \* the widgets
    call,       \* what each request asked for
    done,       \* requests that took effect
    answer,     \* per request, what its client was told
    announced   \* per widget, its widget.created events

vars == <<rows, call, done, answer, announced>>

Free(n, id) == \A o \in Requests \ {id} : rows[o] # NoRow => rows[o].name # n

Tell(r, told) == answer' = [answer EXCEPT ![r] = told]

-----------------------------------------------------------------------------
Init ==
    /\ rows = [r \in Requests |-> NoRow]
    /\ call = [r \in Requests |-> NoCall]
    /\ done = {}
    /\ answer = [r \in Requests |-> "none"]
    /\ announced = [r \in Requests |-> 0]

(* A request is made; it may be refused at once. *)
Ask(r) ==
    /\ call[r] = NoCall
    /\ call'[r] \in [op: {"create", "update", "delete"}, id: Requests,
                     name: Names \cup {Nil}, desc: Descs \cup {Nil}]
    /\ call' = [call EXCEPT ![r] = call'[r]]
    /\ UNCHANGED answer \/ Tell(r, "unavailable")
    /\ UNCHANGED <<rows, done, announced>>

(* A request takes effect, once; its client is told so now or later, or is *)
(* left in doubt.                                                          *)
Effect(r, id, row) ==
    /\ r \notin done
    /\ rows' = [rows EXCEPT ![id] = row]
    /\ done' = done \cup {r}
    /\ UNCHANGED answer \/ Tell(r, "ok") \/ Tell(r, "unknown")
    /\ UNCHANGED call

Add(r) ==
    LET row == [name |-> call[r].name, desc |-> call[r].desc] IN
    /\ call[r].op = "create"
    /\ row \in Row /\ Free(row.name, r)
    /\ Effect(r, r, row)
    /\ announced' = IF Broker THEN [announced EXCEPT ![r] = 1] ELSE announced

(* The fields that were given are the widget's from now on. *)
Change(r, row) ==
    LET c == call[r] IN
    /\ c.op = "update" /\ rows[c.id] # NoRow
    /\ c.name # Nil => row.name = c.name
    /\ c.desc # Nil => row.desc = c.desc
    /\ Free(row.name, c.id)
    /\ Effect(r, c.id, row)
    /\ UNCHANGED announced

Remove(r) ==
    LET c == call[r] IN
    /\ c.op = "delete" /\ rows[c.id] # NoRow
    /\ Effect(r, c.id, NoRow)
    /\ UNCHANGED announced

(* The client hears of an effect that has come. *)
Confirm(r) ==
    /\ r \in done
    /\ Tell(r, "ok")
    /\ UNCHANGED <<rows, call, done, announced>>

(* No such widget, at the moment of the answer. *)
Miss(r) ==
    /\ r \notin done
    /\ call[r].op \in {"update", "delete"} /\ rows[call[r].id] = NoRow
    /\ Tell(r, "not_found")
    /\ UNCHANGED <<rows, call, done, announced>>

(* Another widget has the name, at the moment of the answer. *)
Collide(r) ==
    /\ r \notin done
    /\ call[r].op = "create" /\ ~Free(call[r].name, r)
    /\ Tell(r, "exists")
    /\ UNCHANGED <<rows, call, done, announced>>

(* A request that was made and not answered: what follows is done for it.  *)
Waits(r) == call[r] # NoCall /\ answer[r] = "none"

(* Internal, or a lost connection: the clients know nothing. *)
Lose(gone) ==
    /\ \A r \in gone : Waits(r)
    /\ answer' = [r \in Requests |-> IF r \in gone THEN "unknown" ELSE answer[r]]
    /\ UNCHANGED <<rows, call, done, announced>>

Serve(r) ==
    \/ Add(r)
    \/ \E row \in Row : Change(r, row)
    \/ Remove(r)
    \/ Confirm(r)
    \/ Miss(r)
    \/ Collide(r)

Next ==
    \/ \E r \in Requests : Ask(r) \/ (Waits(r) /\ Serve(r))
    \/ \E gone \in SUBSET Requests : Lose(gone)

Spec == Init /\ [][Next]_vars
=============================================================================
