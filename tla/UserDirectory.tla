--------------------------- MODULE UserDirectory ----------------------------
(***************************************************************************)
(* What user.Store and the Core promise to a client: users with unique     *)
(* emails, identifiers used once, and answers that were true at one moment *)
(* between the request and its answer.  A client that is told Internal, or *)
(* loses its connection, knows nothing.  Users is shown to implement it.   *)
(***************************************************************************)
CONSTANTS
    Requests,       \* requests; a user has the identifier of its create
    Emails, Names,
    NoRow           \* no user with this identifier

Row == [email: Emails, name: Names]

VARIABLES
    rows,       \* the users
    born,       \* identifiers that were ever given to a user
    answer      \* per request: none, or what the client was told

vars == <<rows, born, answer>>

Told(status, row) == [status |-> status, row |-> row]
None == Told("none", NoRow)
Unknown == Told("unknown", NoRow)

Taken(e, id) == \E o \in Requests \ {id} : rows[o] # NoRow /\ rows[o].email = e

(* An effect comes with its answer, or with one that says nothing of it. *)
Reply(r, told) ==
    /\ answer[r] = None
    /\ \E a \in {told, Unknown} : answer' = [answer EXCEPT ![r] = a]

Init ==
    /\ rows = [r \in Requests |-> NoRow]
    /\ born = {}
    /\ answer = [r \in Requests |-> None]

Add(r, row) ==
    /\ r \notin born /\ ~Taken(row.email, r)
    /\ rows' = [rows EXCEPT ![r] = row]
    /\ born' = born \cup {r}
    /\ Reply(r, Told("ok", row))

Change(r, id, row) ==
    /\ rows[id] # NoRow /\ ~Taken(row.email, id)
    /\ rows' = [rows EXCEPT ![id] = row]
    /\ Reply(r, Told("ok", row))
    /\ UNCHANGED born

Remove(r, id) ==
    /\ rows[id] # NoRow
    /\ rows' = [rows EXCEPT ![id] = NoRow]
    /\ Reply(r, Told("ok", NoRow))
    /\ UNCHANGED born

Look(r, id) ==
    /\ rows[id] # NoRow
    /\ Reply(r, Told("ok", rows[id]))
    /\ UNCHANGED <<rows, born>>

(* Not there, at the moment of the answer. *)
Miss(r, id) ==
    /\ rows[id] = NoRow
    /\ Reply(r, Told("not_found", NoRow))
    /\ UNCHANGED <<rows, born>>

(* Another user has the email, at the moment of the answer. *)
Collide(r, id, e) ==
    /\ Taken(e, id)
    /\ Reply(r, Told("exists", NoRow))
    /\ UNCHANGED <<rows, born>>

Refuse(r) ==
    /\ Reply(r, Told("invalid", NoRow))
    /\ UNCHANGED <<rows, born>>

Lose(gone) ==
    /\ \A r \in gone : answer[r] = None
    /\ answer' = [r \in Requests |-> IF r \in gone THEN Unknown ELSE answer[r]]
    /\ UNCHANGED <<rows, born>>

Next ==
    \/ \E r \in Requests :
        \/ \E row \in Row : Add(r, row)
        \/ \E id \in Requests :
            \/ \E row \in Row : Change(r, id, row)
            \/ Remove(r, id) \/ Look(r, id) \/ Miss(r, id)
            \/ \E e \in Emails : Collide(r, id, e)
        \/ Refuse(r)
    \/ \E gone \in SUBSET Requests : Lose(gone)

Spec == Init /\ [][Next]_vars
=============================================================================
