--------------------------- MODULE ProductsProofs ---------------------------
(***************************************************************************)
(* The safety properties of Products for any number of requests, callers,  *)
(* keys and faults.  They rest on IInv, and OncePerKey on its accounts:    *)
(* what a key has spent, and the faults that are counted and not yet used, *)
(* never exceed the faults and the one run a key is good for.              *)
(***************************************************************************)
EXTENDS Products, FiniteSetTheorems, TLAPS

(* What arrives is a call. *)
LEMMA CallsOfType == \A r \in Requests : CallsOf(r) \subseteq Calls
BY DEF CallsOf, Calls

(* The key of a keyed call is one of the store. *)
LEMMA KeyType == \A c \in Calls : Keyed(c) => httpKey(c) \in Keys
BY DEF Calls, Keyed, httpKey, Keys, Owners

(* The merge of an update is a row with the fields it gave: a nil field    *)
(* takes the old value.                                                    *)
LEMMA MergedType ==
    \A c \in Calls, row \in Row :
        c.op = "update" /\ c.name # Bad => Merged(c, row) \in Row /\ Carries(c, Merged(c, row))
BY DEF Merged, Given, Carries, Calls, Row

(* The values of one status are responses. *)
LEMMA AnswerType == \A s \in Statuses : Answer(s) \in Responses /\ Answer(s) # NoReply
BY ProductsAssumption DEF Answer, Responses

(* The accounts are finite sets, with numbers for cardinalities. *)
LEMMA Finite ==
    \A k \in Keys : /\ IsFiniteSet(Spent(k)) /\ IsFiniteSet(Unanswered(k))
                    /\ Cardinality(Spent(k)) \in Nat /\ Cardinality(Unanswered(k)) \in Nat
<1> SUFFICES ASSUME NEW k \in Keys
             PROVE  /\ IsFiniteSet(Spent(k)) /\ IsFiniteSet(Unanswered(k))
                    /\ Cardinality(Spent(k)) \in Nat /\ Cardinality(Unanswered(k)) \in Nat
    OBVIOUS
<1>1. Spent(k) \subseteq Requests /\ Unanswered(k) \subseteq Requests
    BY DEF Spent, Unanswered
<1>2. IsFiniteSet(Spent(k)) /\ IsFiniteSet(Unanswered(k))
    BY <1>1, ProductsAssumption, FS_Subset
<1> QED  BY <1>2, FS_CardinalityType

(* The initial state satisfies the invariant. *)
LEMMA InitInv == Init => IInv
<1> SUFFICES ASSUME Init PROVE IInv
    OBVIOUS
<1> USE DEF Init
<1>1. TypeOK
    BY DEF TypeOK, InFlight
<1>2. \A r \in Requests : RequestInv(r) /\ RecordInv(r)
    BY DEF RequestInv, RecordInv
<1>3. ASSUME NEW k \in Keys PROVE KeyInv(k)
    <2>1. Spent(k) = {} /\ Unanswered(k) = {}
        BY DEF Spent, Unanswered
    <2>2. Cardinality({}) = 0
        BY FS_EmptySet
    <2>3. faults[k] = 0 /\ lease[k] = Nil /\ Open(k)
        BY DEF Open
    <2> QED  BY <2>1, <2>2, <2>3 DEF KeyInv
<1>4. ReplaysFaithful /\ ReplyTruthful /\ BusyIsBusy
    BY DEF ReplaysFaithful, ReplyTruthful, BusyIsBusy, Running
<1> QED  BY <1>1, <1>2, <1>3, <1>4 DEF IInv

USE DEF table, keeper, request

(* What the invariant says of a request that takes a step. *)
LEMMA Caller ==
    ASSUME IInv, NEW r \in Requests, phase[r] # "idle"
    PROVE  /\ call[r] \in Calls /\ call[r] \in CallsOf(r) /\ call[r].id \in Requests
           /\ call[r].op = "create" => call[r].id = r
           /\ Keyed(call[r]) => httpKey(call[r]) \in Keys
<1>1. call[r] \in CallsOf(r) /\ call[r] \in Calls
    BY CallsOfType DEF IInv, RequestInv
<1> QED  BY <1>1, KeyType DEF CallsOf, Calls

(* Every step keeps the types. *)
LEMMA TypeStep == IInv /\ [Next]_vars => TypeOK'
<1> SUFFICES ASSUME IInv, [Next]_vars PROVE TypeOK'
    OBVIOUS
<1>t. TypeOK
    BY DEF IInv
<1>1. ASSUME NEW r \in Requests, NEW c \in CallsOf(r), Arrive(r, c) PROVE TypeOK'
    BY <1>1, <1>t, CallsOfType DEF Arrive, FirstPhase, TypeOK, InFlight
<1>f. ASSUME NEW r \in Requests, NEW a \in Responses, Finish(r, a)
      PROVE  /\ phase' \in [Requests -> InFlight \cup {"idle", "done"}]
             /\ call' \in [Requests -> Calls \cup {NoCall}]
             /\ p' \in [Requests -> Row \cup {NoRow}]
             /\ live' \in [Requests -> Responses \cup {NoReply}]
             /\ reply' \in [Requests -> Responses \cup {NoReply}]
    BY <1>f, <1>t DEF Finish, TypeOK
<1>g. ASSUME NEW r \in Requests, NEW a \in Responses, Respond(r, a)
      PROVE  /\ phase' \in [Requests -> InFlight \cup {"idle", "done"}]
             /\ call' \in [Requests -> Calls \cup {NoCall}]
             /\ p' \in [Requests -> Row \cup {NoRow}]
             /\ live' \in [Requests -> Responses \cup {NoReply}]
             /\ reply' \in [Requests -> Responses \cup {NoReply}]
    <2>1. CASE Keyed(call[r])
        BY <1>g, <1>t, <2>1 DEF Respond, Goto, TypeOK, InFlight
    <2>2. CASE ~Keyed(call[r])
        BY <1>g, <1>f, <2>2 DEF Respond
    <2> QED  BY <2>1, <2>2
<1>n. ASSUME NEW k, Fault(k) PROVE faults' \in [Keys -> Nat]
    <2>1. faults \in [Keys -> Nat]
        BY <1>t DEF TypeOK
    <2>2. CASE k \in Keys
        <3>1. faults[k] + 1 \in Nat
            BY <2>1, <2>2
        <3> QED  BY <1>n, <2>1, <2>2, <3>1 DEF Fault
    <2>3. CASE k \notin Keys
        BY <1>n, <2>1, <2>3 DEF Fault
    <2> QED  BY <2>2, <2>3
<1>2. ASSUME NEW r \in Requests, Create(r) PROVE TypeOK'
    <2> USE <1>t, <1>f, <1>g, AnswerType DEF TypeOK, Statuses, Refusals
    <2>0. CASE TakeKey(r)  BY <2>0 DEF TakeKey, Goto, InFlight
    <2>1. CASE Replay(r)
        <3>1. call[r] \in Calls /\ Keyed(call[r])
            BY <2>1, Caller DEF Replay, IInv, RequestInv
        <3>2. stored[httpKey(call[r])] \in Responses
            BY <2>1, <3>1, KeyType DEF Replay
        <3> QED  BY <2>1, <3>2 DEF Replay
    <2>2. CASE InProgress(r)  BY <2>2 DEF InProgress
    <2>3. CASE NoKeeper(r)  BY <2>3 DEF NoKeeper
    <2>12. CASE ClaimUnknown(r)  BY <2>12 DEF ClaimUnknown
    <2>4. CASE Reject(r)  BY <2>4 DEF Reject
    <2>i. ASSUME Land(r)
          PROVE  rows' \in [Requests -> Row \cup {NoRow}] /\ applied' \subseteq Requests
        <3>1. [name |-> call[r].name, price |-> call[r].price] \in Row
            BY <2>i, Caller DEF Land, IInv, RequestInv, CallsOf, Row
        <3> QED  BY <2>i, <3>1 DEF Land
    <2>5. CASE Insert(r)
        <3>1. [status |-> "created", id |-> r] \in Responses
            BY DEF Responses
        <3> QED  BY <2>5, <2>i, <3>1 DEF Insert
    <2>6. CASE InsertUnknown(r)
        BY <2>6, <2>i DEF InsertUnknown, Fault
    <2>7. CASE InsertFails(r)  BY <2>7 DEF InsertFails
    <2>l. phase[r] = "record" => live[r] \in Responses
        BY DEF IInv, RecordInv
    <2>8. CASE Save(r)
        <3>1. /\ lease' \in [Keys -> Requests \cup {Nil}]
              /\ stored' \in [Keys -> Responses \cup {NoReply}]
            BY <2>8, <2>l DEF Save
        <3>2. live[r] \in Responses /\ Finish(r, live[r]) /\ UNCHANGED <<faults, table>>
            BY <2>8, <2>l DEF Save
        <3> QED  BY <3>1, <3>2
    <2>9. CASE SaveFails(r)
        <3>0. faults' \in [Keys -> Nat]
            BY <2>9, <1>n DEF SaveFails
        <3>1. lease' \in [Keys -> Requests \cup {Nil}]
            BY <2>9 DEF SaveFails
        <3>2. live[r] \in Responses /\ Finish(r, live[r]) /\ UNCHANGED <<stored, table>>
            BY <2>9, <2>l DEF SaveFails
        <3> QED  BY <3>0, <3>1, <3>2
    <2>10. CASE FreeKey(r)
        <3>1. lease' \in [Keys -> Requests \cup {Nil}]
            BY <2>10 DEF FreeKey
        <3>2. live[r] \in Responses /\ Finish(r, live[r]) /\ UNCHANGED <<stored, faults, table>>
            BY <2>10, <2>l DEF FreeKey
        <3> QED  BY <3>1, <3>2
    <2>11. CASE FreeFails(r)
        <3>1. faults' \in [Keys -> Nat]
            BY <2>11, <1>n DEF FreeFails
        <3>2. live[r] \in Responses /\ Finish(r, live[r]) /\ UNCHANGED <<lease, stored, table>>
            BY <2>11, <2>l DEF FreeFails
        <3> QED  BY <3>1, <3>2
    <2> QED
        BY <1>2, <2>0, <2>1, <2>2, <2>3, <2>4, <2>5, <2>6, <2>7, <2>8, <2>9, <2>10, <2>11, <2>12
           DEF Create
<1>3. ASSUME NEW r \in Requests, Alter(r) PROVE TypeOK'
    <2> USE <1>t, <1>f, AnswerType DEF TypeOK, Statuses, Refusals
    <2>1. CASE RejectUpdate(r)  BY <2>1 DEF RejectUpdate
    <2>2. CASE ReadRow(r)
        <3>1. Merged(call[r], rows[call[r].id]) \in Row
            BY <2>2, Caller, MergedType DEF ReadRow, IInv, RequestInv
        <3> QED  BY <2>2, <3>1 DEF ReadRow, Goto, InFlight
    <2>3. CASE Change(r)
        <3>1. phase[r] = "write" => p[r] \in Row
            BY DEF IInv, RequestInv
        <3>2. rows' \in [Requests -> Row \cup {NoRow}] /\ applied' \subseteq Requests
            BY <2>3, <3>1 DEF Change, Overwrite, Erase
        <3>3. PICK a \in Responses : Finish(r, a)
            BY <2>3 DEF Change
        <3> QED  BY <2>3, <3>2, <3>3 DEF Change
    <2>4. CASE Missing(r)  BY <2>4 DEF Missing
    <2>5. CASE StoreFails(r)  BY <2>5 DEF StoreFails
    <2> QED  BY <1>3, <2>1, <2>2, <2>3, <2>4, <2>5 DEF Alter
<1>4. ASSUME NEW k \in Keys, KeyLapses(k) PROVE TypeOK'
    BY <1>4, <1>t DEF KeyLapses, Fault, TypeOK
<1>5. ASSUME NEW gone \in SUBSET Requests, Crash(gone) PROVE TypeOK'
    BY <1>5, <1>t, AnswerType DEF Crash, TypeOK, Statuses
<1>6. CASE UNCHANGED vars
    BY <1>6, <1>t DEF vars, TypeOK
<1> QED  BY <1>1, <1>2, <1>3, <1>4, <1>5, <1>6 DEF Next

(* A request touches its own variables only. *)
LEMMA Others ==
    ASSUME IInv, NEW r \in Requests, Create(r) \/ Alter(r)
    PROVE  /\ UNCHANGED call /\ applied \subseteq applied' /\ applied' \subseteq applied \cup {r}
           /\ \A q \in Requests \ {r} :
                 UNCHANGED <<phase[q], p[q], live[q], reply[q]>>
<1> USE DEF Finish, Goto, Land
<1>t. TypeOK
    BY DEF IInv
<1>1. CASE TakeKey(r)  BY <1>1, <1>t DEF TakeKey, TypeOK
<1>2. CASE Replay(r) \/ InProgress(r) \/ NoKeeper(r) \/ ClaimUnknown(r)
    BY <1>2, <1>t DEF Replay, InProgress, NoKeeper, ClaimUnknown, TypeOK
<1>3. CASE Reject(r) \/ Insert(r) \/ InsertUnknown(r) \/ InsertFails(r)
    <2>1. PICK a : Respond(r, a)
        BY <1>3 DEF Reject, Insert, InsertUnknown, InsertFails
    <2>2. applied' = applied \/ applied' = applied \cup {r}
        BY <1>3 DEF Reject, Insert, InsertUnknown, InsertFails
    <2> QED  BY <2>1, <2>2, <1>t DEF Respond, TypeOK
<1>4. CASE Save(r) \/ SaveFails(r) \/ FreeKey(r) \/ FreeFails(r)
    <2>1. Finish(r, live[r]) /\ UNCHANGED applied
        BY <1>4 DEF Save, SaveFails, FreeKey, FreeFails
    <2> QED  BY <2>1, <1>t DEF TypeOK
<1>5. CASE RejectUpdate(r) \/ Missing(r) \/ StoreFails(r)
    BY <1>5, <1>t DEF RejectUpdate, Missing, StoreFails, TypeOK
<1>6. CASE ReadRow(r)  BY <1>6, <1>t DEF ReadRow, TypeOK
<1>7. CASE Change(r)
    <2>1. PICK a : Finish(r, a)
        BY <1>7 DEF Change
    <2>2. applied' = applied \cup {r}
        BY <1>7 DEF Change, Overwrite, Erase
    <2> QED  BY <2>1, <2>2, <1>t DEF TypeOK
<1> QED  BY <1>1, <1>2, <1>3, <1>4, <1>5, <1>6, <1>7 DEF Create, Alter

(* Every step keeps what a request in each phase has done and holds, and   *)
(* what the response of a handler in Do says.                              *)
LEMMA RequestStep ==
    IInv /\ [Next]_vars => \A q \in Requests : RequestInv(q)' /\ RecordInv(q)'
<1> SUFFICES ASSUME IInv, [Next]_vars, NEW q \in Requests PROVE RequestInv(q)' /\ RecordInv(q)'
    OBVIOUS
<1>t. TypeOK /\ TypeOK' /\ RequestInv(q) /\ RecordInv(q)
    BY TypeStep DEF IInv
<1>1. ASSUME NEW r \in Requests, NEW c \in CallsOf(r), Arrive(r, c)
      PROVE  RequestInv(q)' /\ RecordInv(q)'
    <2>1. q # r => UNCHANGED <<phase[q], call[q], p[q], live[q], reply[q]>>
        BY <1>1, <1>t DEF Arrive, TypeOK
    <2>2. CASE q # r
        BY <1>1, <1>t, <2>1, <2>2 DEF Arrive, RequestInv, RecordInv
    <2>3. CASE q = r
        <3>1. /\ phase[r] = "idle" /\ phase'[r] = FirstPhase(c) /\ call'[r] = c
              /\ UNCHANGED <<rows, applied, reply>>
            BY <1>1, <1>t DEF Arrive, TypeOK
        <3>2. reply[r] = NoReply /\ rows[r] = NoRow /\ r \notin applied
            BY <2>3, <3>1, <1>t DEF RequestInv
        <3> QED
            BY <2>3, <3>1, <3>2, <1>t DEF RequestInv, RecordInv, FirstPhase, CallsOf
    <2> QED  BY <2>2, <2>3
<1>2. ASSUME NEW r \in Requests, Create(r) \/ Alter(r), q # r
      PROVE  RequestInv(q)' /\ RecordInv(q)'
    <2>1. /\ UNCHANGED <<phase[q], call[q], p[q], live[q], reply[q]>>
          /\ (q \in applied') = (q \in applied)
        BY <1>2, Others
    <2>2. rows'[q] # NoRow => rows[q] # NoRow
        <3>1. CASE Land(r)  BY <1>2, <1>t, <3>1 DEF Land, TypeOK
        <3>2. CASE Overwrite(r)  BY <1>2, <1>t, <3>2 DEF Overwrite, TypeOK
        <3>3. CASE Erase(r)  BY <1>2, <1>t, <3>3 DEF Erase, TypeOK
        <3>4. CASE ~(Land(r) \/ Overwrite(r) \/ Erase(r))
            BY <1>2, <3>4 DEF Create, Alter, TakeKey, Replay, InProgress, NoKeeper, ClaimUnknown,
               Reject, Insert, InsertUnknown, InsertFails, Save, SaveFails, FreeKey, FreeFails, RejectUpdate,
               ReadRow, Change, Missing, StoreFails
        <3> QED  BY <3>1, <3>2, <3>3, <3>4
    <2> QED  BY <2>1, <2>2, <1>t DEF RequestInv, RecordInv
<1>3. ASSUME NEW r \in Requests, Create(r), q = r PROVE RequestInv(q)' /\ RecordInv(q)'
    <2> USE <1>3, <1>t DEF RequestInv
    <2>f. ASSUME phase[r] \in {"claim", "insert", "record"}, NEW a \in Responses, Finish(r, a),
                 UNCHANGED table
          PROVE  RequestInv(q)' /\ RecordInv(q)'
        BY <2>f DEF Finish, TypeOK, RecordInv
    <2>g. ASSUME phase[r] = "insert", NEW a \in Responses, Respond(r, a),
                 rows'[r] # NoRow => r \in applied',
                 a.status \in {"created", "internal", "invalid"},
                 a.status = "created" => a.id = r /\ r \in applied',
                 a.status = "invalid" => r \notin applied'
          PROVE  RequestInv(q)' /\ RecordInv(q)'
        <3>1. CASE Keyed(call[r])
            BY <2>g, <3>1 DEF Respond, Goto, TypeOK, RecordInv
        <3>2. CASE ~Keyed(call[r])
            BY <2>g, <3>2 DEF Respond, Finish, TypeOK, RecordInv
        <3> QED  BY <3>1, <3>2
    <2>a. \A s \in Statuses : Answer(s) \in Responses /\ Answer(s).status = s
        BY AnswerType DEF Answer
    <2>1. CASE TakeKey(r)  BY <2>1 DEF TakeKey, Goto, TypeOK, RecordInv, Keyed
    <2>2. CASE Replay(r)
        <3>1. stored[httpKey(call[r])] \in Responses
            BY <2>2, Caller DEF Replay, TypeOK
        <3> QED  BY <2>2, <2>f, <3>1 DEF Replay
    <2>3. CASE InProgress(r)  BY <2>3, <2>a, <2>f DEF InProgress, Statuses, Refusals
    <2>4. CASE NoKeeper(r)
        <3>1. PICK s \in Statuses : Finish(r, Answer(s))
            BY <2>4 DEF NoKeeper, Statuses, Refusals
        <3> QED  BY <2>4, <2>a, <2>f, <3>1 DEF NoKeeper
    <2>10. CASE ClaimUnknown(r)  BY <2>10, <2>a, <2>f DEF ClaimUnknown, Statuses, Refusals
    <2>5. CASE Reject(r)  BY <2>5, <2>a, <2>g DEF Reject, Statuses, Refusals
    <2>6. CASE Insert(r)
        <3>1. [status |-> "created", id |-> r] \in Responses
            BY DEF Responses, Statuses
        <3> QED  BY <2>6, <2>g, <3>1 DEF Insert, Land
    <2>7. CASE InsertUnknown(r)  BY <2>7, <2>a, <2>g DEF InsertUnknown, Land, Statuses
    <2>8. CASE InsertFails(r)  BY <2>8, <2>a, <2>g DEF InsertFails, Statuses
    <2>9. CASE Save(r) \/ SaveFails(r) \/ FreeKey(r) \/ FreeFails(r)
        <3>1. phase[r] = "record" /\ Finish(r, live[r]) /\ UNCHANGED table
            BY <2>9 DEF Save, SaveFails, FreeKey, FreeFails
        <3> QED  BY <2>f, <3>1 DEF RecordInv
    <2> QED  BY <2>1, <2>2, <2>3, <2>4, <2>5, <2>6, <2>7, <2>8, <2>9, <2>10 DEF Create
<1>4. ASSUME NEW r \in Requests, Alter(r), q = r PROVE RequestInv(q)' /\ RecordInv(q)'
    <2>1. CASE ReadRow(r)
        <3>1. PICK m \in Row : /\ p' = [p EXCEPT ![r] = m] /\ Carries(call[r], m)
                               /\ UNCHANGED <<rows, applied, call, reply>>
            BY <1>t, <1>4, <2>1, Caller, MergedType DEF ReadRow, Goto, RequestInv, TypeOK
        <3>2. phase[r] = "read" /\ phase' = [phase EXCEPT ![r] = "write"] /\ call[r].name # Bad
            BY <1>4, <2>1 DEF ReadRow, Goto
        <3> QED  BY <1>t, <1>4, <3>1, <3>2 DEF RequestInv, RecordInv, TypeOK
    <2>2. CASE ~ReadRow(r)
        <3>1. PICK a \in Responses : Finish(r, a)
            BY <1>4, <2>2, AnswerType DEF Alter, RejectUpdate, Change, Missing, StoreFails,
               Statuses, Refusals
        <3>2. rows'[r] # NoRow => rows[r] # NoRow
            BY <1>t, <1>4, <2>2 DEF Alter, RejectUpdate, Change, Missing, StoreFails, Overwrite,
               Erase, TypeOK
        <3>3. UNCHANGED call /\ (r \in applied => r \in applied')
            BY <1>4, Others
        <3>4. phase[r] \in {"read", "write", "remove"}
            BY <1>4, <2>2 DEF Alter, RejectUpdate, Change, Missing, StoreFails, Overwrite, Erase
        <3>5. phase'[r] = "done" /\ call[r] \in CallsOf(r)
            BY <1>t, <1>4, <3>1, <3>4 DEF Finish, RequestInv, TypeOK
        <3> QED  BY <1>t, <1>4, <3>2, <3>3, <3>5 DEF RequestInv, RecordInv
    <2> QED  BY <2>1, <2>2
<1>5. ASSUME NEW k \in Keys, KeyLapses(k) PROVE RequestInv(q)' /\ RecordInv(q)'
    BY <1>5, <1>t DEF KeyLapses, RequestInv, RecordInv
<1>6. ASSUME NEW gone \in SUBSET Requests, Crash(gone) PROVE RequestInv(q)' /\ RecordInv(q)'
    BY <1>6, <1>t DEF Crash, RequestInv, RecordInv, InFlight
<1>7. CASE UNCHANGED vars
    BY <1>7, <1>t DEF vars, RequestInv, RecordInv
<1> QED  BY <1>1, <1>2, <1>3, <1>4, <1>5, <1>6, <1>7 DEF Next

-----------------------------------------------------------------------------
(* The accounts of a key change with its own requests only. *)
LEMMA OtherKeys ==
    ASSUME IInv, NEW r \in Requests, Create(r) \/ Alter(r), NEW k \in Keys,
           ~(Keyed(call[r]) /\ httpKey(call[r]) = k)
    PROVE  UNCHANGED <<Spent(k), Unanswered(k), faults[k], lease[k], stored[k]>>
<1>1. UNCHANGED call
    BY Others
<1>2. \A q \in Requests \ {r} :
          (q \in applied') = (q \in applied) /\ UNCHANGED <<phase[q], live[q]>>
    BY Others
<1>3. Spent(k)' = Spent(k)
    BY <1>1, <1>2 DEF Spent
<1>4. r \notin Spent(k)
    BY DEF Spent
<1>5. Unanswered(k)' = Unanswered(k)
    BY <1>2, <1>3, <1>4 DEF Unanswered, Spent, Recorded
<1>6. TypeOK /\ RequestInv(r) /\ RecordInv(r)
    BY DEF IInv
<1>7. UNCHANGED <<faults[k], lease[k], stored[k]>>
    <2>1. CASE TakeKey(r)
        BY <1>6, <2>1 DEF TakeKey, RequestInv, TypeOK
    <2>2. CASE InsertUnknown(r)
        BY <1>6, <2>2 DEF InsertUnknown, Fault, TypeOK
    <2>3. CASE Save(r)
        BY <1>6, <2>3 DEF Save, RecordInv, TypeOK
    <2>4. CASE SaveFails(r)
        BY <1>6, <2>4 DEF SaveFails, Fault, RecordInv, TypeOK
    <2>5. CASE FreeKey(r)
        BY <1>6, <2>5 DEF FreeKey, RecordInv, TypeOK
    <2>6. CASE FreeFails(r)
        BY <1>6, <2>6 DEF FreeFails, Fault, RecordInv, TypeOK
    <2>8. CASE ClaimUnknown(r)
        BY <1>6, <2>8 DEF ClaimUnknown, RequestInv, TypeOK
    <2>7. CASE ~(\/ TakeKey(r) \/ ClaimUnknown(r) \/ InsertUnknown(r) \/ Save(r)
                 \/ SaveFails(r) \/ FreeKey(r) \/ FreeFails(r))
        BY <2>7 DEF Create, Alter, Replay, InProgress, NoKeeper, Reject, Insert, InsertFails,
           RejectUpdate, ReadRow, Change, Missing, StoreFails
    <2> QED  BY <2>1, <2>2, <2>3, <2>4, <2>5, <2>6, <2>7, <2>8
<1> QED  BY <1>3, <1>5, <1>7

(* The accounts of a key as numbers: a fault pays for an opened key, for a *)
(* response that stays unanswered, or is left over.                        *)
LEMMA Accounts ==
    ASSUME IInv, NEW r \in Requests, Create(r), Keyed(call[r]), NEW k \in Keys,
           httpKey(call[r]) = k
    PROVE  Cardinality(Spent(k)') + Cardinality(Unanswered(k)')
              <= faults'[k] + (IF Open(k)' THEN 0 ELSE 1)
<1>t. /\ TypeOK /\ RequestInv(r) /\ RecordInv(r) /\ KeyInv(k) /\ faults[k] \in Nat
      /\ call[r] # NoCall
    BY ProductsAssumption, Caller DEF IInv, TypeOK, RequestInv, Keyed, Create, TakeKey, Replay,
       InProgress, NoKeeper, ClaimUnknown, Reject, Insert, InsertUnknown, Land, InsertFails, Save,
       SaveFails, FreeKey, FreeFails
<1>o. /\ UNCHANGED call
      /\ \A q \in Requests \ {r} :
            (q \in applied') = (q \in applied) /\ UNCHANGED <<phase[q], live[q]>>
    BY Others
<1>c. /\ IsFiniteSet(Spent(k)) /\ IsFiniteSet(Unanswered(k))
      /\ Cardinality(Spent(k)) \in Nat /\ Cardinality(Unanswered(k)) \in Nat
    BY Finite
<1>q. Spent(k) \subseteq Requests
    BY DEF Spent
<1>k. Cardinality(Spent(k)) + Cardinality(Unanswered(k)) <= faults[k] + (IF Open(k) THEN 0 ELSE 1)
    BY <1>t DEF KeyInv
<1>s. ASSUME Spent(k)' = Spent(k), Unanswered(k)' = Unanswered(k),
             \/ faults'[k] = faults[k] + 1
             \/ faults'[k] = faults[k] /\ (Open(k)' => Open(k))
      PROVE  Cardinality(Spent(k)') + Cardinality(Unanswered(k)')
                <= faults'[k] + (IF Open(k)' THEN 0 ELSE 1)
    BY <1>s, <1>c, <1>k, <1>t
<1>1. CASE TakeKey(r)
    <2>1. r \notin Spent(k) /\ r \notin applied /\ phase[r] = "claim"
        BY <1>1, <1>t DEF TakeKey, RequestInv, Spent
    <2>2. Spent(k)' = Spent(k) \cup {r}
        BY <1>1, <1>t, <1>o DEF TakeKey, Goto, Spent, TypeOK
    <2>3. Unanswered(k)' = Unanswered(k)
        BY <1>1, <1>t, <1>o, <2>1, <2>2 DEF TakeKey, Goto, Unanswered, TypeOK
    <2>4. Open(k) /\ ~Open(k)' /\ faults'[k] = faults[k]
        BY <1>1, <1>t, ProductsAssumption DEF TakeKey, Open, TypeOK
    <2>5. Cardinality(Spent(k)') = Cardinality(Spent(k)) + 1
        BY <2>1, <2>2, <1>c, FS_AddElement
    <2> QED  BY <2>3, <2>4, <2>5, <1>c, <1>k, <1>t
<1>2. CASE Replay(r) \/ InProgress(r) \/ NoKeeper(r)
    <2>1. PICK a : Finish(r, a)
        BY <1>2 DEF Replay, InProgress, NoKeeper
    <2>2. phase[r] = "claim" /\ UNCHANGED <<applied, keeper>> /\ r \notin applied
        BY <1>2, <1>t DEF Replay, InProgress, NoKeeper, RequestInv
    <2>3. Spent(k)' = Spent(k) /\ Unanswered(k)' = Unanswered(k)
        BY <1>t, <1>o, <2>1, <2>2 DEF Finish, Spent, Unanswered, Recorded, TypeOK
    <2> QED  BY <1>s, <2>2, <2>3 DEF Open
<1>8. CASE ClaimUnknown(r)
    <2>1. Finish(r, Answer("unavailable"))
        BY <1>8 DEF ClaimUnknown
    <2>2. /\ phase[r] = "claim" /\ r \notin applied /\ Open(k)
          /\ UNCHANGED <<applied, stored, faults>>
        BY <1>8, <1>t DEF ClaimUnknown, RequestInv
    <2>3. Spent(k)' = Spent(k) /\ Unanswered(k)' = Unanswered(k)
        BY <1>t, <1>o, <2>1, <2>2 DEF Finish, Spent, Unanswered, Recorded, TypeOK
    <2> QED  BY <1>s, <2>2, <2>3
<1>3. CASE Reject(r) \/ Insert(r) \/ InsertFails(r)
    <2>1. PICK a : Respond(r, a) /\ (a.status = "created" \/ UNCHANGED applied)
        BY <1>3 DEF Reject, Insert, InsertFails
    <2>2. /\ phase[r] = "insert" /\ UNCHANGED keeper /\ r \notin applied
          /\ phase'[r] = "record" /\ live'[r] = a
        BY <1>3, <1>t, <2>1 DEF Reject, Insert, Land, InsertFails, Respond, Goto, RequestInv, TypeOK
    <2>3. Spent(k)' = Spent(k)
        BY <1>t, <1>o, <2>2 DEF Spent
    <2>4. Unanswered(k)' = Unanswered(k)
        BY <1>t, <1>o, <1>q, <2>1, <2>2, <2>3 DEF Unanswered, Recorded
    <2> QED  BY <1>s, <2>2, <2>3, <2>4 DEF Open
<1>4. CASE InsertUnknown(r)
    <2>1. /\ phase[r] = "insert" /\ applied' = applied \cup {r} /\ phase'[r] = "record"
          /\ live'[r] = Answer("internal") /\ faults'[k] = faults[k] + 1
          /\ UNCHANGED <<lease, stored>>
        BY <1>4, <1>t DEF InsertUnknown, Land, Respond, Goto, Fault, TypeOK
    <2>2. Spent(k)' = Spent(k) /\ r \in Spent(k)
        BY <1>t, <1>o, <2>1 DEF Spent
    <2>3. r \notin Unanswered(k) /\ Unanswered(k)' = Unanswered(k) \cup {r}
        BY <1>t, <1>o, <1>q, <2>1, <2>2 DEF Unanswered, Recorded, Answer
    <2>4. Cardinality(Unanswered(k)') = Cardinality(Unanswered(k)) + 1
        BY <2>3, <1>c, FS_AddElement
    <2>5. Open(k)' = Open(k)
        BY <2>1 DEF Open
    <2> QED  BY <2>1, <2>2, <2>4, <2>5, <1>c, <1>k, <1>t
<1>5. CASE Save(r) \/ SaveFails(r)
    <2>1. /\ phase[r] = "record" /\ phase'[r] = "done" /\ Recorded(live[r]) /\ r \in applied
          /\ applied' = applied
        BY <1>5, <1>t DEF Save, SaveFails, Finish, RecordInv, Recorded, TypeOK
    <2>2. Spent(k)' = Spent(k)
        BY <1>t, <1>o, <2>1 DEF Spent
    <2>3. Unanswered(k)' = Unanswered(k)
        BY <1>o, <1>q, <2>1, <2>2 DEF Unanswered
    <2>4. \/ faults'[k] = faults[k] + 1
          \/ faults'[k] = faults[k] /\ (Open(k)' => Open(k))
        <3>1. CASE SaveFails(r)  BY <1>t, <3>1 DEF SaveFails, Fault, TypeOK
        <3>2. CASE Save(r)
            <4>1. live[r] # NoReply
                BY <1>t, <2>1, ProductsAssumption DEF RecordInv
            <4> QED  BY <1>t, <3>2, <4>1 DEF Save, Open, TypeOK
        <3> QED  BY <1>5, <3>1, <3>2
    <2> QED  BY <1>s, <2>2, <2>3, <2>4
<1>6. CASE FreeKey(r)
    <2>1. /\ phase[r] = "record" /\ phase'[r] = "done" /\ ~Recorded(live[r])
          /\ applied' = applied /\ faults' = faults
        BY <1>6, <1>t DEF FreeKey, Finish, TypeOK
    <2>2. CASE r \in applied
        <3>1. Spent(k)' = Spent(k) /\ r \in Spent(k)
            BY <1>t, <1>o, <2>1, <2>2 DEF Spent
        <3>2. r \in Unanswered(k) /\ Unanswered(k)' = Unanswered(k) \ {r}
            BY <1>o, <1>q, <2>1, <2>2, <3>1 DEF Unanswered
        <3>3. Cardinality(Unanswered(k)') = Cardinality(Unanswered(k)) - 1
            BY <3>2, <1>c, FS_RemoveElement
        <3> QED  BY <2>1, <3>1, <3>3, <1>c, <1>k, <1>t
    <2>3. CASE r \notin applied
        <3>1. r \in Spent(k) /\ Spent(k)' = Spent(k) \ {r}
            BY <1>t, <1>o, <2>1, <2>3 DEF Spent
        <3>2. Unanswered(k)' = Unanswered(k)
            BY <1>o, <1>q, <2>1, <2>3, <3>1 DEF Unanswered
        <3>3. Cardinality(Spent(k)') = Cardinality(Spent(k)) - 1
            BY <3>1, <1>c, FS_RemoveElement
        <3> QED  BY <2>1, <3>2, <3>3, <1>c, <1>k, <1>t
    <2> QED  BY <2>2, <2>3
<1>7. CASE FreeFails(r)
    <2>1. /\ phase[r] = "record" /\ phase'[r] = "done" /\ faults'[k] = faults[k] + 1
          /\ UNCHANGED <<lease, stored, applied>>
        BY <1>7, <1>t DEF FreeFails, Finish, Fault, TypeOK
    <2>2. Spent(k)' \subseteq Spent(k)
        BY <1>t, <1>o, <2>1 DEF Spent
    <2>3. Unanswered(k)' \subseteq Unanswered(k)
        BY <1>o, <1>q, <2>1, <2>2 DEF Unanswered
    <2>4. /\ Cardinality(Spent(k)') <= Cardinality(Spent(k)) /\ Cardinality(Spent(k)') \in Nat
          /\ Cardinality(Unanswered(k)') <= Cardinality(Unanswered(k))
          /\ Cardinality(Unanswered(k)') \in Nat
        BY <2>2, <2>3, <1>c, FS_Subset, FS_CardinalityType
    <2>5. Open(k)' = Open(k)
        BY <2>1 DEF Open
    <2> QED  BY <2>1, <2>4, <2>5, <1>c, <1>k, <1>t
<1> QED  BY <1>1, <1>2, <1>3, <1>4, <1>5, <1>6, <1>7, <1>8 DEF Create

(* A request that takes a step of another kind than POST is under no key.  *)
LEMMA AlterUnkeyed == ASSUME IInv, NEW r \in Requests, Alter(r) PROVE ~Keyed(call[r])
BY DEF IInv, RequestInv, Alter, RejectUpdate, ReadRow, Change, Overwrite, Erase, Missing,
   StoreFails, Keyed

(* Every step keeps the accounts of every key, and who holds it.           *)
LEMMA KeyStep == IInv /\ [Next]_vars => \A k \in Keys : KeyInv(k)'
<1> SUFFICES ASSUME IInv, [Next]_vars, NEW k \in Keys PROVE KeyInv(k)'
    OBVIOUS
<1>t. /\ TypeOK /\ KeyInv(k) /\ faults[k] \in Nat
      /\ \A q \in Requests : RequestInv(q)
    BY DEF IInv, TypeOK
<1>c. /\ IsFiniteSet(Spent(k)) /\ IsFiniteSet(Unanswered(k))
      /\ Cardinality(Spent(k)) \in Nat /\ Cardinality(Unanswered(k)) \in Nat
    BY Finite
<1>k. Cardinality(Spent(k)) + Cardinality(Unanswered(k)) <= faults[k] + (IF Open(k) THEN 0 ELSE 1)
    BY <1>t DEF KeyInv
<1>q. Spent(k) \subseteq Requests
    BY DEF Spent
<1> DEFINE Balanced == Cardinality(Spent(k)) + Cardinality(Unanswered(k))
                          <= faults[k] + (IF Open(k) THEN 0 ELSE 1)
           Holder == lease[k] # Nil =>
                        LET r == lease[k] IN
                        call[r] # NoCall /\ Keyed(call[r]) /\ httpKey(call[r]) = k
<1>1. ASSUME NEW r \in Requests, NEW c \in CallsOf(r), Arrive(r, c) PROVE Balanced' /\ Holder'
    <2>1. /\ call[r] = NoCall /\ r \notin applied /\ phase'[r] = FirstPhase(c) /\ call'[r] = c
          /\ \A q \in Requests \ {r} : UNCHANGED <<phase[q], call[q]>>
          /\ UNCHANGED <<applied, keeper, live>>
        BY <1>1, <1>t DEF Arrive, RequestInv, TypeOK
    <2>2. r \notin Spent(k) /\ r \notin Spent(k)'
        BY <2>1 DEF Spent, FirstPhase
    <2>3. Spent(k)' = Spent(k)
        BY <2>1, <2>2, <1>q DEF Spent
    <2>4. Unanswered(k)' = Unanswered(k)
        BY <2>1, <2>2, <2>3, <1>q DEF Unanswered
    <2>5. Open(k)' = Open(k) /\ faults'[k] = faults[k]
        BY <2>1 DEF Open
    <2>6. Holder'
        BY <2>1, <1>t DEF KeyInv, TypeOK
    <2> QED  BY <2>3, <2>4, <2>5, <2>6, <1>k
<1>2. ASSUME NEW r \in Requests, Create(r) \/ Alter(r) PROVE Balanced' /\ Holder'
    <2>1. CASE Keyed(call[r]) /\ httpKey(call[r]) = k
        <3>1. Create(r)
            BY <1>2, <2>1, AlterUnkeyed
        <3>2. Balanced'
            BY <3>1, <2>1, Accounts
        <3>3. lease'[k] \in {lease[k], Nil, r}
            BY <3>1, <1>t DEF Create, TypeOK, TakeKey, Replay, InProgress, NoKeeper, ClaimUnknown,
               Reject, Insert, InsertUnknown, InsertFails, Save, SaveFails, FreeKey, FreeFails
        <3>4. UNCHANGED call
            BY <1>2, Others
        <3>5. call[r] # NoCall
            <4>1. phase[r] # "idle"
                BY <3>1 DEF Create, TakeKey, Replay, InProgress, NoKeeper, ClaimUnknown, Reject,
                   Insert, InsertUnknown, Land, InsertFails, Save, SaveFails, FreeKey, FreeFails
            <4> QED  BY <4>1, Caller, ProductsAssumption
        <3>6. Holder'
            BY <3>3, <3>4, <3>5, <2>1, <1>t DEF KeyInv
        <3> QED  BY <3>2, <3>6
    <2>2. CASE ~(Keyed(call[r]) /\ httpKey(call[r]) = k)
        <3>1. /\ UNCHANGED <<Spent(k), Unanswered(k), faults[k], lease[k], stored[k]>>
              /\ UNCHANGED call
            BY <1>2, <2>2, OtherKeys, Others
        <3>2. Open(k)' = Open(k)
            BY <3>1 DEF Open
        <3> QED  BY <3>1, <3>2, <1>t DEF KeyInv
    <2> QED  BY <2>1, <2>2
<1>3. ASSUME NEW j \in Keys, KeyLapses(j) PROVE Balanced' /\ Holder'
    <2>1. Spent(k)' = Spent(k) /\ Unanswered(k)' = Unanswered(k) /\ UNCHANGED call
        BY <1>3 DEF KeyLapses, Spent, Unanswered
    <2>2. CASE j = k
        <3>1. faults'[k] = faults[k] + 1 /\ lease'[k] = Nil /\ Open(k)'
            BY <1>3, <2>2, <1>t DEF KeyLapses, Fault, Open, TypeOK
        <3>2. Balanced'
            BY <2>1, <3>1, <1>c, <1>k, <1>t
        <3> QED  BY <3>1, <3>2
    <2>3. CASE j # k
        <3>1. UNCHANGED <<faults[k], lease[k], stored[k]>>
            BY <1>3, <2>3, <1>t DEF KeyLapses, Fault, TypeOK
        <3>2. Open(k)' = Open(k)
            BY <3>1 DEF Open
        <3> QED  BY <2>1, <3>1, <3>2, <1>t DEF KeyInv
    <2> QED  BY <2>2, <2>3
<1>4. ASSUME NEW gone \in SUBSET Requests, Crash(gone) PROVE Balanced' /\ Holder'
    <2>1. /\ UNCHANGED <<call, applied, keeper>>
          /\ \A q \in Requests : \/ phase'[q] = "done"
                                 \/ UNCHANGED <<phase[q], live[q]>>
        BY <1>4 DEF Crash
    <2>2. Spent(k)' \subseteq Spent(k)
        BY <2>1 DEF Spent
    <2>3. Unanswered(k)' \subseteq Unanswered(k)
        BY <2>1, <2>2, <1>q DEF Unanswered
    <2>4. /\ Cardinality(Spent(k)') <= Cardinality(Spent(k)) /\ Cardinality(Spent(k)') \in Nat
          /\ Cardinality(Unanswered(k)') <= Cardinality(Unanswered(k))
          /\ Cardinality(Unanswered(k)') \in Nat
        BY <2>2, <2>3, <1>c, FS_Subset, FS_CardinalityType
    <2>5. Open(k)' = Open(k) /\ faults'[k] = faults[k]
        BY <2>1 DEF Open
    <2>6. Balanced'
        BY <2>4, <2>5, <1>c, <1>k, <1>t
    <2> QED  BY <2>1, <2>6, <1>t DEF KeyInv
<1>5. CASE UNCHANGED vars
    BY <1>5, <1>t DEF vars, KeyInv, Spent, Unanswered, Open
<1> QED
    <2>1. Balanced' /\ Holder'
        BY <1>1, <1>2, <1>3, <1>4, <1>5 DEF Next, KeyInv
    <2> QED  BY <2>1 DEF KeyInv

-----------------------------------------------------------------------------
(* A call and its effect are there to stay. *)
LEMMA Lasting ==
    IInv /\ [Next]_vars =>
        /\ applied \subseteq applied'
        /\ \A q \in Requests : phase[q] # "idle" => call'[q] = call[q]
        /\ \A q \in Requests : phase[q] = "done" =>
              (q \in applied' => q \in applied) /\ UNCHANGED <<phase[q], reply[q]>>
<1> SUFFICES ASSUME IInv, [Next]_vars
             PROVE  /\ applied \subseteq applied'
                    /\ \A q \in Requests : phase[q] # "idle" => call'[q] = call[q]
                    /\ \A q \in Requests : phase[q] = "done" =>
                          (q \in applied' => q \in applied) /\ UNCHANGED <<phase[q], reply[q]>>
    OBVIOUS
<1>t. TypeOK
    BY DEF IInv
<1>1. ASSUME NEW r \in Requests, NEW c \in CallsOf(r), Arrive(r, c)
      PROVE  /\ UNCHANGED <<applied, reply>> /\ phase[r] = "idle"
             /\ \A q \in Requests \ {r} : UNCHANGED <<phase[q], call[q]>>
    BY <1>1, <1>t DEF Arrive, TypeOK
<1>2. ASSUME NEW r \in Requests, Create(r) \/ Alter(r) PROVE phase[r] # "done"
    BY <1>2 DEF Create, Alter, TakeKey, Replay, InProgress, NoKeeper, ClaimUnknown, Reject, Insert,
       Land, InsertUnknown, InsertFails, Save, SaveFails, FreeKey, FreeFails, RejectUpdate, ReadRow,
       Change, Overwrite, Erase, Missing, StoreFails
<1>3. ASSUME NEW k \in Keys, KeyLapses(k) PROVE UNCHANGED <<applied, phase, call, reply>>
    BY <1>3 DEF KeyLapses
<1>4. ASSUME NEW gone \in SUBSET Requests, Crash(gone)
      PROVE  /\ UNCHANGED <<applied, call>>
             /\ \A q \in Requests : phase[q] = "done" => UNCHANGED <<phase[q], reply[q]>>
    BY <1>4 DEF Crash, InFlight
<1>5. CASE UNCHANGED vars
    BY <1>5 DEF vars
<1>6. ASSUME NEW r \in Requests, NEW c \in CallsOf(r), Arrive(r, c)
      PROVE  /\ applied \subseteq applied'
             /\ \A q \in Requests : phase[q] # "idle" => call'[q] = call[q]
             /\ \A q \in Requests : phase[q] = "done" =>
                   (q \in applied' => q \in applied) /\ UNCHANGED <<phase[q], reply[q]>>
    BY <1>1, <1>6
<1>7. ASSUME NEW r \in Requests, Create(r) \/ Alter(r)
      PROVE  /\ applied \subseteq applied'
             /\ \A q \in Requests : phase[q] # "idle" => call'[q] = call[q]
             /\ \A q \in Requests : phase[q] = "done" =>
                   (q \in applied' => q \in applied) /\ UNCHANGED <<phase[q], reply[q]>>
    BY <1>2, <1>7, Others
<1> QED  BY <1>3, <1>4, <1>5, <1>6, <1>7 DEF Next

(* How a request may be answered in a step. *)
Answered(q) ==
    \/ UNCHANGED reply[q]
    \/ reply'[q].status \in Refusals /\ q \notin applied'
    \/ reply'[q].status = "ok" /\ q \in applied'
    \/ reply'[q].status \in {"internal", "lost"}
    \/ /\ reply'[q].status = "created" /\ reply'[q].id = q
       /\ q \in applied' /\ call[q].op = "create"
    \/ /\ Keyed(call[q]) /\ stored[httpKey(call[q])] # NoReply
       /\ reply'[q] = stored[httpKey(call[q])]

(* Every step answers so. *)
LEMMA Answers == IInv /\ [Next]_vars => \A q \in Requests : Answered(q)
<1> SUFFICES ASSUME IInv, [Next]_vars, NEW q \in Requests PROVE Answered(q)
    OBVIOUS
<1>t. TypeOK /\ RequestInv(q) /\ RecordInv(q)
    BY DEF IInv
<1>f. ASSUME NEW a, Finish(q, a) PROVE reply'[q] = a
    BY <1>f, <1>t DEF Finish, TypeOK
<1>g. ASSUME NEW a, Respond(q, a) PROVE reply'[q] = a \/ UNCHANGED reply[q]
    BY <1>g, <1>t DEF Respond, Goto, Finish, TypeOK
<1>1. ASSUME NEW r \in Requests, NEW c \in CallsOf(r), Arrive(r, c) PROVE Answered(q)
    BY <1>1 DEF Arrive, Answered
<1>2. ASSUME NEW r \in Requests, Create(r) \/ Alter(r), q # r PROVE Answered(q)
    BY <1>2, Others DEF Answered
<1>3. ASSUME Create(q) PROVE Answered(q)
    <2>1. CASE TakeKey(q)  BY <2>1 DEF TakeKey, Goto, Answered
    <2>2. CASE Replay(q)
        <3>1. reply'[q] = stored[httpKey(call[q])] /\ stored[httpKey(call[q])] # NoReply
            BY <2>2, <1>f DEF Replay
        <3> QED  BY <2>2, <3>1, <1>t DEF Replay, RequestInv, Answered
    <2>3. CASE InProgress(q)
        BY <2>3, <1>f, <1>t DEF InProgress, RequestInv, Answered, Answer, Refusals
    <2>4. CASE NoKeeper(q)
        <3>1. reply'[q] = Answer("unavailable") \/ reply'[q] = Answer("internal")
            BY <2>4, <1>f DEF NoKeeper
        <3> QED  BY <2>4, <3>1, <1>t DEF NoKeeper, RequestInv, Answered, Answer, Refusals
    <2>10. CASE ClaimUnknown(q)
        BY <2>10, <1>f, <1>t DEF ClaimUnknown, RequestInv, Answered, Answer, Refusals
    <2>5. CASE Reject(q)
        <3>1. reply'[q] = Answer("invalid") \/ UNCHANGED reply[q]
            BY <2>5, <1>g DEF Reject
        <3> QED  BY <2>5, <3>1, <1>t DEF Reject, RequestInv, Answered, Answer, Refusals
    <2>6. CASE Insert(q)
        <3>1. reply'[q] = [status |-> "created", id |-> q] \/ UNCHANGED reply[q]
            BY <2>6, <1>g DEF Insert
        <3> QED  BY <2>6, <3>1, <1>t DEF Insert, Land, RequestInv, Answered
    <2>7. CASE InsertUnknown(q) \/ InsertFails(q)
        <3>1. reply'[q] = Answer("internal") \/ UNCHANGED reply[q]
            BY <2>7, <1>g DEF InsertUnknown, InsertFails
        <3> QED  BY <3>1 DEF Answered, Answer
    <2>8. CASE Save(q) \/ SaveFails(q)
        <3>1. /\ reply'[q] = live[q] /\ phase[q] = "record" /\ Recorded(live[q])
              /\ UNCHANGED applied
            BY <2>8, <1>f DEF Save, SaveFails
        <3> QED  BY <3>1, <1>t DEF Recorded, RequestInv, RecordInv, Answered
    <2>9. CASE FreeKey(q) \/ FreeFails(q)
        <3>1. /\ reply'[q] = live[q] /\ phase[q] = "record" /\ ~Recorded(live[q])
              /\ UNCHANGED applied
            BY <2>9, <1>f DEF FreeKey, FreeFails
        <3> QED  BY <3>1, <1>t DEF Recorded, RecordInv, Answered, Refusals
    <2> QED  BY <1>3, <2>1, <2>2, <2>3, <2>4, <2>5, <2>6, <2>7, <2>8, <2>9, <2>10 DEF Create
<1>4. ASSUME Alter(q) PROVE Answered(q)
    <2>1. CASE RejectUpdate(q)
        BY <2>1, <1>f, <1>t DEF RejectUpdate, RequestInv, Answered, Answer, Refusals
    <2>2. CASE ReadRow(q)  BY <2>2 DEF ReadRow, Goto, Answered
    <2>3. CASE Change(q)
        <3>1. \E s \in {"ok", "internal"} : reply'[q] = Answer(s)
            BY <2>3, <1>f DEF Change
        <3>2. q \in applied'
            BY <2>3 DEF Change, Overwrite, Erase
        <3> QED  BY <3>1, <3>2 DEF Answered, Answer
    <2>4. CASE Missing(q)
        BY <2>4, <1>f, <1>t DEF Missing, RequestInv, Answered, Answer, Refusals
    <2>5. CASE StoreFails(q)  BY <2>5, <1>f DEF StoreFails, Answered, Answer
    <2> QED  BY <1>4, <2>1, <2>2, <2>3, <2>4, <2>5 DEF Alter
<1>5. ASSUME NEW k \in Keys, KeyLapses(k) PROVE Answered(q)
    BY <1>5 DEF KeyLapses, Answered
<1>6. ASSUME NEW gone \in SUBSET Requests, Crash(gone) PROVE Answered(q)
    BY <1>6 DEF Crash, Answered, Answer
<1>7. CASE UNCHANGED vars
    BY <1>7 DEF vars, Answered
<1> QED  BY <1>1, <1>2, <1>3, <1>4, <1>5, <1>6, <1>7 DEF Next

(* A request that has not arrived is not answered. *)
LEMMA Idle ==
    IInv /\ [Next]_vars => \A q \in Requests : phase[q] = "idle" => UNCHANGED reply[q]
<1> SUFFICES ASSUME IInv, [Next]_vars, NEW q \in Requests, phase[q] = "idle"
             PROVE  UNCHANGED reply[q]
    OBVIOUS
<1>1. ASSUME NEW r \in Requests, Create(r) \/ Alter(r) PROVE phase[r] # "idle"
    BY <1>1 DEF Create, Alter, TakeKey, Replay, InProgress, NoKeeper, ClaimUnknown, Reject, Insert,
       Land, InsertUnknown, InsertFails, Save, SaveFails, FreeKey, FreeFails, RejectUpdate, ReadRow,
       Change, Overwrite, Erase, Missing, StoreFails
<1>2. ASSUME NEW r \in Requests, Create(r) \/ Alter(r) PROVE UNCHANGED reply[q]
    BY <1>1, <1>2, Others
<1>3. ASSUME NEW r \in Requests, NEW c \in CallsOf(r), Arrive(r, c) PROVE UNCHANGED reply[q]
    BY <1>3 DEF Arrive
<1>4. ASSUME NEW k \in Keys, KeyLapses(k) PROVE UNCHANGED reply[q]
    BY <1>4 DEF KeyLapses
<1>5. ASSUME NEW gone \in SUBSET Requests, Crash(gone) PROVE UNCHANGED reply[q]
    BY <1>5 DEF Crash, InFlight
<1>6. CASE UNCHANGED vars
    BY <1>6 DEF vars
<1> QED  BY <1>2, <1>3, <1>4, <1>5, <1>6 DEF Next

(* Every step keeps the promises of a reply and of a stored response. *)
LEMMA RepliesStep == IInv /\ [Next]_vars => ReplaysFaithful' /\ ReplyTruthful'
<1> SUFFICES ASSUME IInv, [Next]_vars PROVE ReplaysFaithful' /\ ReplyTruthful'
    OBVIOUS
<1>t. TypeOK /\ ReplaysFaithful /\ ReplyTruthful /\ \A q \in Requests : RequestInv(q)
    BY DEF IInv
<1>a. \A q \in applied : q \in Requests /\ q \in applied' /\ phase[q] # "idle" /\ call'[q] = call[q]
    BY Lasting, <1>t DEF TypeOK, RequestInv
<1>m. ASSUME NEW k \in Keys PROVE Made(k) \subseteq Made(k)'
    BY <1>a DEF Made
<1>r. ASSUME NEW q \in Requests, reply[q] # NoReply
      PROVE  /\ phase[q] = "done" /\ call'[q] = call[q]
             /\ reply'[q] = reply[q] /\ (q \in applied' <=> q \in applied)
    <2>1. phase[q] = "done"
        BY <1>r, <1>t DEF RequestInv
    <2> QED  BY <2>1, <1>a, Lasting
<1>1. ASSUME NEW k \in Keys, stored'[k] # NoReply
      PROVE  stored'[k].status = "created" /\ stored'[k].id \in Made(k)'
    <2>1. CASE stored'[k] = stored[k]
        BY <1>1, <2>1, <1>t, <1>m DEF ReplaysFaithful
    <2>2. CASE stored'[k] # stored[k]
        <3>1. PICK r \in Requests : Save(r)
            BY <1>1, <2>2, <1>t DEF Next, vars, Arrive, Create, Alter, TakeKey, Replay, InProgress,
               NoKeeper, ClaimUnknown, Reject, Insert, InsertUnknown, InsertFails, SaveFails,
               FreeKey, FreeFails,
               RejectUpdate, ReadRow, Change, Missing, StoreFails, KeyLapses, Crash, TypeOK
        <3>2. k = httpKey(call[r]) /\ stored'[k] = live[r]
            BY <2>2, <3>1, <1>t DEF Save, TypeOK
        <3>3. /\ RecordInv(r) /\ phase[r] = "record" /\ live[r].status = "created"
              /\ UNCHANGED <<call, applied>>
            BY <3>1 DEF IInv, Save, Recorded, Finish
        <3> QED  BY <3>2, <3>3 DEF RecordInv, Made
    <2> QED  BY <2>1, <2>2
<1>2. ASSUME NEW q \in Requests, reply'[q] # NoReply, reply'[q].status = "created"
      PROVE  LET o == reply'[q].id IN
             /\ o \in applied' /\ call'[o].op = "create"
             /\ o # q => /\ Keyed(call'[q]) /\ call'[o].key = call'[q].key
                         /\ Auth => call'[o].by = call'[q].by
    <2>1. CASE reply[q] # NoReply
        BY <1>2, <2>1, <1>r, <1>t, <1>a DEF ReplaysFaithful
    <2>2. CASE reply[q] = NoReply
        <3>1. \/ reply'[q].id = q /\ q \in applied' /\ call[q].op = "create"
              \/ /\ Keyed(call[q]) /\ stored[httpKey(call[q])] # NoReply
                 /\ reply'[q] = stored[httpKey(call[q])]
            BY <1>2, <2>2, Answers DEF Answered, Refusals
        <3>2. phase[q] # "idle"
            <4>1. phase[q] = "idle" => call[q] = NoCall /\ reply'[q] = NoReply
                BY <2>2, <1>t, Idle DEF RequestInv
            <4> QED  BY <1>2, <4>1
        <3>3. call'[q] = call[q]
            BY <3>2, Lasting
        <3>4. CASE reply'[q].id = q /\ q \in applied' /\ call[q].op = "create"
            BY <3>3, <3>4
        <3>5. CASE /\ Keyed(call[q]) /\ stored[httpKey(call[q])] # NoReply
                   /\ reply'[q] = stored[httpKey(call[q])]
            <4>1. httpKey(call[q]) \in Keys
                BY <3>2, <3>5, Caller
            <4>2. PICK o \in Made(httpKey(call[q])) : o = reply'[q].id
                BY <3>5, <4>1, <1>t DEF ReplaysFaithful
            <4>3. /\ o \in applied /\ Keyed(call[o]) /\ httpKey(call[o]) = httpKey(call[q])
                  /\ o \in applied' /\ call'[o] = call[o]
                BY <4>2, <1>a DEF Made
            <4>4. call[o].op = "create" /\ call[o].key = call[q].key /\ (Auth => call[o].by = call[q].by)
                BY <4>3 DEF Keyed, httpKey
            <4> QED  BY <3>3, <3>5, <4>2, <4>3, <4>4
        <3> QED  BY <3>1, <3>4, <3>5
    <2> QED  BY <2>1, <2>2
<1>3. ASSUME NEW q \in Requests, reply'[q] # NoReply
      PROVE  /\ reply'[q].status \in Refusals => q \notin applied'
             /\ reply'[q].status = "ok" => q \in applied'
    <2>1. CASE reply[q] # NoReply
        BY <2>1, <1>r, <1>t DEF ReplyTruthful
    <2>2. CASE reply[q] = NoReply
        <3>1. CASE /\ Keyed(call[q]) /\ stored[httpKey(call[q])] # NoReply
                   /\ reply'[q] = stored[httpKey(call[q])]
            <4>1. httpKey(call[q]) \in Keys
                BY <1>3, <2>2, <3>1, <1>t, Idle, Caller DEF RequestInv
            <4> QED  BY <3>1, <4>1, <1>t DEF ReplaysFaithful, Refusals
        <3> QED  BY <1>3, <2>2, <3>1, Answers DEF Answered, Refusals
    <2> QED  BY <2>1, <2>2
<1> QED  BY <1>1, <1>2, <1>3 DEF ReplaysFaithful, ReplyTruthful

(* Under a key without a fault at most one request runs, the one that      *)
(* holds its lease.                                                        *)
LEMMA OneRuns ==
    ASSUME IInv, NEW k \in Keys, faults[k] = 0
    PROVE  /\ lease[k] = Nil => Running(k) = {}
           /\ \A r \in Running(k) : lease[k] = r /\ Running(k) = {r}
<1>1. \A r \in Running(k) : r \in Requests /\ lease[k] = r
    BY DEF IInv, BusyIsBusy, Running
<1> QED  BY <1>1, ProductsAssumption

(* A step of a request under a key touches no other that runs under it.    *)
LEMMA RunningStep ==
    ASSUME IInv, NEW r \in Requests, Create(r) \/ Alter(r), NEW k \in Keys
    PROVE  /\ Running(k)' \ {r} = Running(k) \ {r}
           /\ r \in Running(k)' <=>
                 phase'[r] \in {"insert", "record"} /\ Keyed(call[r]) /\ httpKey(call[r]) = k
           /\ UNCHANGED call
<1>1. UNCHANGED call /\ \A q \in Requests \ {r} : UNCHANGED phase[q]
    BY Others
<1> QED  BY <1>1 DEF Running

(* Every step keeps one handler of a key at a time, and the reason of a    *)
(* key in progress.                                                        *)
LEMMA BusyStep == IInv /\ [Next]_vars => BusyIsBusy'
<1> DEFINE Exclusive(k) == \A r \in Running(k) : lease[k] = r
           Held(k) == lease[k] # Nil => lease[k] \in Running(k) \/ reply[lease[k]] \in CutOff
<1> SUFFICES ASSUME IInv, [Next]_vars, NEW k \in Keys, faults'[k] = 0
             PROVE  Exclusive(k)' /\ Held(k)'
    BY DEF BusyIsBusy
<1>t. TypeOK /\ KeyInv(k) /\ \A q \in Requests : RequestInv(q) /\ RecordInv(q)
    BY DEF IInv
<1>b. faults[k] = 0 => Exclusive(k) /\ Held(k)
    BY DEF IInv, BusyIsBusy
<1>a. NoReply \notin CutOff
    BY AnswerType DEF CutOff, Statuses, Refusals
<1>d. lease[k] # Nil /\ reply[lease[k]] \in CutOff => reply'[lease[k]] = reply[lease[k]]
    <2>1. lease[k] # Nil => lease[k] \in Requests
        BY <1>t DEF TypeOK
    <2> QED  BY <2>1, <1>a, <1>t, Lasting DEF RequestInv
<1>s. ASSUME lease'[k] = lease[k], faults[k] = 0, Running(k)' = Running(k)
      PROVE  Exclusive(k)' /\ Held(k)'
    BY <1>s, <1>b, <1>d DEF CutOff
<1>1. ASSUME NEW r \in Requests, NEW c \in CallsOf(r), Arrive(r, c)
      PROVE  Exclusive(k)' /\ Held(k)'
    <2>1. /\ phase[r] = "idle" /\ phase'[r] = FirstPhase(c) /\ call'[r] = c
          /\ \A q \in Requests \ {r} : UNCHANGED <<phase[q], call[q]>>
          /\ UNCHANGED <<lease, faults>>
        BY <1>1, <1>t DEF Arrive, TypeOK
    <2>2. r \notin Running(k) /\ r \notin Running(k)'
        BY <2>1 DEF Running, FirstPhase
    <2>3. Running(k)' = Running(k)
        BY <2>1, <2>2 DEF Running
    <2> QED  BY <2>1, <2>3, <1>s
<1>2. ASSUME NEW r \in Requests, Create(r) \/ Alter(r), ~(Keyed(call[r]) /\ httpKey(call[r]) = k)
      PROVE  Exclusive(k)' /\ Held(k)'
    <2>1. lease'[k] = lease[k] /\ faults[k] = 0
        BY <1>2, OtherKeys
    <2>2. r \notin Running(k) /\ r \notin Running(k)'
        BY <1>2, RunningStep DEF Running
    <2>3. Running(k)' = Running(k)
        BY <1>2, <2>2, RunningStep
    <2> QED  BY <2>1, <2>3, <1>s
<1>3. ASSUME NEW r \in Requests, Create(r), Keyed(call[r]), httpKey(call[r]) = k
      PROVE  Exclusive(k)' /\ Held(k)'
    <2>r. /\ Running(k)' \ {r} = Running(k) \ {r}
          /\ r \in Running(k)' <=> phase'[r] \in {"insert", "record"}
        BY <1>3, RunningStep
    <2>p. r \in Running(k) <=> phase[r] \in {"insert", "record"}
        BY <1>3 DEF Running
    <2>1. CASE TakeKey(r)
        <3>1. /\ lease[k] = Nil /\ lease'[k] = r /\ faults[k] = 0 /\ phase'[r] = "insert"
            BY <1>3, <2>1, <1>t DEF TakeKey, Open, Goto, TypeOK
        <3>2. Running(k)' = {r}
            BY <3>1, <2>r, OneRuns
        <3> QED  BY <3>1, <3>2
    <2>2. CASE ClaimUnknown(r)
        <3>1. /\ lease[k] = Nil /\ lease'[k] = r /\ faults[k] = 0 /\ phase'[r] = "done"
              /\ reply'[r] = Answer("unavailable")
            BY <1>3, <2>2, <1>t DEF ClaimUnknown, Open, Finish, TypeOK
        <3>2. Running(k)' = {}
            BY <3>1, <2>r, OneRuns
        <3> QED  BY <3>1, <3>2 DEF CutOff
    <2>3. CASE Replay(r) \/ InProgress(r) \/ NoKeeper(r)
        <3>1. lease'[k] = lease[k] /\ faults[k] = 0 /\ phase[r] = "claim" /\ \E a : Finish(r, a)
            BY <2>3 DEF Replay, InProgress, NoKeeper
        <3>2. phase'[r] = "done"
            BY <3>1, <1>t DEF Finish, TypeOK
        <3> QED  BY <3>1, <3>2, <2>r, <2>p, <1>s
    <2>4. CASE Reject(r) \/ Insert(r) \/ InsertFails(r)
        <3>1. /\ lease'[k] = lease[k] /\ faults[k] = 0 /\ phase[r] = "insert"
              /\ \E a : Respond(r, a)
            BY <2>4 DEF Reject, Insert, Land, InsertFails
        <3>2. phase'[r] = "record"
            BY <1>3, <3>1, <1>t DEF Respond, Goto, TypeOK
        <3> QED  BY <3>1, <3>2, <2>r, <2>p, <1>s
    <2>5. CASE InsertUnknown(r) \/ SaveFails(r) \/ FreeFails(r)
        <3>1. faults'[k] = faults[k] + 1 /\ faults[k] \in Nat
            BY <1>3, <2>5, <1>t DEF InsertUnknown, SaveFails, FreeFails, Fault, TypeOK
        <3> QED  BY <3>1
    <2>6. CASE Save(r) \/ FreeKey(r)
        <3>1. faults[k] = 0 /\ phase[r] = "record" /\ \E a : Finish(r, a)
            BY <2>6 DEF Save, FreeKey
        <3>2. lease[k] = r /\ Running(k) = {r}
            BY <3>1, <2>p, OneRuns
        <3>3. lease'[k] = Nil /\ phase'[r] = "done"
            BY <1>3, <2>6, <3>1, <3>2, <1>t DEF Save, FreeKey, Finish, TypeOK
        <3>4. Running(k)' = {}
            BY <3>2, <3>3, <2>r
        <3> QED  BY <3>3, <3>4
    <2> QED  BY <1>3, <2>1, <2>2, <2>3, <2>4, <2>5, <2>6 DEF Create
<1>4. ASSUME NEW j \in Keys, KeyLapses(j)
      PROVE  Exclusive(k)' /\ Held(k)'
    <2>1. j # k
        BY <1>4, <1>t DEF KeyLapses, Fault, TypeOK
    <2>2. lease'[k] = lease[k] /\ faults[k] = 0 /\ UNCHANGED <<phase, call>>
        BY <1>4, <2>1, <1>t DEF KeyLapses, Fault, TypeOK
    <2> QED  BY <2>2, <1>s DEF Running
<1>5. ASSUME NEW gone \in SUBSET Requests, Crash(gone)
      PROVE  Exclusive(k)' /\ Held(k)'
    <2>1. lease' = lease /\ faults[k] = 0 /\ UNCHANGED call
        BY <1>5 DEF Crash
    <2>2. Running(k)' = Running(k) \ gone
        BY <1>5, <2>1 DEF Crash, Running
    <2>3. Exclusive(k)'
        BY <2>1, <2>2, <1>b
    <2>4. \A q \in gone : reply'[q] = Answer("lost")
        BY <1>5 DEF Crash
    <2>5. Held(k)'
        BY <2>1, <2>2, <2>4, <1>b, <1>d DEF CutOff
    <2> QED  BY <2>3, <2>5
<1>6. CASE UNCHANGED vars
    BY <1>6, <1>s DEF vars, Running
<1> QED
    BY <1>1, <1>2, <1>3, <1>4, <1>5, <1>6, AlterUnkeyed DEF Next

-----------------------------------------------------------------------------
(* The strengthening of the properties is an invariant. *)
THEOREM Invariance == Spec => []IInv
<1>1. IInv /\ [Next]_vars => IInv'
    BY TypeStep, RequestStep, KeyStep, RepliesStep, BusyStep DEF IInv
<1> QED  BY InitInv, <1>1, PTL DEF Spec

(* The variables have their types. *)
THEOREM TypeCorrect == Spec => []TypeOK
<1>1. IInv => TypeOK
    BY DEF IInv
<1> QED  BY Invariance, <1>1, PTL

(* What was made under a key is within its one run and its faults. *)
LEMMA MadeWithinFaults ==
    ASSUME IInv, NEW k \in Keys
    PROVE  IsFiniteSet(Made(k)) /\ Cardinality(Made(k)) \in Nat /\ Cardinality(Made(k)) <= 1 + faults[k]
<1>1. TypeOK /\ KeyInv(k) /\ \A r \in Requests : RequestInv(r)
    BY DEF IInv
<1>2. Made(k) \subseteq Spent(k)
    <2> SUFFICES ASSUME NEW r \in Made(k) PROVE r \in Spent(k)
        OBVIOUS
    <2>1. r \in applied /\ r \in Requests /\ phase[r] # "idle"
        BY <1>1 DEF Made, TypeOK, RequestInv
    <2>2. call[r] # NoCall
        BY <2>1, Caller, ProductsAssumption
    <2> QED  BY <2>1, <2>2 DEF Made, Spent
<1>3. /\ IsFiniteSet(Made(k))
      /\ Cardinality(Made(k)) <= Cardinality(Spent(k)) /\ Cardinality(Made(k)) \in Nat
      /\ Cardinality(Spent(k)) \in Nat /\ Cardinality(Unanswered(k)) \in Nat
    BY <1>2, Finite, FS_Subset, FS_CardinalityType
<1>4. faults[k] \in Nat
    BY <1>1 DEF TypeOK
<1>5. Cardinality(Spent(k)) + Cardinality(Unanswered(k)) <= faults[k] + 1
    BY <1>1, <1>3, <1>4 DEF KeyInv
<1> QED  BY <1>3, <1>4, <1>5

(* The requests under an Idempotency-Key make one product and one more for *)
(* each fault, however they interleave with each other and with retries.   *)
THEOREM OneProductPerKey == Spec => []OncePerKey
<1>1. IInv => OncePerKey
    BY MadeWithinFaults DEF OncePerKey
<1> QED  BY Invariance, <1>1, PTL

(* A set of at most one element has no two. *)
LEMMA AtMostOne ==
    ASSUME NEW S, IsFiniteSet(S), Cardinality(S) <= 1, NEW x \in S, NEW y \in S
    PROVE  x = y
<1> SUFFICES ASSUME x # y PROVE FALSE
    OBVIOUS
<1>1. IsFiniteSet(S \ {x}) /\ Cardinality(S \ {x}) = Cardinality(S) - 1
    BY FS_RemoveElement
<1>2. Cardinality(S \ {x}) \in Nat /\ Cardinality(S) \in Nat
    BY <1>1, FS_CardinalityType
<1>3. Cardinality(S \ {x}) = 0
    BY <1>1, <1>2
<1>4. y \in S \ {x}
    OBVIOUS
<1> QED  BY <1>1, <1>3, <1>4, FS_EmptySet

(* Without a fault of their key, all its requests that are told of a       *)
(* creation are told of the same product.                                  *)
THEOREM RetriesHearOfOneProduct == Spec => []RetriesAgree
<1>1. IInv => RetriesAgree
    <2> SUFFICES ASSUME IInv, NEW k \in Keys, faults[k] = 0, NEW r \in Requests, NEW q \in Requests,
                        ToldOf(r, k), ToldOf(q, k)
                 PROVE  reply[r].id = reply[q].id
        BY DEF RetriesAgree
    <2>1. ASSUME NEW x \in Requests, ToldOf(x, k) PROVE reply[x].id \in Made(k)
        <3> DEFINE o == reply[x].id
        <3>1. /\ o \in applied /\ call[o].op = "create"
              /\ o # x => Keyed(call[x]) /\ call[o].key = call[x].key /\ (Auth => call[o].by = call[x].by)
            BY <2>1 DEF ToldOf, IInv, ReplaysFaithful
        <3>2. Keyed(call[x]) /\ httpKey(call[x]) = k
            BY <2>1 DEF ToldOf
        <3>3. o \in Requests /\ Keyed(call[o]) /\ httpKey(call[o]) = k
            BY <3>1, <3>2 DEF IInv, TypeOK, Keyed, httpKey
        <3> QED  BY <3>1, <3>3 DEF Made
    <2>2. IsFiniteSet(Made(k)) /\ Cardinality(Made(k)) <= 1
        BY MadeWithinFaults
    <2> QED  BY <2>1, <2>2, AtMostOne
<1> QED  BY Invariance, <1>1, PTL

(* A key holds the success of a product made under it, and a create is     *)
(* answered with a product of its own key.                                 *)
THEOREM ReplaysAreFaithful == Spec => []ReplaysFaithful
<1>1. IInv => ReplaysFaithful
    BY DEF IInv
<1> QED  BY Invariance, <1>1, PTL

(* A refusal left nothing behind, and a success took effect. *)
THEOREM RepliesAreTruthful == Spec => []ReplyTruthful
<1>1. IInv => ReplyTruthful
    BY DEF IInv
<1> QED  BY Invariance, <1>1, PTL

(* Without a fault of its key the handler runs for one request at a time,  *)
(* which holds the lease; a lease without a handler is that of a claim cut *)
(* off by the end of its replica or by an answer the store lost.           *)
THEOREM BusyKeysAreBusy == Spec => []BusyIsBusy
<1>1. IInv => BusyIsBusy
    BY DEF IInv
<1> QED  BY Invariance, <1>1, PTL

(* No step brings a deleted product back. *)
THEOREM DeletedProductsStayGone == Spec => DeletedStaysGone
<1>1. IInv /\ [Next]_vars =>
          [\A r \in applied : call[r].op = "create" /\ rows[r] = NoRow => rows'[r] = NoRow]_vars
    <2> SUFFICES ASSUME IInv, [Next]_vars, NEW r \in applied, rows[r] = NoRow
                 PROVE  rows'[r] = NoRow
        OBVIOUS
    <2>1. TypeOK /\ r \in Requests /\ RequestInv(r)
        BY DEF IInv, TypeOK
    <2>2. ASSUME NEW q \in Requests, Land(q) PROVE rows'[r] = NoRow
        BY <2>1, <2>2 DEF Land, RequestInv, TypeOK
    <2>3. ASSUME NEW q \in Requests, Overwrite(q) \/ Erase(q) PROVE rows'[r] = NoRow
        BY <2>1, <2>3 DEF Overwrite, Erase, TypeOK
    <2>4. CASE rows' = rows
        BY <2>4
    <2>5. \/ rows' = rows
          \/ \E q \in Requests : Land(q) \/ Overwrite(q) \/ Erase(q)
        BY DEF Next, vars, Arrive, Create, Alter, TakeKey, Replay, InProgress, NoKeeper,
           ClaimUnknown, Reject, Insert, InsertUnknown, InsertFails, Save, SaveFails, FreeKey, FreeFails, RejectUpdate,
           ReadRow, Change, Missing, StoreFails, KeyLapses, Crash
    <2> QED  BY <2>2, <2>3, <2>4, <2>5
<1> QED  BY Invariance, <1>1, PTL DEF Spec, DeletedStaysGone

-----------------------------------------------------------------------------
(* A request in progress waits: nothing was told to its client. *)
LEMMA Waiting ==
    ASSUME IInv, NEW r \in Requests, phase[r] \in InFlight
    PROVE  Catalog!Waits(r)
<1>1. phase[r] \notin {"idle", "done"} /\ RequestInv(r)
    BY DEF InFlight, IInv
<1>2. reply[r] = NoReply /\ call[r] # NoCall
    BY <1>1, Caller, ProductsAssumption DEF RequestInv
<1> QED  BY <1>2 DEF Catalog!Waits, Catalog!None, Catalog!Told, Heard

(* A step that answers one request tells its client, and no other. *)
LEMMA Telling ==
    ASSUME IInv, NEW r \in Requests, NEW a \in Responses, Finish(r, a)
    PROVE  Heard' = [Heard EXCEPT ![r] = Understood(a)]
<1>1. reply' = [reply EXCEPT ![r] = a] /\ reply \in [Requests -> Responses \cup {NoReply}]
    BY DEF Finish, IInv, TypeOK
<1>2. a # NoReply
    BY ProductsAssumption
<1>3. \A q \in Requests : Heard'[q] = IF q = r THEN Understood(a) ELSE Heard[q]
    BY <1>1, <1>2 DEF Heard
<1> QED  BY <1>3 DEF Heard

(* What the answers of the routes and of the middleware mean to a client. *)
LEMMA Meaning ==
    /\ Understood(Answer("ok")) = Catalog!Told("ok", Nil)
    /\ Understood(Answer("not_found")) = Catalog!Told("not_found", Nil)
    /\ \A s \in {"invalid", "in_progress", "unavailable"} :
          Understood(Answer(s)) = Catalog!Told("refused", Nil)
    /\ \A s \in {"internal", "lost"} : Understood(Answer(s)) = Catalog!Unknown
    /\ \A a \in Responses :
          a.status = "created" => Understood(a) = Catalog!Told("created", a.id)
BY DEF Understood, Answer, Refusals, Responses, Catalog!Told, Catalog!Unknown

(* A refusal of a request that did nothing. *)
LEMMA Refusing ==
    ASSUME IInv, NEW r \in Requests, r \notin applied, UNCHANGED table,
           NEW s \in {"invalid", "in_progress", "unavailable"}, Finish(r, Answer(s))
    PROVE  Catalog!Refuse(r)
<1>1. Answer(s) \in Responses /\ UNCHANGED call
    BY AnswerType DEF Statuses, Refusals, Finish
<1>2. Heard' = [Heard EXCEPT ![r] = Catalog!Told("refused", Nil)]
    BY <1>1, Telling, Meaning
<1> QED  BY <1>1, <1>2 DEF Catalog!Refuse, Born

(* An answer that says nothing of what happened. *)
LEMMA Losing ==
    ASSUME IInv, NEW r \in Requests, phase[r] \in InFlight, UNCHANGED table,
           Finish(r, Answer("internal"))
    PROVE  Catalog!Lose({r})
<1>1. Answer("internal") \in Responses /\ UNCHANGED call
    BY AnswerType DEF Statuses, Refusals, Finish
<1>2. Heard' = [Heard EXCEPT ![r] = Catalog!Unknown]
    BY <1>1, Telling, Meaning
<1>3. Heard' = [q \in Requests |-> IF q \in {r} THEN Catalog!Unknown ELSE Heard[q]]
    BY <1>2 DEF Heard
<1> QED  BY <1>1, <1>3, Waiting DEF Catalog!Lose, Born

(* The catalog counts as its implementation does. *)
LEMMA Counting == \A S : Catalog!Cardinality(S) = Cardinality(S)
BY DEF Cardinality, Catalog!Cardinality

(* A key has room for the request that runs its handler: the products made *)
(* under it are within its faults.                                         *)
LEMMA Room ==
    ASSUME IInv, NEW r \in Requests, phase[r] = "insert", Keyed(call[r])
    PROVE  LET k == httpKey(call[r]) IN Cardinality(Catalog!Made(k)) <= faults[k]
<1> DEFINE k == httpKey(call[r])
<1>1. /\ k \in Keys /\ r \notin applied /\ call[r] # NoCall
      /\ TypeOK /\ KeyInv(k) /\ \A q \in Requests : RequestInv(q)
    BY Caller, ProductsAssumption DEF IInv, RequestInv
<1>2. faults[k] \in Nat
    BY <1>1 DEF TypeOK
<1>3. r \in Spent(k)
    BY <1>1 DEF Spent
<1>4. Catalog!Made(k) \subseteq Spent(k) \ {r}
    <2> SUFFICES ASSUME NEW q \in Catalog!Made(k) PROVE q \in Spent(k) \ {r}
        OBVIOUS
    <2>1. q \in applied /\ q \in Requests /\ Keyed(call[q]) /\ httpKey(call[q]) = k
        BY <1>1 DEF Catalog!Made, Catalog!Keyed, Catalog!Scope, Born, Keyed, httpKey, TypeOK
    <2>2. phase[q] # "idle"
        BY <1>1, <2>1 DEF RequestInv
    <2>3. call[q] # NoCall
        BY <2>1, <2>2, Caller, ProductsAssumption
    <2> QED  BY <1>1, <2>1, <2>3 DEF Spent
<1>5. /\ IsFiniteSet(Spent(k) \ {r}) /\ Cardinality(Spent(k) \ {r}) = Cardinality(Spent(k)) - 1
      /\ Cardinality(Spent(k)) \in Nat /\ Cardinality(Unanswered(k)) \in Nat
    BY <1>1, <1>3, Finite, FS_RemoveElement
<1>6. /\ Cardinality(Catalog!Made(k)) <= Cardinality(Spent(k) \ {r})
      /\ Cardinality(Catalog!Made(k)) \in Nat
    BY <1>4, <1>5, FS_Subset, FS_CardinalityType
<1>7. Cardinality(Spent(k)) + Cardinality(Unanswered(k)) <= faults[k] + 1
    BY <1>1, <1>2, <1>5 DEF KeyInv
<1> QED  BY <1>2, <1>5, <1>6, <1>7

(* An insert makes a product, and its client is told now, later or never. *)
LEMMA Making ==
    ASSUME IInv, NEW r \in Requests, Land(r), NEW a \in Responses, Respond(r, a),
           \/ a = [status |-> "created", id |-> r]
           \/ a = Answer("internal")
    PROVE  Catalog!Make(r) /\ Catalog!Waits(r)
<1>1. /\ phase[r] = "insert" /\ r \notin applied /\ call[r].op = "create" /\ call[r].name # Bad
      /\ call[r] \in CallsOf(r) /\ UNCHANGED call
    BY Caller DEF Land, IInv, RequestInv, Respond, Goto, Finish
<1>2. [name |-> call[r].name, price |-> call[r].price] \in Row
    BY <1>1 DEF CallsOf, Row
<1>3. Born' = Born \cup {r} /\ r \notin Born
    BY <1>1 DEF Land, Born
<1>4. Catalog!Keyed(call[r]) =>
          Catalog!Cardinality(Catalog!Made(Catalog!Scope(call[r]))) <= faults[Catalog!Scope(call[r])]
    BY <1>1, Room, Counting DEF Keyed, httpKey, Catalog!Keyed, Catalog!Scope
<1>5. UNCHANGED Heard \/ Catalog!Reply(r, Catalog!Told("created", r))
    <2>1. CASE Keyed(call[r])
        BY <2>1 DEF Respond, Goto, Heard
    <2>2. CASE ~Keyed(call[r])
        <3>1. Heard' = [Heard EXCEPT ![r] = Understood(a)]
            BY <2>2, Telling DEF Respond
        <3>2. Understood(a) \in {Catalog!Told("created", r), Catalog!Unknown}
            BY Meaning
        <3> QED  BY <3>1, <3>2 DEF Catalog!Reply
    <2> QED  BY <2>1, <2>2
<1>6. Catalog!Waits(r)
    BY <1>1, Waiting DEF InFlight
<1>7. rows' = [rows EXCEPT ![r] = [name |-> call[r].name, price |-> call[r].price]]
    BY DEF Land
<1>8. [name |-> call[r].name, price |-> call[r].price] \in Catalog!Row
    BY <1>2 DEF Catalog!Row, Row
<1> QED  BY <1>1, <1>3, <1>4, <1>5, <1>6, <1>7, <1>8 DEF Catalog!Make

(* An update or a delete changes no product but the one it names. *)
LEMMA Altering ==
    ASSUME IInv, NEW r \in Requests, Change(r)
    PROVE  (Catalog!Change(r) \/ Catalog!Remove(r)) /\ Catalog!Waits(r)
<1>1. PICK s \in {"ok", "internal"} : Finish(r, Answer(s))
    BY DEF Change
<1>2. Answer(s) \in Responses /\ UNCHANGED call
    BY <1>1, AnswerType DEF Statuses, Finish
<1>3. Catalog!Reply(r, Catalog!Told("ok", Nil))
    <2>1. Heard' = [Heard EXCEPT ![r] = Understood(Answer(s))]
        BY <1>1, <1>2, Telling
    <2>2. Understood(Answer(s)) \in {Catalog!Told("ok", Nil), Catalog!Unknown}
        BY Meaning
    <2> QED  BY <2>1, <2>2 DEF Catalog!Reply
<1>4. RequestInv(r)
    BY DEF IInv
<1>5. CASE Overwrite(r)
    <2>1. /\ phase[r] = "write" /\ call[r].op = "update" /\ rows[call[r].id] # NoRow
          /\ p[r] \in Row /\ Carries(call[r], p[r])
          /\ rows' = [rows EXCEPT ![call[r].id] = p[r]] /\ applied' = applied \cup {r}
        BY <1>4, <1>5 DEF Overwrite, RequestInv
    <2>2. Born' = Born
        BY <1>2, <2>1 DEF Born
    <2>3. Catalog!Change(r)
        BY <1>2, <1>3, <2>1, <2>2 DEF Catalog!Change, Catalog!Row, Row, Carries
    <2> QED  BY <2>1, <2>3, Waiting DEF InFlight
<1>6. CASE Erase(r)
    <2>1. /\ phase[r] = "remove" /\ call[r].op = "delete" /\ rows[call[r].id] # NoRow
          /\ rows' = [rows EXCEPT ![call[r].id] = NoRow] /\ applied' = applied \cup {r}
        BY <1>4, <1>6 DEF Erase, RequestInv
    <2>2. Born' = Born
        BY <1>2, <2>1 DEF Born
    <2>3. Catalog!Remove(r)
        BY <1>2, <1>3, <2>1, <2>2 DEF Catalog!Remove
    <2> QED  BY <2>1, <2>3, Waiting DEF InFlight
<1> QED  BY <1>5, <1>6 DEF Change

(* The end of a handler under the Keeper: its response, stored or not. *)
LEMMA Recording ==
    ASSUME IInv, NEW r \in Requests, phase[r] = "record", Finish(r, live[r]), UNCHANGED table
    PROVE  /\ Catalog!Waits(r)
           /\ Catalog!Confirm(r) \/ Catalog!Refuse(r) \/ Catalog!Lose({r})
<1>1. /\ live[r] \in Responses /\ live[r].status \in {"created", "internal", "invalid"}
      /\ live[r].status = "created" => live[r].id = r /\ r \in applied
      /\ live[r].status = "invalid" => r \notin applied
      /\ call[r].op = "create" /\ UNCHANGED call
    BY DEF IInv, RecordInv, RequestInv, Finish
<1>2. Catalog!Waits(r) /\ phase[r] \in InFlight
    BY Waiting DEF InFlight
<1>3. CASE live[r].status = "created"
    <2>1. Heard' = [Heard EXCEPT ![r] = Catalog!Told("created", r)]
        BY <1>1, <1>3, Telling, Meaning
    <2>2. r \in Born /\ Born' = Born
        BY <1>1, <1>3 DEF Born
    <2> QED  BY <1>1, <1>2, <2>1, <2>2 DEF Catalog!Confirm, Catalog!Reply
<1>4. CASE live[r].status = "invalid"
    <2>1. Heard' = [Heard EXCEPT ![r] = Catalog!Told("refused", Nil)]
        BY <1>1, <1>4, Telling DEF Understood, Refusals, Catalog!Told
    <2>2. r \notin Born /\ Born' = Born
        BY <1>1, <1>4 DEF Born
    <2> QED  BY <1>1, <1>2, <2>1, <2>2 DEF Catalog!Refuse
<1>5. CASE live[r].status = "internal"
    <2>1. Heard' = [Heard EXCEPT ![r] = Catalog!Unknown]
        BY <1>1, <1>5, Telling DEF Understood, Refusals, Catalog!Told, Catalog!Unknown
    <2>2. Heard' = [q \in Requests |-> IF q \in {r} THEN Catalog!Unknown ELSE Heard[q]]
        BY <2>1 DEF Heard
    <2> QED  BY <1>1, <1>2, <2>2 DEF Catalog!Lose, Born
<1> QED  BY <1>1, <1>3, <1>4, <1>5

(* The faults of a key are those the catalog allows for. *)
LEMMA Faults == \A k \in Keys : Fault(k) => Catalog!Fail
BY DEF Fault, Catalog!Fail, Catalog!Keys, Keys, Owners

(* What a request of POST /products does is a step of the catalog, or none *)
(* that its client or the products would notice.                           *)
LEMMA CreateRefines ==
    ASSUME IInv, NEW r \in Requests, Create(r)
    PROVE  [Catalog!Next]_(Catalog!vars)
<1>t. TypeOK /\ RequestInv(r) /\ RecordInv(r)
    BY DEF IInv
<1>k. phase[r] # "idle" /\ Keyed(call[r]) => httpKey(call[r]) \in Keys
    BY Caller
<1>w. phase[r] \in InFlight => Catalog!Waits(r)
    BY Waiting
<1>s. ASSUME Finish(r, Answer("internal")), phase[r] \in InFlight, UNCHANGED <<table, faults>>
      PROVE  Catalog!Next
    <2>1. Catalog!Lose({r})
        BY <1>s, Losing
    <2> QED  BY <1>s, <2>1 DEF Catalog!Next, Catalog!Serve
<1>1. CASE TakeKey(r)
    <2>1. UNCHANGED <<rows, applied, call, reply, faults>>
        BY <1>1 DEF TakeKey, Goto
    <2> QED  BY <2>1 DEF Catalog!vars, Born, Heard
<1>2. CASE Replay(r)
    <2> DEFINE k == httpKey(call[r])
               o == stored[k].id
    <2>1. /\ phase[r] = "claim" /\ Keyed(call[r]) /\ k \in Keys /\ r \notin applied
          /\ stored[k] # NoReply /\ Finish(r, stored[k]) /\ UNCHANGED <<rows, applied, call, faults>>
        BY <1>2, <1>k, <1>t DEF Replay, RequestInv, Finish
    <2>2. stored[k] \in Responses /\ stored[k].status = "created" /\ o \in Made(k)
        BY <2>1, <1>t DEF TypeOK, IInv, ReplaysFaithful
    <2>3. Heard' = [Heard EXCEPT ![r] = Catalog!Told("created", o)]
        BY <2>1, <2>2, Telling, Meaning
    <2>4. o \in Catalog!Made(Catalog!Scope(call[r]))
        BY <2>2 DEF Made, Born, Keyed, httpKey, Catalog!Made, Catalog!Keyed, Catalog!Scope
    <2>5. Catalog!Keyed(call[r]) /\ r \notin Born /\ Born' = Born
        BY <2>1 DEF Keyed, Catalog!Keyed, Born
    <2>6. Catalog!Repeat(r)
        BY <2>1, <2>3, <2>4, <2>5 DEF Catalog!Repeat
    <2> QED  BY <1>w, <2>1, <2>6 DEF InFlight, Catalog!Next, Catalog!Serve
<1>3. CASE InProgress(r) \/ NoKeeper(r)
    <2>1. PICK s \in {"in_progress", "unavailable", "internal"} : Finish(r, Answer(s))
        BY <1>3 DEF InProgress, NoKeeper
    <2>2. phase[r] = "claim" /\ r \notin applied /\ UNCHANGED <<table, keeper>>
        BY <1>3, <1>t DEF InProgress, NoKeeper, RequestInv
    <2>3. CASE s = "internal"
        BY <1>s, <2>1, <2>2, <2>3 DEF InFlight
    <2>4. CASE s # "internal"
        <3>1. Catalog!Refuse(r)
            BY <2>1, <2>2, <2>4, Refusing
        <3> QED  BY <1>w, <2>2, <3>1 DEF InFlight, Catalog!Next, Catalog!Serve
    <2> QED  BY <2>3, <2>4
<1>8. CASE ClaimUnknown(r)
    <2>1. /\ phase[r] = "claim" /\ r \notin applied /\ UNCHANGED <<table, faults>>
          /\ Finish(r, Answer("unavailable"))
        BY <1>8, <1>t DEF ClaimUnknown, RequestInv
    <2>2. Catalog!Refuse(r)
        BY <2>1, Refusing
    <2> QED  BY <1>w, <2>1, <2>2 DEF InFlight, Catalog!Next, Catalog!Serve
<1>4. CASE Reject(r) \/ InsertFails(r)
    <2>1. /\ phase[r] = "insert" /\ r \notin applied /\ UNCHANGED <<table, keeper>>
          /\ Respond(r, Answer("invalid")) \/ Respond(r, Answer("internal"))
        BY <1>4, <1>t DEF Reject, InsertFails, RequestInv
    <2>2. CASE Keyed(call[r])
        <3>1. UNCHANGED <<rows, applied, call, reply, faults>>
            BY <2>1, <2>2 DEF Respond, Goto
        <3> QED  BY <3>1 DEF Catalog!vars, Born, Heard
    <2>3. CASE ~Keyed(call[r]) /\ Respond(r, Answer("invalid"))
        <3>1. Catalog!Refuse(r)
            BY <2>1, <2>3, Refusing DEF Respond
        <3> QED  BY <1>w, <2>1, <3>1 DEF InFlight, Catalog!Next, Catalog!Serve
    <2>4. CASE ~Keyed(call[r]) /\ Respond(r, Answer("internal"))
        BY <1>s, <2>1, <2>4 DEF Respond, InFlight
    <2> QED  BY <2>1, <2>2, <2>3, <2>4
<1>5. CASE Insert(r)
    <2>1. [status |-> "created", id |-> r] \in Responses
        BY DEF Responses, Statuses
    <2>2. Catalog!Make(r) /\ Catalog!Waits(r)
        BY <1>5, <2>1, Making DEF Insert
    <2> QED  BY <1>5, <2>2 DEF Insert, Catalog!Next, Catalog!Serve
<1>6. CASE InsertUnknown(r)
    <2>1. Answer("internal") \in Responses
        BY AnswerType DEF Statuses
    <2>2. Catalog!Make(r) /\ Catalog!Waits(r)
        BY <1>6, <2>1, Making DEF InsertUnknown
    <2>3. Catalog!Fail \/ UNCHANGED faults
        BY <1>6, <1>k, Faults DEF InsertUnknown, Land
    <2> QED  BY <2>2, <2>3 DEF Catalog!Next, Catalog!Serve
<1>7. CASE Save(r) \/ SaveFails(r) \/ FreeKey(r) \/ FreeFails(r)
    <2>1. phase[r] = "record" /\ Finish(r, live[r]) /\ UNCHANGED table
        BY <1>7 DEF Save, SaveFails, FreeKey, FreeFails
    <2>2. /\ Catalog!Waits(r)
          /\ Catalog!Confirm(r) \/ Catalog!Refuse(r) \/ Catalog!Lose({r})
        BY <2>1, Recording
    <2>3. Catalog!Fail \/ UNCHANGED faults
        <3>1. httpKey(call[r]) \in Keys
            BY <1>k, <1>t, <2>1 DEF RecordInv
        <3> QED  BY <1>7, <3>1, Faults DEF Save, SaveFails, FreeKey, FreeFails
    <2> QED  BY <2>2, <2>3 DEF Catalog!Next, Catalog!Serve
<1> QED  BY <1>1, <1>2, <1>3, <1>4, <1>5, <1>6, <1>7, <1>8 DEF Create

(* So is what a request of PUT or DELETE /products/{id} does. *)
LEMMA AlterRefines ==
    ASSUME IInv, NEW r \in Requests, Alter(r)
    PROVE  [Catalog!Next]_(Catalog!vars)
<1>t. RequestInv(r)
    BY DEF IInv
<1>w. phase[r] \in InFlight => Catalog!Waits(r)
    BY Waiting
<1>1. CASE RejectUpdate(r)
    <2>1. /\ phase[r] = "read" /\ r \notin applied /\ Finish(r, Answer("invalid"))
          /\ UNCHANGED <<table, faults>>
        BY <1>1, <1>t DEF RejectUpdate, RequestInv
    <2>2. Catalog!Refuse(r)
        BY <2>1, Refusing
    <2> QED  BY <1>w, <2>1, <2>2 DEF InFlight, Catalog!Next, Catalog!Serve
<1>2. CASE ReadRow(r)
    <2>1. UNCHANGED <<rows, applied, call, reply, faults>>
        BY <1>2 DEF ReadRow, Goto
    <2> QED  BY <2>1 DEF Catalog!vars, Born, Heard
<1>3. CASE Change(r)
    <2>1. (Catalog!Change(r) \/ Catalog!Remove(r)) /\ Catalog!Waits(r)
        BY <1>3, Altering
    <2> QED  BY <1>3, <2>1 DEF Change, Catalog!Next, Catalog!Serve
<1>4. CASE Missing(r)
    <2>1. /\ phase[r] \in InFlight /\ call[r].op \in {"update", "delete"}
          /\ rows[call[r].id] = NoRow /\ Finish(r, Answer("not_found"))
          /\ UNCHANGED <<rows, applied, call, faults>>
        BY <1>4, <1>t DEF Missing, RequestInv, InFlight, Finish
    <2>2. Heard' = [Heard EXCEPT ![r] = Catalog!Told("not_found", Nil)]
        <3>1. Answer("not_found") \in Responses
            BY AnswerType DEF Statuses, Refusals
        <3> QED  BY <2>1, <3>1, Telling, Meaning
    <2>3. Catalog!Miss(r)
        BY <2>1, <2>2 DEF Catalog!Miss, Born
    <2> QED  BY <1>w, <2>1, <2>3 DEF Catalog!Next, Catalog!Serve
<1>5. CASE StoreFails(r)
    <2>1. Catalog!Lose({r})
        BY <1>5, Losing DEF StoreFails, InFlight
    <2> QED  BY <1>5, <2>1 DEF StoreFails, Catalog!Next, Catalog!Serve
<1> QED  BY <1>1, <1>2, <1>3, <1>4, <1>5 DEF Alter

(* A request that arrives asks, and its call is all that changes. *)
LEMMA ArriveRefines ==
    ASSUME IInv, NEW r \in Requests, NEW c \in CallsOf(r), Arrive(r, c)
    PROVE  Catalog!Next
<1>1. /\ call[r] = NoCall /\ r \notin applied /\ call' = [call EXCEPT ![r] = c]
      /\ UNCHANGED <<rows, applied, reply, faults>>
    BY DEF Arrive, IInv, RequestInv
<1>2. c \in Calls /\ call \in [Requests -> Calls \cup {NoCall}]
    BY CallsOfType DEF IInv, TypeOK
<1>3. UNCHANGED <<Born, Heard>>
    BY <1>1, <1>2 DEF Born, Heard
<1>4. call'[r] = c
    BY <1>1, <1>2
<1>5. Catalog!Ask(r)
    BY <1>1, <1>2, <1>3, <1>4 DEF Catalog!Ask, Calls
<1> QED  BY <1>1, <1>5 DEF Catalog!Next, Catalog!Serve

(* What one step is to the catalog. *)
LEMMA CatalogStep == IInv /\ [Next]_vars => [Catalog!Next]_(Catalog!vars)
<1> SUFFICES ASSUME IInv, [Next]_vars PROVE [Catalog!Next]_(Catalog!vars)
    OBVIOUS
<1>1. ASSUME NEW k \in Keys, KeyLapses(k) PROVE Catalog!Next
    <2>1. Catalog!Fail /\ UNCHANGED <<rows, applied, call, reply>>
        BY <1>1, Faults DEF KeyLapses
    <2> QED  BY <2>1 DEF Catalog!Next, Born, Heard
<1>2. ASSUME NEW gone \in SUBSET Requests, Crash(gone) PROVE Catalog!Next
    <2>1. UNCHANGED <<rows, applied, call, faults>>
        BY <1>2 DEF Crash
    <2>2. Answer("lost") # NoReply /\ Understood(Answer("lost")) = Catalog!Unknown
        BY AnswerType, Meaning DEF Statuses
    <2>3. Heard' = [q \in Requests |-> IF q \in gone THEN Catalog!Unknown ELSE Heard[q]]
        BY <1>2, <2>2 DEF Crash, Heard
    <2>4. \A q \in gone : Catalog!Waits(q)
        BY <1>2, Waiting DEF Crash
    <2>5. Catalog!Lose(gone)
        BY <2>1, <2>3, <2>4 DEF Catalog!Lose, Born
    <2> QED  BY <2>1, <2>5 DEF Catalog!Next, Catalog!Serve
<1>3. CASE UNCHANGED vars
    BY <1>3 DEF vars, Catalog!vars, Born, Heard
<1> QED  BY <1>1, <1>2, <1>3, CreateRefines, AlterRefines, ArriveRefines DEF Next

(* The products implement their catalog: whatever retries, lapses, lost    *)
(* answers and crashes interleave, one product is made under a key and one *)
(* more at most for each fault, and every answer was true at a moment      *)
(* between the request and the answer.                                     *)
THEOREM ProductsImplementCatalog == Spec => ImplementsCatalog
<1>1. Init => Catalog!Init
    BY DEF Init, Catalog!Init, Catalog!None, Catalog!Told, Catalog!Keys, Born, Heard, Keys, Owners
<1> QED  BY <1>1, CatalogStep, Invariance, PTL DEF Spec, Catalog!Spec, ImplementsCatalog
=============================================================================
