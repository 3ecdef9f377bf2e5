----------------------------- MODULE UsersProofs ----------------------------
(***************************************************************************)
(* The safety properties of Users for any number of requests, emails and   *)
(* names, and the refinement of UserDirectory.  All rest on IInv: a lemma  *)
(* says of each part of it that every step preserves it.                   *)
(***************************************************************************)
EXTENDS Users, TLAPS

(* What arrives is a call. *)
LEMMA CallsOfType == \A r \in Requests : CallsOf(r) \subseteq Calls
BY DEF CallsOf, Calls

(* The merge of an update is a row: a nil field takes the old value. *)
LEMMA MergedType ==
    \A c \in Calls, row \in Row : c.name # Bad => Merged(c, row) \in Row
BY DEF Merged, Given, Calls, Row

(* A create that validates makes a row. *)
LEMMA CreateType ==
    \A r \in Requests : \A c \in CallsOf(r) :
        c.op = "create" /\ c.name # Bad => [email |-> c.email, name |-> c.name] \in Row
BY DEF CallsOf, Row

(* The initial state satisfies the invariant. *)
LEMMA InitInv == Init => IInv
<1> SUFFICES ASSUME Init PROVE IInv
    OBVIOUS
<1> USE DEF Init
<1>1. TypeOK
    BY DEF TypeOK, InFlight
<1>2. EmailsUnique /\ ReplyTruthful
    BY DEF EmailsUnique, ReplyTruthful
<1>3. \A r \in Requests : RequestInv(r) /\ MergeInv(r)
    BY DEF RequestInv, MergeInv
<1> QED  BY <1>1, <1>2, <1>3 DEF IInv

USE DEF table, request

(* Every step keeps the types. *)
LEMMA TypeStep == IInv /\ [Next]_vars => TypeOK'
<1> SUFFICES ASSUME IInv, [Next]_vars PROVE TypeOK'
    OBVIOUS
<1> USE DEF IInv, TypeOK, InFlight, Statuses, Replies, Answer
<1>1. ASSUME NEW r \in Requests, NEW c \in CallsOf(r), Arrive(r, c) PROVE TypeOK'
    BY <1>1, CallsOfType DEF Arrive
<1>2. ASSUME NEW r \in Requests, Serve(r) PROVE TypeOK'
    <2>w. ASSUME NEW id \in Requests, NEW row \in Row \cup {NoRow}, NEW told \in Row \cup {NoRow},
                 Write(r, id, row), Acknowledge(r, Answer("ok", told))
          PROVE  TypeOK'
        <3>1. PICK a \in Replies : Finish(r, a)
            BY <2>w DEF Acknowledge
        <3> QED  BY <2>w, <3>1 DEF Write, Finish
    <2> USE DEF Finish, Runs
    <2>a. RequestInv(r) /\ (phase[r] # "idle" => call[r] \in Calls /\ call[r].id \in Requests)
        BY CallsOfType DEF RequestInv, Calls
    <2>1. CASE Reject(r)  BY <2>1 DEF Reject
    <2>2. CASE Insert(r)
        <3>1. [email |-> call[r].email, name |-> call[r].name] \in Row
            BY <2>a, <2>2, CreateType DEF Insert, RequestInv
        <3> QED  BY <2>2, <2>w, <3>1 DEF Insert
    <2>3. CASE QueryByID(r)  BY <2>a, <2>3 DEF QueryByID
    <2>4. CASE ReadRow(r)
        <3>1. Merged(call[r], rows[call[r].id]) \in Row
            BY <2>4, <2>a, MergedType DEF ReadRow
        <3> QED  BY <2>4, <3>1 DEF ReadRow
    <2>5. CASE Overwrite(r)
        <3>1. u[r] \in Row
            BY <2>a, <2>5 DEF Overwrite, RequestInv
        <3> QED  BY <2>a, <2>w, <2>5, <3>1 DEF Overwrite
    <2>6. CASE Erase(r)  BY <2>a, <2>w, <2>6 DEF Erase
    <2>7. CASE Duplicate(r)  BY <2>7 DEF Duplicate
    <2>8. CASE Missing(r)  BY <2>8 DEF Missing
    <2>9. CASE StoreFails(r)  BY <2>9 DEF StoreFails
    <2> QED  BY <1>2, <2>1, <2>2, <2>3, <2>4, <2>5, <2>6, <2>7, <2>8, <2>9 DEF Serve
<1>3. ASSUME NEW gone \in SUBSET Requests, Crash(gone) PROVE TypeOK'
    BY <1>3 DEF Crash
<1>4. CASE UNCHANGED vars
    BY <1>4 DEF vars
<1> QED  BY <1>1, <1>2, <1>3, <1>4 DEF Next

(* Every step keeps what a request in each phase has done and holds. *)
LEMMA RequestStep == IInv /\ [Next]_vars => \A q \in Requests : RequestInv(q)'
<1> SUFFICES ASSUME IInv, [Next]_vars, NEW q \in Requests PROVE RequestInv(q)'
    OBVIOUS
<1>t. TypeOK /\ TypeOK' /\ RequestInv(q)
    BY TypeStep DEF IInv
<1> USE UsersAssumption DEF TypeOK, InFlight, Statuses, Replies, Answer, RequestInv
<1>1. ASSUME NEW r \in Requests, NEW c \in CallsOf(r), Arrive(r, c) PROVE RequestInv(q)'
    BY <1>1, <1>t DEF Arrive
<1>2. ASSUME NEW r \in Requests, Serve(r) PROVE RequestInv(q)'
    <2> USE <1>t DEF Finish, Runs, Write, Acknowledge
    <2>a. RequestInv(r)
        BY DEF IInv
    <2>b. phase[r] # "idle" => call[r] \in Calls /\ call[r].id \in Requests
        BY <2>a, CallsOfType DEF Calls
    <2>1. CASE Reject(r)  BY <2>1, <2>a DEF Reject
    <2>2. CASE Insert(r)  BY <2>2, <2>a DEF Insert
    <2>3. CASE QueryByID(r)
        <3>1. Answer("ok", rows[call[r].id]) \in Replies
            BY <2>3, <2>b DEF QueryByID
        <3> QED  BY <2>3, <2>a, <3>1 DEF QueryByID
    <2>4. CASE ReadRow(r)
        <3>1. Merged(call[r], rows[call[r].id]) \in Row
            BY <2>4, <2>b, MergedType DEF ReadRow
        <3> QED  BY <2>4, <2>a, <3>1 DEF ReadRow
    <2>5. CASE Overwrite(r)
        <3>1. RequestInv(call[r].id)
            BY <2>5, <2>b DEF Overwrite, IInv
        <3> QED  BY <2>5, <2>a, <2>b, <3>1 DEF Overwrite
    <2>6. CASE Erase(r)  BY <2>6, <2>a, <2>b DEF Erase
    <2>7. CASE Duplicate(r)  BY <2>7, <2>a DEF Duplicate
    <2>8. CASE Missing(r)  BY <2>8, <2>a DEF Missing
    <2>9. CASE StoreFails(r)  BY <2>9, <2>a DEF StoreFails
    <2> QED  BY <1>2, <2>1, <2>2, <2>3, <2>4, <2>5, <2>6, <2>7, <2>8, <2>9 DEF Serve
<1>3. ASSUME NEW gone \in SUBSET Requests, Crash(gone) PROVE RequestInv(q)'
    BY <1>3, <1>t DEF Crash
<1>4. CASE UNCHANGED vars
    BY <1>4, <1>t DEF vars
<1> QED  BY <1>1, <1>2, <1>3, <1>4 DEF Next

(* Every step keeps the merge of an update that nobody raced: a write      *)
(* under it marks it.                                                      *)
LEMMA MergeStep == IInv /\ [Next]_vars => \A q \in Requests : MergeInv(q)'
<1> SUFFICES ASSUME IInv, [Next]_vars, NEW q \in Requests PROVE MergeInv(q)'
    OBVIOUS
<1>t. TypeOK /\ TypeOK' /\ RequestInv(q) /\ MergeInv(q)
    BY TypeStep DEF IInv
<1>q. phase[q] # "idle" => call[q].id \in Requests
    BY <1>t, CallsOfType DEF Calls, RequestInv
<1> USE DEF TypeOK, MergeInv, InFlight
<1>1. ASSUME NEW r \in Requests, NEW c \in CallsOf(r), Arrive(r, c) PROVE MergeInv(q)'
    BY <1>1, <1>t DEF Arrive
<1>2. ASSUME NEW r \in Requests, Serve(r) PROVE MergeInv(q)'
    <2> USE <1>t, <1>q DEF Finish, Runs, Acknowledge
    <2>a. RequestInv(r)
        BY DEF IInv
    <2>1. CASE Reject(r)  BY <2>1 DEF Reject
    <2>2. CASE Insert(r)
        BY <2>2, <2>a DEF Insert, Write, RequestInv
    <2>3. CASE QueryByID(r)  BY <2>3 DEF QueryByID
    <2>4. CASE ReadRow(r)
        BY <2>4, <2>a DEF ReadRow
    <2>5. CASE Overwrite(r)
        BY <2>5, <2>a DEF Overwrite, Write
    <2>6. CASE Erase(r)  BY <2>6, <2>a DEF Erase, Write
    <2>7. CASE Duplicate(r)  BY <2>7 DEF Duplicate
    <2>8. CASE Missing(r)  BY <2>8 DEF Missing
    <2>9. CASE StoreFails(r)  BY <2>9 DEF StoreFails
    <2> QED  BY <1>2, <2>1, <2>2, <2>3, <2>4, <2>5, <2>6, <2>7, <2>8, <2>9 DEF Serve
<1>3. ASSUME NEW gone \in SUBSET Requests, Crash(gone) PROVE MergeInv(q)'
    BY <1>3, <1>t DEF Crash
<1>4. CASE UNCHANGED vars
    BY <1>4, <1>t DEF vars
<1> QED  BY <1>1, <1>2, <1>3, <1>4 DEF Next

(* Every step keeps answers true. *)
LEMMA ReplyStep == IInv /\ [Next]_vars => ReplyTruthful'
<1> SUFFICES ASSUME IInv, [Next]_vars, NEW q \in Requests, reply'[q] # NoReply
             PROVE  /\ reply'[q].status \in {"invalid", "exists", "not_found"} => q \notin applied'
                    /\ reply'[q].status = "ok" => q \in applied' \/ call'[q].op = "get"
    BY DEF ReplyTruthful
<1>t. TypeOK /\ TypeOK' /\ RequestInv(q) /\ ReplyTruthful
    BY TypeStep DEF IInv
<1> USE UsersAssumption DEF TypeOK, ReplyTruthful, RequestInv, InFlight, Answer
<1>1. ASSUME NEW r \in Requests, NEW c \in CallsOf(r), Arrive(r, c)
      PROVE  UNCHANGED <<reply[q], applied, call[q]>> \/ r = q
    BY <1>1, <1>t DEF Arrive
<1>2. ASSUME NEW r \in Requests, Serve(r)
      PROVE  /\ reply'[q].status \in {"invalid", "exists", "not_found"} => q \notin applied'
             /\ reply'[q].status = "ok" => q \in applied' \/ call'[q].op = "get"
    <2> USE <1>t DEF Finish, Runs, Write, Acknowledge
    <2>a. RequestInv(r)
        BY DEF IInv
    <2>1. CASE Reject(r)  BY <2>1, <2>a DEF Reject
    <2>2. CASE Insert(r)  BY <2>2, <2>a DEF Insert
    <2>3. CASE QueryByID(r)  BY <2>3, <2>a DEF QueryByID
    <2>4. CASE ReadRow(r)  BY <2>4, <2>a DEF ReadRow
    <2>5. CASE Overwrite(r)  BY <2>5, <2>a DEF Overwrite
    <2>6. CASE Erase(r)  BY <2>6, <2>a DEF Erase
    <2>7. CASE Duplicate(r)  BY <2>7, <2>a DEF Duplicate
    <2>8. CASE Missing(r)  BY <2>8, <2>a DEF Missing
    <2>9. CASE StoreFails(r)  BY <2>9, <2>a DEF StoreFails
    <2> QED  BY <1>2, <2>1, <2>2, <2>3, <2>4, <2>5, <2>6, <2>7, <2>8, <2>9 DEF Serve
<1>3. ASSUME NEW gone \in SUBSET Requests, Crash(gone)
      PROVE  \/ UNCHANGED <<reply[q], applied, call[q]>>
             \/ reply'[q].status = "lost"
    BY <1>3, <1>t DEF Crash
<1>4. CASE UNCHANGED vars
    BY <1>4, <1>t DEF vars
<1>5. ASSUME NEW r \in Requests, NEW c \in CallsOf(r), Arrive(r, c), r = q PROVE FALSE
    BY <1>5, <1>t DEF Arrive
<1> QED  BY <1>1, <1>2, <1>3, <1>4, <1>5, <1>t DEF Next

(* Every step keeps emails unique: an insert and an overwrite see the      *)
(* index.                                                                  *)
LEMMA EmailsStep == IInv /\ [Next]_vars => EmailsUnique'
<1> SUFFICES ASSUME IInv, [Next]_vars PROVE EmailsUnique'
    OBVIOUS
<1>t. TypeOK /\ TypeOK' /\ EmailsUnique
    BY TypeStep DEF IInv
<1>w. ASSUME NEW r \in Requests, NEW id \in Requests, NEW row, Write(r, id, row),
             row = NoRow \/ ~Taken(row.email, id)
      PROVE  EmailsUnique'
    BY <1>w, <1>t DEF TypeOK, EmailsUnique, Write, Taken
<1>1. ASSUME NEW r \in Requests, Serve(r) PROVE EmailsUnique'
    <2>a. phase[r] # "idle" => call[r].id \in Requests
        BY CallsOfType DEF IInv, RequestInv, Calls
    <2>1. CASE Insert(r)
        BY <2>1, <1>w DEF Insert
    <2>2. CASE Overwrite(r)
        BY <2>2, <2>a, <1>w DEF Overwrite
    <2>3. CASE Erase(r)
        BY <2>3, <2>a, <1>w DEF Erase, Runs
    <2>4. CASE ~(Insert(r) \/ Overwrite(r) \/ Erase(r))
        BY <1>1, <2>4, <1>t DEF Serve, Reject, QueryByID, ReadRow, Duplicate, Missing,
           StoreFails, EmailsUnique
    <2> QED  BY <2>1, <2>2, <2>3, <2>4
<1>2. CASE UNCHANGED rows
    BY <1>2, <1>t DEF EmailsUnique
<1> QED  BY <1>1, <1>2 DEF Next, Arrive, Crash, vars

-----------------------------------------------------------------------------
(* The inductive invariant holds in every reachable state. *)
THEOREM Invariance == Spec => []IInv
<1>1. IInv /\ [Next]_vars => IInv'
    BY TypeStep, RequestStep, MergeStep, ReplyStep, EmailsStep DEF IInv
<1> QED  BY InitInv, <1>1, PTL DEF Spec

(* The variables have their types. *)
THEOREM TypeCorrect == Spec => []TypeOK
BY Invariance, PTL DEF IInv

(* No two users ever share an email, whatever creates and updates race. *)
THEOREM EmailsAreUnique == Spec => []EmailsUnique
BY Invariance, PTL DEF IInv

(* A refusal left nothing behind, a success took effect. *)
THEOREM RepliesAreTruthful == Spec => []ReplyTruthful
BY Invariance, PTL DEF IInv

(* Only a race between the read and the write of an update changes a field *)
(* the update was not given.                                               *)
THEOREM OnlyRacesUndoFields == Spec => OnlyRacesUndo
<1>1. ASSUME IInv, [Next]_vars, NEW r \in Requests, NEW id \in Requests,
             phase[r] = "write", phase'[r] = "done", r \in applied', call[r].id = id, r \notin raced
      PROVE  /\ rows'[id].email # rows[id].email => call[r].email # Nil
             /\ rows'[id].name # rows[id].name => call[r].name # Nil
    <2>t. TypeOK /\ RequestInv(r) /\ MergeInv(r) /\ r \notin applied
        BY <1>1 DEF IInv, RequestInv
    <2>1. Overwrite(r)
        <3>1. PICK q \in Requests : Serve(q) \/ \E c \in CallsOf(q) : Arrive(q, c)
            BY <1>1, <2>t DEF Next, Crash, vars
        <3>2. q = r
            BY <1>1, <2>t, <3>1 DEF Serve, Arrive, Reject, Insert, QueryByID, ReadRow, Overwrite,
               Erase, Duplicate, Missing, StoreFails, Acknowledge, Finish, TypeOK
        <3> QED
            BY <1>1, <2>t, <3>1, <3>2 DEF Serve, Arrive, Reject, Insert, QueryByID, ReadRow,
               Erase, Duplicate, Missing, StoreFails, Runs, Finish
    <2>2. rows'[id] = Merged(call[r], rows[id])
        BY <1>1, <2>t, <2>1 DEF Overwrite, Write, TypeOK, MergeInv
    <2> QED  BY <2>2 DEF Merged, Given
<1>2. IInv /\ [Next]_vars =>
        [\A r, id \in Requests :
         phase[r] = "write" /\ phase'[r] = "done" /\ r \in applied' /\ call[r].id = id
             /\ r \notin raced =>
             /\ rows'[id].email # rows[id].email => call[r].email # Nil
             /\ rows'[id].name # rows[id].name => call[r].name # Nil]_vars
    BY <1>1
<1> QED  BY <1>2, Invariance, PTL DEF Spec, OnlyRacesUndo

-----------------------------------------------------------------------------
(* A client is told nothing until its request is done. *)
LEMMA HeardNothing ==
    \A r \in Requests : IInv /\ phase[r] # "done" => Heard(r) = Directory!None
BY DEF IInv, RequestInv, Heard, Directory!None, Directory!Told

(* A step that answers with something the directory says at the moment, or *)
(* that it knows nothing, answers as the directory does.                   *)
LEMMA ReplyRefines ==
    ASSUME IInv, NEW r \in Requests, phase[r] \in InFlight, NEW a \in Replies, Finish(r, a),
           NEW told \in Replies, told.status \notin {"internal", "lost"},
           a \in {told, Answer("internal", NoRow), Answer("lost", NoRow)}
    PROVE  Directory!Reply(r, told)
<1> DEFINE answer == [q \in Requests |-> Heard(q)]
<1>1. answer[r] = Directory!None
    BY HeardNothing DEF InFlight
<1>2. reply' = [reply EXCEPT ![r] = a] /\ reply \in [Requests -> Replies \cup {NoReply}]
    BY DEF Finish, IInv, TypeOK
<1>3. a # NoReply
    BY UsersAssumption
<1>4. Heard(r)' \in {told, Directory!Unknown}
    BY <1>2, <1>3 DEF Heard, Answer, Directory!Unknown, Directory!Told
<1>5. \A q \in Requests \ {r} : Heard(q)' = Heard(q)
    BY <1>2 DEF Heard
<1>6. answer' = [answer EXCEPT ![r] = Heard(r)']
    BY <1>4, <1>5
<1> QED  BY <1>1, <1>4, <1>6 DEF Directory!Reply

(* The identifiers ever given to a user are those of creates that took     *)
(* effect: only an insert adds one.                                        *)
LEMMA BornStep ==
    ASSUME IInv, NEW r \in Requests, call[r] \in Calls, UNCHANGED call,
           applied' = applied \cup {r}, call[r].op # "create"
    PROVE  {q \in applied : call[q].op = "create"}' = {q \in applied : call[q].op = "create"}
OBVIOUS

(* What one step is to the directory. *)
LEMMA DirectoryStep == IInv /\ [Next]_vars => [Directory!Next]_(Directory!vars)
<1> SUFFICES ASSUME IInv, [Next]_vars
             PROVE  Directory!Next \/ UNCHANGED <<rows, {q \in applied : call[q].op = "create"},
                                                 [q \in Requests |-> Heard(q)]>>
    BY DEF Directory!vars
<1>t. TypeOK /\ TypeOK'
    BY TypeStep DEF IInv
<1>1. ASSUME NEW r \in Requests, NEW c \in CallsOf(r), Arrive(r, c)
      PROVE  UNCHANGED <<rows, {q \in applied : call[q].op = "create"},
                         [q \in Requests |-> Heard(q)]>>
    <2>1. r \notin applied
        BY <1>1 DEF IInv, RequestInv, Arrive
    <2>2. \A q \in applied : call'[q] = call[q]
        BY <1>1, <1>t, <2>1 DEF Arrive, TypeOK
    <2>3. UNCHANGED <<rows, applied, reply>>
        BY <1>1 DEF Arrive
    <2>4. UNCHANGED [q \in Requests |-> Heard(q)]
        BY <2>3 DEF Heard
    <2> QED  BY <2>2, <2>3, <2>4
<1>2. ASSUME NEW r \in Requests, Serve(r)
      PROVE  Directory!Next \/ UNCHANGED <<rows, {q \in applied : call[q].op = "create"},
                                          [q \in Requests |-> Heard(q)]>>
    <2> USE DEF InFlight, Directory!Told
    <2>a. RequestInv(r) /\ (phase[r] # "idle" => call[r] \in Calls /\ call[r].id \in Requests)
        BY CallsOfType DEF RequestInv, Calls, IInv
    <2>b. \A s \in Statuses, row \in Row \cup {NoRow} :
              Answer(s, row) \in Replies /\ Answer(s, row) = Directory!Told(s, row)
        BY DEF Answer, Replies
    <2>1. CASE Reject(r)
        <3>1. Directory!Reply(r, Directory!Told("invalid", NoRow))
            BY <2>1, <2>b, ReplyRefines DEF Reject, Statuses
        <3> QED  BY <2>1, <3>1 DEF Reject, Finish, Directory!Refuse, Directory!Next
    <2>2. CASE Insert(r)
        <3>1. PICK row \in Row : row = [email |-> call[r].email, name |-> call[r].name]
            BY <2>2, <2>a, CreateType DEF Insert, Runs, RequestInv
        <3>2. PICK a \in {Answer("ok", row), Answer("internal", NoRow), Answer("lost", NoRow)} :
                  Finish(r, a)
            BY <2>2, <3>1 DEF Insert, Acknowledge
        <3>3. Directory!Reply(r, Directory!Told("ok", row))
            BY <2>2, <2>b, <3>1, <3>2, ReplyRefines DEF Insert, Runs, Statuses
        <3>4. r \notin applied /\ call[r].op = "create" /\ UNCHANGED call
              /\ applied' = applied \cup {r} /\ rows' = [rows EXCEPT ![r] = row]
              /\ ~Taken(row.email, r)
            BY <2>2, <2>a, <3>1, <3>2 DEF Insert, Runs, Write, Finish, RequestInv
        <3>5. {q \in applied : call[q].op = "create"}'
                  = {q \in applied : call[q].op = "create"} \cup {r}
            BY <3>4
        <3>6. Directory!Add(r, row)
            BY <3>3, <3>4, <3>5 DEF Directory!Add, Directory!Taken, Taken
        <3> QED  BY <3>6 DEF Directory!Next, Directory!Row, Row
    <2>3. CASE QueryByID(r)
        <3>1. rows[call[r].id] \in Row
            BY <2>3, <2>a, <1>t DEF QueryByID, Runs, TypeOK
        <3>2. Directory!Reply(r, Directory!Told("ok", rows[call[r].id]))
            BY <2>3, <2>b, <3>1, ReplyRefines DEF QueryByID, Runs, Statuses
        <3>3. Directory!Look(r, call[r].id)
            BY <2>3, <3>2 DEF QueryByID, Finish, Directory!Look
        <3> QED  BY <2>3, <2>a, <3>3 DEF QueryByID, Runs, Directory!Next
    <2>4. CASE ReadRow(r)
        <3>1. UNCHANGED <<rows, applied, call, reply>>
            BY <2>4 DEF ReadRow
        <3>2. UNCHANGED [q \in Requests |-> Heard(q)]
            BY <3>1 DEF Heard
        <3> QED  BY <3>1, <3>2
    <2>5. CASE Overwrite(r)
        <3>1. u[r] \in Row /\ call[r].op = "update" /\ call[r].id \in Requests
            BY <2>5, <2>a DEF Overwrite, RequestInv
        <3>2. PICK a \in {Answer("ok", u[r]), Answer("internal", NoRow), Answer("lost", NoRow)} :
                  Finish(r, a)
            BY <2>5 DEF Overwrite, Acknowledge
        <3>3. Directory!Reply(r, Directory!Told("ok", u[r]))
            BY <2>5, <2>b, <3>1, <3>2, ReplyRefines DEF Overwrite, Statuses
        <3>4. applied' = applied \cup {r} /\ UNCHANGED call
              /\ rows' = [rows EXCEPT ![call[r].id] = u[r]]
              /\ rows[call[r].id] # NoRow /\ ~Taken(u[r].email, call[r].id)
            BY <2>5, <3>2 DEF Overwrite, Write, Finish
        <3>5. Directory!Change(r, call[r].id, u[r])
            BY <3>1, <3>3, <3>4, BornStep DEF Directory!Change, Directory!Taken, Taken
        <3> QED  BY <3>1, <3>5 DEF Directory!Next, Directory!Row, Row
    <2>6. CASE Erase(r)
        <3>1. call[r].op = "delete" /\ call[r].id \in Requests
            BY <2>6, <2>a DEF Erase, Runs
        <3>2. PICK a \in {Answer("ok", NoRow), Answer("internal", NoRow), Answer("lost", NoRow)} :
                  Finish(r, a)
            BY <2>6 DEF Erase, Acknowledge
        <3>3. Directory!Reply(r, Directory!Told("ok", NoRow))
            BY <2>6, <2>b, <3>2, ReplyRefines DEF Erase, Runs, Statuses
        <3>4. applied' = applied \cup {r} /\ UNCHANGED call
              /\ rows' = [rows EXCEPT ![call[r].id] = NoRow] /\ rows[call[r].id] # NoRow
            BY <2>6, <3>2 DEF Erase, Write, Finish
        <3>5. Directory!Remove(r, call[r].id)
            BY <3>1, <3>3, <3>4, BornStep DEF Directory!Remove
        <3> QED  BY <3>1, <3>5 DEF Directory!Next
    <2>7. CASE Duplicate(r)
        <3>1. phase[r] \in InFlight /\ Finish(r, Answer("exists", NoRow)) /\ UNCHANGED table
              /\ \E id \in Requests, e \in Emails : Taken(e, id)
            <4>1. CASE Runs(r, "create") /\ Taken(call[r].email, r)
                BY <2>7, <2>a, <4>1 DEF Duplicate, Runs, RequestInv, CallsOf
            <4>2. CASE phase[r] = "write" /\ Taken(u[r].email, call[r].id)
                BY <2>7, <2>a, <4>2 DEF Duplicate, RequestInv, Row
            <4> QED  BY <2>7, <4>1, <4>2 DEF Duplicate
        <3>2. Directory!Reply(r, Directory!Told("exists", NoRow))
            BY <2>b, <3>1, ReplyRefines DEF Statuses
        <3>3. PICK id \in Requests, e \in Emails : Taken(e, id)
            BY <3>1
        <3>4. Directory!Collide(r, id, e)
            BY <3>1, <3>2, <3>3 DEF Finish, Directory!Collide, Directory!Taken, Taken
        <3> QED  BY <3>4 DEF Directory!Next
    <2>8. CASE Missing(r)
        <3>1. Directory!Reply(r, Directory!Told("not_found", NoRow))
            BY <2>8, <2>b, ReplyRefines DEF Missing, Runs, Statuses
        <3>2. Directory!Miss(r, call[r].id)
            BY <2>8, <3>1 DEF Missing, Finish, Directory!Miss
        <3> QED  BY <2>8, <2>a, <3>2 DEF Missing, Runs, Directory!Next
    <2>9. CASE StoreFails(r)
        <3> DEFINE answer == [q \in Requests |-> Heard(q)]
        <3>1. reply' = [reply EXCEPT ![r] = Answer("internal", NoRow)]
              /\ UNCHANGED <<rows, applied, call>>
            BY <2>9 DEF StoreFails, Finish
        <3>2. Heard(r)' = Directory!Unknown
            BY <3>1, <1>t, <2>b, UsersAssumption
               DEF Heard, Answer, Statuses, Directory!Unknown, TypeOK
        <3>3. \A q \in Requests \ {r} : Heard(q)' = Heard(q)
            BY <3>1, <1>t DEF Heard, TypeOK
        <3>4. answer' = [q \in Requests |-> IF q \in {r} THEN Directory!Unknown ELSE answer[q]]
            BY <3>2, <3>3
        <3>5. answer[r] = Directory!None
            BY <2>9, HeardNothing DEF StoreFails
        <3>6. Directory!Lose({r})
            BY <3>1, <3>4, <3>5 DEF Directory!Lose
        <3> QED  BY <3>6 DEF Directory!Next
    <2> QED  BY <1>2, <2>1, <2>2, <2>3, <2>4, <2>5, <2>6, <2>7, <2>8, <2>9 DEF Serve
<1>3. ASSUME NEW gone \in SUBSET Requests, Crash(gone) PROVE Directory!Next
    <2> DEFINE answer == [q \in Requests |-> Heard(q)]
    <2>1. UNCHANGED <<rows, applied, call>>
        BY <1>3 DEF Crash
    <2>2. \A q \in Requests : Heard(q)' = IF q \in gone THEN Directory!Unknown ELSE Heard(q)
        <3>1. Answer("lost", NoRow) # NoReply
            BY UsersAssumption DEF Answer, Replies, Statuses
        <3> QED  BY <1>3, <3>1 DEF Crash, Heard, Answer, Directory!Unknown, Directory!Told
    <2>3. \A q \in gone : answer[q] = Directory!None
        BY <1>3, HeardNothing DEF Crash, InFlight
    <2>4. answer' = [q \in Requests |-> IF q \in gone THEN Directory!Unknown ELSE answer[q]]
        BY <2>2
    <2>5. Directory!Lose(gone)
        BY <2>1, <2>3, <2>4 DEF Directory!Lose
    <2> QED  BY <2>5 DEF Directory!Next
<1>4. CASE UNCHANGED vars
    BY <1>4 DEF vars, Heard
<1> QED  BY <1>1, <1>2, <1>3, <1>4 DEF Next

(* The users implement their directory: unique emails, identifiers used    *)
(* once, and answers that were true between the request and the answer.    *)
THEOREM UsersImplementDirectory == Spec => ImplementsDirectory
<1>1. Init => Directory!Init
    BY DEF Init, Directory!Init, Heard, Directory!None, Directory!Told
<1> QED  BY <1>1, DirectoryStep, Invariance, PTL DEF Spec, Directory!Spec, ImplementsDirectory
=============================================================================
