---------------------------- MODULE ListingProofs ---------------------------
(***************************************************************************)
(* A keyset scan repeats no row, runs newest first and visits every row    *)
(* that stays, for any tables, page sizes and writes in between.           *)
(***************************************************************************)
EXTENDS Listing, FiniteSetTheorems, TLAPS

USE DEF rows, keyset, list

(* Keys are ordered strictly, and totally. *)
LEMMA Order ==
    /\ \A k \in Keys : ~Before(k, k)
    /\ \A k, l, m \in Keys : Before(k, l) /\ Before(l, m) => Before(k, m)
    /\ \A k, l \in Keys : k = l \/ Before(k, l) \/ Before(l, k)
<1>0. Times \subseteq Int /\ Ids \subseteq Int
    BY ListingAssumption
<1>1. \A k \in Keys : k.at \in Int /\ k.id \in Int
    BY <1>0 DEF Keys
<1>5. \A k, l \in Keys : k.at = l.at /\ k.id = l.id => k = l
    BY DEF Keys
<1>2. ASSUME NEW k \in Keys PROVE ~Before(k, k)
    BY <1>1 DEF Before
<1>3. ASSUME NEW k \in Keys, NEW l \in Keys, NEW m \in Keys, Before(k, l), Before(l, m)
      PROVE  Before(k, m)
    <2>1. /\ k.at \in Int /\ l.at \in Int /\ m.at \in Int
          /\ k.id \in Int /\ l.id \in Int /\ m.id \in Int
        BY <1>1
    <2> QED  BY <1>3, <2>1 DEF Before
<1>4. ASSUME NEW k \in Keys, NEW l \in Keys PROVE k = l \/ Before(k, l) \/ Before(l, k)
    <2>1. k.at \in Int /\ l.at \in Int /\ k.id \in Int /\ l.id \in Int
        BY <1>1
    <2>2. k.at = l.at /\ k.id = l.id => k = l
        BY <1>5
    <2> QED  BY <2>1, <2>2 DEF Before
<1> QED  BY <1>2, <1>3, <1>4

(* The numbers of rows are natural. *)
LEMMA Counts == ASSUME TypeOK PROVE Matching \in Nat
<1>1. table \cap match \subseteq Ids
    BY DEF TypeOK
<1>2. IsFiniteSet(table \cap match)
    BY <1>1, ListingAssumption, FS_Subset
<1> QED  BY <1>2, FS_CardinalityType DEF Matching

(* The initial state satisfies the invariant. *)
LEMMA InitInv == Init => IInv
<1> SUFFICES ASSUME Init PROVE IInv
    OBVIOUS
<1>1. TypeOK
    BY DEF Init, TypeOK, Born
<1>2. Progresses
    BY DEF Init, Progresses
<1> QED  BY <1>1, <1>2 DEF Init, IInv, ScanInv, PageInv, NewestFirst, NoGap, TotalFits, Past, Born

(* Every step keeps the types. *)
LEMMA TypeStep == ASSUME IInv, [Next]_vars PROVE TypeOK'
<1> USE DEF IInv, TypeOK, Born
<1>1. ASSUME NEW x \in Ids, NEW t \in Times, NEW b \in BOOLEAN, Insert(x, t, b) PROVE TypeOK'
    BY <1>1 DEF Insert, Stir
<1>2. ASSUME NEW x \in Ids, Alter(x) PROVE TypeOK'
    BY <1>2 DEF Alter, Stir
<1>3. ASSUME NEW x \in Ids, Remove(x) PROVE TypeOK'
    BY <1>3 DEF Remove, Stir
<1>4. CASE OpenScan
    BY <1>4 DEF OpenScan
<1>5. CASE LastPage
    BY <1>5 DEF LastPage, Serve
<1>6. CASE FullPage
    <2>1. \A x \in Found : Key(x) \in Keys
        BY DEF Found, Key, Keys
    <2> QED  BY <1>6, <2>1 DEF FullPage, Serve
<1>7. ASSUME NEW p \in 0 .. MaxPage, QueryPage(p) PROVE TypeOK'
    <2>1. p * Rows \in Nat
        BY ListingAssumption
    <2>2. OnPage(Matching, p * Rows) \in Nat
        BY <2>1, Counts, ListingAssumption DEF OnPage
    <2> QED  BY <1>7, <2>1, <2>2 DEF QueryPage
<1>8. CASE QueryTotal
    BY <1>8, Counts DEF QueryTotal
<1>9. CASE UNCHANGED vars
    BY <1>9 DEF vars
<1> QED  BY <1>1, <1>2, <1>3, <1>4, <1>5, <1>6, <1>7, <1>8, <1>9 DEF Next, Write

(* A row keeps its key, and different rows have different keys. *)
LEMMA KeyFacts ==
    ASSUME TypeOK
    PROVE  /\ \A x \in Born : Key(x) \in Keys
           /\ \A x, y \in Born : Key(x) = Key(y) => x = y
BY DEF TypeOK, Key, Keys

(* A step that leaves the scan alone but lets rows come and go keeps the   *)
(* rest of the invariant.                                                  *)
LEMMA WriteStep ==
    ASSUME IInv, TypeOK', UNCHANGED keyset, steady' \subseteq steady,
           Born \subseteq Born', \A x \in Born : stamp'[x] = stamp[x]
    PROVE  ScanInv' /\ NewestFirst' /\ NoGap'
<1>1. \A x \in Born : Key(x)' = Key(x)
    BY DEF Key
<1>2. \A x \in Ids : served[x] # {} => x \in Born
    BY DEF IInv, ScanInv
<1>3. \A x \in Born : Past(x)' = Past(x)
    BY <1>1 DEF Past
<1>4. steady \subseteq Born
    BY DEF IInv, TypeOK
<1>5. ScanInv'
    BY <1>2, <1>3, <1>4 DEF IInv, ScanInv
<1>6. NewestFirst'
    BY <1>1, <1>2 DEF IInv, NewestFirst
<1>7. NoGap'
    BY DEF IInv, NoGap
<1> QED  BY <1>5, <1>6, <1>7

(* A page lies past the boundary, so what it shows comes after what was    *)
(* shown before.                                                           *)
LEMMA PageStep ==
    ASSUME IInv, TypeOK', scan = "open", UNCHANGED rows,
           NEW page \in SUBSET Found, Serve(page)
    PROVE  NewestFirst'
<1> USE DEF IInv, TypeOK
<1> SUFFICES ASSUME NEW x \in Ids, NEW y \in Ids,
                    NEW p \in served'[x], NEW q \in served'[y], p < q
             PROVE  Before(Key(x), Key(y))'
    BY DEF NewestFirst
<1>1. Key(x)' = Key(x) /\ Key(y)' = Key(y)
    BY DEF Key
<1>2. \A z \in Ids : /\ served[z] \subseteq 1 .. pages
                     /\ served'[z] = IF z \in page THEN served[z] \cup {pages + 1} ELSE served[z]
    BY DEF Serve
<1>3. p \in served[x] /\ p <= pages
    BY <1>2
<1>4. x \in Born
    BY <1>3 DEF ScanInv
<1>5. CASE q \in served[y]
    BY <1>1, <1>3, <1>5 DEF NewestFirst
<1>6. CASE q \notin served[y]
    <2>1. y \in Found
        BY <1>2, <1>6
    <2>2. after # NoKey
        BY <1>2, <1>3 DEF ScanInv
    <2>3. after \in Keys /\ Before(after, Key(y)) /\ ~Before(after, Key(x))
        BY <1>3, <2>1, <2>2 DEF ScanInv, Found, Past
    <2>4. Key(x) \in Keys /\ Key(y) \in Keys
        BY <1>4, <2>1, KeyFacts DEF Found
    <2> QED  BY <1>1, <2>3, <2>4, Order
<1> QED  BY <1>5, <1>6

(* Every step keeps the rest of the invariant. *)
LEMMA ScanStep ==
    ASSUME IInv, [Next]_vars, TypeOK'
    PROVE  ScanInv' /\ NewestFirst' /\ NoGap'
<1> USE DEF IInv
<1>1. ASSUME NEW x \in Ids, NEW t \in Times, NEW b \in BOOLEAN, Insert(x, t, b)
      PROVE  ScanInv' /\ NewestFirst' /\ NoGap'
    BY <1>1, WriteStep DEF Insert, Born
<1>2. ASSUME NEW x \in Ids, Alter(x) \/ Remove(x)
      PROVE  ScanInv' /\ NewestFirst' /\ NoGap'
    BY <1>2, WriteStep DEF Alter, Remove, Born
<1>3. CASE OpenScan
    <2>1. \A x \in Ids : served[x] = {}
        BY <1>3 DEF OpenScan, ScanInv, TypeOK
    <2>2. UNCHANGED <<stamp, after, pages, served>> /\ scan' = "open" /\ after = NoKey /\ pages = 0
        BY <1>3 DEF OpenScan, ScanInv
    <2>3. ScanInv'
        BY <2>1, <2>2 DEF ScanInv, Past
    <2>4. NewestFirst' /\ NoGap'
        BY <2>1, <2>2 DEF NewestFirst, NoGap
    <2> QED  BY <2>3, <2>4
<1>4. CASE LastPage
    <2>1. NewestFirst'
        BY <1>4, PageStep DEF LastPage
    <2>2. scan = "open" /\ scan' = "ended" /\ UNCHANGED <<rows, steady, after>>
        BY <1>4 DEF LastPage
    <2>3. \A z \in Ids : served'[z] = IF z \in Found THEN served[z] \cup {pages + 1} ELSE served[z]
        BY <1>4 DEF LastPage, Serve
    <2>4. \A z \in steady : z \in Ids /\ (z \in Found \/ served[z] # {})
        BY <2>2 DEF ScanInv, Found, TypeOK, Born
    <2>5. NoGap'
        BY <2>2, <2>3, <2>4 DEF NoGap
    <2>6. ScanInv'
        BY <2>2, <2>3 DEF ScanInv, Found, TypeOK, Born
    <2> QED  BY <2>1, <2>5, <2>6
<1>5. CASE FullPage
    <2>1. PICK last \in Found :
              LET page == {x \in Found : x = last \/ Before(Key(x), Key(last))}
              IN  Serve(page) /\ after' = Key(last)
        BY <1>5 DEF FullPage
    <2> DEFINE page == {x \in Found : x = last \/ Before(Key(x), Key(last))}
    <2>2. scan = "open" /\ UNCHANGED <<rows, scan, steady>> /\ Serve(page) /\ after' = Key(last)
        BY <1>5, <2>1 DEF FullPage
    <2>3. NewestFirst'
        BY <2>2, PageStep
    <2>4. NoGap'
        BY <2>2 DEF NoGap
    <2>5. \A z \in Ids : /\ served[z] \subseteq 1 .. pages
                         /\ served'[z] = IF z \in page THEN served[z] \cup {pages + 1} ELSE served[z]
        BY <2>2 DEF Serve, TypeOK
    <2>6. Found \subseteq Born /\ Born \subseteq Ids /\ Born' = Born
        BY <2>2 DEF Found, TypeOK, Born
    <2>7. \A z \in Born : Key(z)' = Key(z) /\ Key(z) \in Keys
        BY <2>2, KeyFacts DEF Key
    <2>8. after' \in Keys /\ after' = Key(last) /\ after' # NoKey
        BY <2>2, <2>6, <2>7, ListingAssumption DEF Keys
    <2>9. ASSUME NEW x \in Ids, served'[x] # {} PROVE x \in Born /\ ~Past(x)'
        <3>1. x \in Born
            BY <2>5, <2>6, <2>9 DEF ScanInv
        <3>2. CASE x \in page
            BY <2>6, <2>7, <2>8, <3>1, <3>2, Order DEF Past
        <3>3. CASE x \notin page
            <4>0. served[x] # {} /\ pages \in Nat
                BY <2>5, <2>9, <3>3 DEF TypeOK
            <4>1. pages # 0
                <5>1. PICK p \in served[x] : p \in 1 .. pages
                    BY <2>5, <4>0
                <5> QED  BY <4>0, <5>1
            <4>2. after \in Keys /\ ~Before(after, Key(x)) /\ Before(after, Key(last))
                BY <2>2, <4>0, <4>1 DEF ScanInv, Past, Found, TypeOK
            <4> QED  BY <2>6, <2>7, <2>8, <3>1, <4>2, Order DEF Past
        <3> QED  BY <3>1, <3>2, <3>3
    <2>10. ASSUME NEW x \in steady, served'[x] = {} PROVE Past(x)'
        <3>1. x \in table \cap match /\ x \in Born
            BY DEF TypeOK
        <3>2. x \in Found /\ x \notin page
            BY <2>2, <2>5, <2>6, <2>10, <3>1 DEF ScanInv, Found
        <3>3. Key(x) # Key(last)
            BY <2>6, <3>1, <3>2, KeyFacts
        <3> QED  BY <2>6, <2>7, <2>8, <3>1, <3>2, <3>3, Order DEF Past
    <2>11. ScanInv'
        BY <2>2, <2>6, <2>8, <2>9, <2>10 DEF ScanInv
    <2> QED  BY <2>3, <2>4, <2>11
<1>6. ASSUME NEW p \in 0 .. MaxPage, QueryPage(p)
      PROVE  ScanInv' /\ NewestFirst' /\ NoGap'
    BY <1>6, WriteStep DEF QueryPage, Born
<1>7. CASE QueryTotal
    BY <1>7, WriteStep DEF QueryTotal, Born
<1>8. CASE UNCHANGED vars
    BY <1>8, WriteStep DEF vars, Born
<1> QED  BY <1>1, <1>2, <1>3, <1>4, <1>5, <1>6, <1>7, <1>8 DEF Next, Write

(* What a page shows was on no page before. *)
LEMMA NewRows ==
    ASSUME IInv, scan = "open", NEW page \in SUBSET Found, Serve(page)
    PROVE  /\ IsFiniteSet(page) /\ Cardinality(page) \in Nat /\ Cardinality(Visited) \in Nat
           /\ Cardinality(Visited)' = Cardinality(Visited) + Cardinality(page)
<1> USE DEF IInv, TypeOK
<1>1. Visited \subseteq Ids /\ page \subseteq Ids /\ Found \subseteq Ids
    BY DEF Visited, Found, Born
<1>2. /\ IsFiniteSet(Visited) /\ IsFiniteSet(page) /\ IsFiniteSet(Found)
      /\ Cardinality(Visited) \in Nat /\ Cardinality(page) \in Nat
    BY <1>1, ListingAssumption, FS_Subset, FS_CardinalityType
<1>3. \A x \in page : served[x] = {}
    <2> SUFFICES ASSUME NEW x \in page, served[x] # {} PROVE FALSE
        OBVIOUS
    <2>1. PICK q \in served[x] : q \in 1 .. pages
        BY <1>1
    <2>2. pages # 0
        BY <2>1
    <2> QED  BY <1>1, <2>2 DEF ScanInv, Found
<1>4. Visited \cap page = {}
    BY <1>3 DEF Visited
<1>5. Visited' = Visited \cup page
    <2>1. \A x \in Ids : (served'[x] # {}) <=> (x \in page \/ served[x] # {})
        BY DEF Serve
    <2> QED  BY <1>1, <2>1 DEF Visited
<1>6. Cardinality(Visited \cup page) = Cardinality(Visited) + Cardinality(page) - Cardinality({})
    BY <1>2, <1>4, FS_Union
<1> QED  BY <1>2, <1>5, <1>6, FS_EmptySet

(* Every page with a token is full, and the last one holds what is left. *)
LEMMA ProgressStep == ASSUME IInv, [Next]_vars PROVE Progresses'
<1> USE DEF IInv
<1>t. TypeOK /\ Limit \in Nat /\ pages \in Nat
    BY ListingAssumption DEF TypeOK
<1>1. ASSUME UNCHANGED keyset PROVE Progresses'
    BY <1>1 DEF Progresses, Visited
<1>2. CASE OpenScan
    <2>1. \A x \in Ids : served[x] = {}
        BY <1>2, <1>t DEF OpenScan, ScanInv, TypeOK
    <2>2. scan' = "open" /\ pages' = 0 /\ Visited' = {}
        BY <1>2, <2>1 DEF OpenScan, ScanInv, Visited
    <2> QED  BY <1>t, <2>2, FS_EmptySet DEF Progresses
<1>3. CASE LastPage
    <2>1. /\ scan = "open" /\ Serve(Found) /\ scan' = "ended" /\ pages' = pages + 1
          /\ Cardinality(Found) <= Limit
        BY <1>3 DEF LastPage, Serve
    <2>2. /\ Cardinality(Found) \in Nat /\ Cardinality(Visited) \in Nat
          /\ Cardinality(Visited)' = Cardinality(Visited) + Cardinality(Found)
        BY <2>1, NewRows
    <2>3. Cardinality(Visited) = pages * Limit
        BY <2>1 DEF Progresses
    <2>4. (pages + 1) * Limit = pages * Limit + Limit
        BY <1>t
    <2> QED  BY <1>t, <2>1, <2>2, <2>3, <2>4 DEF Progresses
<1>4. CASE FullPage
    <2>1. PICK last \in Found :
              LET page == {x \in Found : x = last \/ Before(Key(x), Key(last))}
              IN  Cardinality(page) = Limit /\ Serve(page)
        BY <1>4 DEF FullPage
    <2> DEFINE page == {x \in Found : x = last \/ Before(Key(x), Key(last))}
    <2>2. scan = "open" /\ scan' = "open" /\ Serve(page) /\ pages' = pages + 1
        BY <1>4, <2>1 DEF FullPage, Serve
    <2>3. /\ Cardinality(Visited) \in Nat
          /\ Cardinality(Visited)' = Cardinality(Visited) + Limit
        BY <2>1, <2>2, NewRows
    <2>4. Cardinality(Visited) = pages * Limit
        BY <2>2 DEF Progresses
    <2>5. (pages + 1) * Limit = pages * Limit + Limit
        BY <1>t
    <2> QED  BY <1>t, <2>2, <2>3, <2>4, <2>5 DEF Progresses
<1> QED
    BY <1>1, <1>2, <1>3, <1>4 DEF Next, Write, Insert, Alter, Remove, QueryPage, QueryTotal, vars

(* Every step keeps the page and its total together, until a row is        *)
(* written between them.                                                   *)
LEMMA TotalStep == ASSUME IInv, [Next]_vars PROVE PageInv' /\ TotalFits'
<1> USE DEF IInv, PageInv, TotalFits
<1>1. CASE Write
    BY <1>1 DEF Write, Insert, Alter, Remove, Stir
<1>2. CASE OpenScan \/ LastPage \/ FullPage
    <2>1. UNCHANGED <<rows, list, calm>>
        BY <1>2 DEF OpenScan, LastPage, FullPage
    <2> QED  BY <2>1 DEF Matching, OnPage
<1>3. ASSUME NEW p \in 0 .. MaxPage, QueryPage(p) PROVE PageInv' /\ TotalFits'
    BY <1>3 DEF QueryPage, Matching, OnPage
<1>4. CASE QueryTotal
    BY <1>4 DEF QueryTotal, OnPage
<1>5. CASE UNCHANGED vars
    BY <1>5 DEF vars, Matching, OnPage
<1> QED  BY <1>1, <1>2, <1>3, <1>4, <1>5 DEF Next

-----------------------------------------------------------------------------
(* The invariant holds in every reachable state. *)
THEOREM Invariance == Spec => []IInv
<1>1. IInv /\ [Next]_vars => IInv'
    BY TypeStep, ScanStep, ProgressStep, TotalStep DEF IInv
<1> QED  BY InitInv, <1>1, PTL DEF Spec

(* The variables of the listings keep their types. *)
THEOREM TypeCorrect == Spec => []TypeOK
BY Invariance, PTL DEF IInv

(* Across its pages a scan runs newest first, so no row comes twice,       *)
(* whatever is inserted, changed and deleted between them.                 *)
THEOREM ScanNewestFirst == Spec => []NewestFirst
BY Invariance, PTL DEF IInv

(* A scan that ended visited every row that matched all through it. *)
THEOREM ScanWithoutGap == Spec => []NoGap
BY Invariance, PTL DEF IInv

(* Each page with a token brings Limit rows that no page before it had. *)
THEOREM ScanProgresses == Spec => []Progresses
BY Invariance, PTL DEF IInv

(* So a scan takes no more pages with a token than Limit goes into the     *)
(* number of rows there ever were, whatever is written while it runs.      *)
THEOREM ScanIsBounded == Spec => [](scan = "open" => pages * Limit <= Cardinality(Ids))
<1>1. IInv /\ scan = "open" => pages * Limit <= Cardinality(Ids)
    <2> SUFFICES ASSUME IInv, scan = "open" PROVE pages * Limit <= Cardinality(Ids)
        OBVIOUS
    <2>1. Cardinality(Visited) <= Cardinality(Ids)
        BY ListingAssumption, FS_Subset DEF Visited
    <2> QED  BY <2>1 DEF IInv, Progresses
<1> QED  BY Invariance, <1>1, PTL

(* The total of an offset listing fits its page, unless a row was written  *)
(* between the two statements.                                             *)
THEOREM TotalFitsPage == Spec => []TotalFits
BY Invariance, PTL DEF IInv
=============================================================================
