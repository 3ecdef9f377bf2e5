------------------------------ MODULE Listing -------------------------------
(***************************************************************************)
(* The listings of widgets, products and users under concurrent writes.    *)
(* The three stores page the same way: QueryByCursor, a keyset scan in the *)
(* order (created_at DESC, id DESC), which a client follows from token to  *)
(* token; and Query with Count, an offset page and its total in two        *)
(* statements.                                                             *)
(*                                                                         *)
(* created_at is the clock of the replica when the request arrives, and    *)
(* the row is committed later: a row may appear with any time.  An update  *)
(* leaves created_at alone and may move the row in or out of the filter.   *)
(* Postgres keeps microseconds and the token carries nanoseconds, so a key *)
(* read from a row survives its token.  The client scans, or asks for one  *)
(* offset page.                                                            *)
(***************************************************************************)
EXTENDS Integers, FiniteSets

CONSTANTS
    Ids,        \* identifiers of rows, in the order of their column
    Times,      \* values of created_at
    NoKey,      \* the token of the first page
    Limit,      \* rows of a keyset page
    Rows,       \* rows of an offset page
    MaxPage     \* bound: the last offset page asked for

ASSUME ListingAssumption ==
    /\ Ids \subseteq Int /\ Times \subseteq Int
    /\ IsFiniteSet(Ids)
    /\ Limit \in Nat \ {0} /\ Rows \in Nat \ {0} /\ MaxPage \in Nat
    /\ NoKey \notin [at: Times, id: Ids]

VARIABLES
    stamp,      \* created_at of every row there ever was
    table,      \* rows in the table
    match,      \* rows that match the filter of the client
    scan,       \* the client's scan: closed, open or ended
    after,      \* the key in the token of the next page
    pages,      \* pages the client got
    served,     \* per row, the pages it was on
    steady,     \* history: rows that matched all through the scan
    listed,     \* an offset listing: none, paged or answered
    offset,     \* its offset
    items,      \* rows on its page
    total,      \* its total
    calm        \* history: no row was written between the page and the total

rows == <<stamp, table, match>>
keyset == <<scan, after, pages, served>>
list == <<listed, offset, items, total>>
vars == <<rows, keyset, steady, list, calm>>

Born == DOMAIN stamp

Key(x) == [at |-> stamp[x], id |-> x]

(* k comes before l in (created_at DESC, id DESC). *)
Before(k, l) == k.at > l.at \/ (k.at = l.at /\ k.id > l.id)

Keys == [at: Times, id: Ids]

-----------------------------------------------------------------------------
(* Writers. *)

Stir == calm' = (calm /\ listed # "paged")

Insert(x, t, matches) ==
    /\ x \notin Born
    /\ stamp' = [y \in Born \cup {x} |-> IF y = x THEN t ELSE stamp[y]]
    /\ table' = table \cup {x}
    /\ match' = IF matches THEN match \cup {x} ELSE match
    /\ Stir
    /\ UNCHANGED <<keyset, steady, list>>

(* A change of a field the filter looks at. *)
Alter(x) ==
    /\ x \in table
    /\ match' = IF x \in match THEN match \ {x} ELSE match \cup {x}
    /\ steady' = steady \ {x}
    /\ Stir
    /\ UNCHANGED <<stamp, table, keyset, list>>

Remove(x) ==
    /\ x \in table
    /\ table' = table \ {x}
    /\ steady' = steady \ {x}
    /\ Stir
    /\ UNCHANGED <<stamp, match, keyset, list>>

-----------------------------------------------------------------------------
(* The keyset scan. *)

(* Mutants: the boundary without its strictness, without its tiebreaker.   *)
AtOrPast(x) == after = NoKey \/ after = Key(x) \/ Before(after, Key(x))

PastTime(x) == after = NoKey \/ after.at > stamp[x]

(* (created_at, id) < (:after_ts, :after_id) *)
Past(x) == after = NoKey \/ Before(after, Key(x))

Found == {x \in table \cap match : Past(x)}

OpenScan ==
    /\ scan = "closed" /\ listed = "none"
    /\ scan' = "open"
    /\ steady' = table \cap match
    /\ UNCHANGED <<rows, after, pages, served, list, calm>>

Serve(page) ==
    /\ pages' = pages + 1
    /\ served' = [x \in Ids |-> IF x \in page THEN served[x] \cup {pages + 1} ELSE served[x]]

(* Up to Limit rows are left: no row beyond them, so no token. *)
LastPage ==
    /\ scan = "open"
    /\ Cardinality(Found) <= Limit
    /\ Serve(Found)
    /\ scan' = "ended"
    /\ UNCHANGED <<rows, after, steady, list, calm>>

(* Mutant: the time is lost on its way into the token. *)
FullPageZeroTime ==
    /\ scan = "open"
    /\ Cardinality(Found) > Limit
    /\ \E last \in Found :
          LET page == {x \in Found : x = last \/ Before(Key(x), Key(last))} IN
          /\ Cardinality(page) = Limit
          /\ Serve(page)
          /\ after' = [Key(last) EXCEPT !.at = 0]
    /\ UNCHANGED <<rows, scan, steady, list, calm>>

(* Mutant: the extra row that tells of a further page is not trimmed. *)
FullPageUntrimmed ==
    /\ scan = "open"
    /\ Cardinality(Found) > Limit
    /\ \E last \in Found :
          LET page == {x \in Found : x = last \/ Before(Key(x), Key(last))} IN
          /\ Cardinality(page) = Limit + 1
          /\ Serve(page)
          /\ after' = Key(last)
    /\ UNCHANGED <<rows, scan, steady, list, calm>>

(* The first Limit rows; the last of them is the boundary of the next page. *)
FullPage ==
    /\ scan = "open"
    /\ Cardinality(Found) > Limit
    /\ \E last \in Found :
          LET page == {x \in Found : x = last \/ Before(Key(x), Key(last))} IN
          /\ Cardinality(page) = Limit
          /\ Serve(page)
          /\ after' = Key(last)
    /\ UNCHANGED <<rows, scan, steady, list, calm>>

-----------------------------------------------------------------------------
(* The offset page and its total. *)

(* Rows on the page at an offset of a set of n rows. *)
OnPage(n, o) == IF n <= o THEN 0 ELSE IF n - o < Rows THEN n - o ELSE Rows

Matching == Cardinality(table \cap match)

QueryPage(p) ==
    /\ listed = "none" /\ scan = "closed"
    /\ listed' = "paged"
    /\ offset' = p * Rows
    /\ items' = OnPage(Matching, p * Rows)
    /\ calm' = TRUE
    /\ UNCHANGED <<total, rows, keyset, steady>>

(* Mutant: the total of the table, without the filter. *)
QueryTotalOfAll ==
    /\ listed = "paged"
    /\ listed' = "answered"
    /\ total' = Cardinality(table)
    /\ UNCHANGED <<offset, items, rows, keyset, steady, calm>>

QueryTotal ==
    /\ listed = "paged"
    /\ listed' = "answered"
    /\ total' = Matching
    /\ UNCHANGED <<offset, items, rows, keyset, steady, calm>>

-----------------------------------------------------------------------------
Init ==
    /\ stamp = [x \in {} |-> 0]
    /\ table = {} /\ match = {} /\ steady = {}
    /\ scan = "closed" /\ after = NoKey /\ pages = 0
    /\ served = [x \in Ids |-> {}]
    /\ listed = "none" /\ offset = 0 /\ items = 0 /\ total = 0
    /\ calm = TRUE

Write ==
    \E x \in Ids :
        \/ \E t \in Times, matches \in BOOLEAN : Insert(x, t, matches)
        \/ Alter(x)
        \/ Remove(x)

Next ==
    \/ Write
    \/ OpenScan \/ LastPage \/ FullPage
    \/ \E p \in 0 .. MaxPage : QueryPage(p)
    \/ QueryTotal

Spec == Init /\ [][Next]_vars

-----------------------------------------------------------------------------
(* The variables have their types. *)
TypeOK ==
    /\ Born \subseteq Ids /\ stamp \in [Born -> Times]
    /\ table \subseteq Born /\ match \subseteq Born
    /\ scan \in {"closed", "open", "ended"}
    /\ after \in Keys \cup {NoKey}
    /\ pages \in Nat
    /\ served \in [Ids -> SUBSET (1 .. pages)]
    /\ steady \subseteq table \cap match
    /\ listed \in {"none", "paged", "answered"}
    /\ offset \in Nat /\ items \in Nat /\ total \in Nat
    /\ calm \in BOOLEAN

(* The pages follow one another newest first, over rows that appear, leave *)
(* and change in between; so "paging never repeats a row" (widgetdb.go,    *)
(* QueryByCursor).                                                         *)
NewestFirst ==
    \A x, y \in Ids : \A p \in served[x], q \in served[y] :
        p < q => Before(Key(x), Key(y))

(* "Stable under concurrent inserts" (Core.QueryByCursor): a scan that     *)
(* ended visited every row that matched all through it.                    *)
NoGap == scan = "ended" => \A x \in steady : served[x] # {}

(* A token is "empty when there are no more rows" (Core.QueryByCursor):    *)
(* each page with a token brought Limit rows that no page before it had,   *)
(* so a scan takes one page per Limit rows and a last one, however many    *)
(* rows are written ahead of it or behind it.                              *)
Visited == {x \in Ids : served[x] # {}}

Progresses ==
    /\ scan = "open" => Cardinality(Visited) = pages * Limit
    /\ scan = "ended" => /\ Cardinality(Visited) <= pages * Limit
                         /\ Cardinality(Visited) + Limit >= pages * Limit

(* "Count uses the same filter so the total matches the filtered set"      *)
(* (api/product/product.go): the total of an answer fits its page, unless  *)
(* a row was written between their two statements.                         *)
TotalFits == listed = "answered" /\ calm => items = OnPage(total, offset)

-----------------------------------------------------------------------------
(* The inductive invariant of a scan: what was served lies up to the       *)
(* boundary, what was not and stayed lies past it.                         *)

ScanInv ==
    /\ scan = "closed" => after = NoKey /\ pages = 0
    /\ \A x \in Ids : served[x] # {} => x \in Born
    /\ after = NoKey /\ scan = "open" => pages = 0
    /\ after # NoKey =>
          \A x \in Ids : served[x] # {} /\ scan = "open" => ~Past(x)
    /\ scan = "open" => \A x \in steady : served[x] = {} => Past(x)

(* Until a row is written the page is one of the rows that match. *)
PageInv == listed = "paged" /\ calm => items = OnPage(Matching, offset)

IInv == TypeOK /\ ScanInv /\ PageInv /\ NewestFirst /\ NoGap /\ Progresses /\ TotalFits
=============================================================================
