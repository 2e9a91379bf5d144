------------------------------ MODULE Listing -------------------------------
(***************************************************************************)
(* Keyset pagination (src/src/common/pagination): one client walks through *)
(* one list, page by page, while rows are inserted, deleted and changed.   *)
(* A page is one SELECT ordered by (sort column, id), and its cursor is    *)
(* the position of its last row with the query it belongs to.              *)
(*                                                                         *)
(* A row has one filter column, its tag, for whichever a list has, and one *)
(* key, the value of the column the walk sorts by; the filter's            *)
(* fingerprint, a hash, is the filter itself.  Once begun, a walk no       *)
(* longer tells which list it walks through.  A behaviour is one walk:     *)
(* what was written before it is in Init.                                  *)
(***************************************************************************)
EXTENDS Naturals, FiniteSets

CONSTANTS
  MaxRows,   \* bound: rows ever inserted; ids are ordered numbers
  Times,     \* bound: the instants of a sort column
  Tags,      \* values of a filter column
  MaxLimit,  \* bound: largest page
  None       \* no filter, no cursor, no row

VARIABLES
  row,      \* the rows of the list's table
  walk,     \* what the client has last asked for, and with which cursor to go on
  listed,   \* how often each row was on a page of the walk
  touched,  \* rows inserted, deleted or changed since the walk began
  moved     \* rows whose sort key has changed since then

vars == <<row, walk, listed, touched, moved>>

Ids == 1..MaxRows
Columns == {"createdAt", "startAt"}
Directions == {"asc", "desc"}
Query == [by : Columns, direction : Directions, filter : Tags \cup {None}]
Cursor == [query : Query, key : Times, id : Ids]

NoRow == [tag |-> None, key |-> 0]
Row == [tag : Tags, key : Times]
NoWalk == [stage |-> "none", query |-> None, cursor |-> None]

TypeOK ==
  /\ row \in [Ids -> Row \cup {NoRow}]
  /\ walk.stage \in {"none", "more", "done"}
  /\ walk.stage # "none" => walk.query \in Query
  /\ walk.stage = "more" => walk.cursor \in Cursor
  /\ listed \in [Ids -> 0..2]
  /\ moved \subseteq touched /\ touched \subseteq Ids

Init ==
  /\ row \in [Ids -> Row \cup {NoRow}]
  /\ walk = NoWalk
  /\ listed = [i \in Ids |-> 0]
  /\ touched = {} /\ moved = {}

-----------------------------------------------------------------------------
(* Pages *)

Matches(q, i) == row[i] # NoRow /\ q.filter \in {row[i].tag, None}

Later(q, x, y) == IF q.direction = "asc" THEN x > y ELSE x < y
\* buildOrderBy: the id breaks ties, in the same direction.
Follows(q, i, j) ==
  Later(q, row[i].key, row[j].key) \/ (row[i].key = row[j].key /\ Later(q, i, j))

\* buildKeysetWhere asks for the rows past the cursor in that order.
\* Fault: the row of the cursor is among them.
AtCursor(q, i, cursor) ==
  \/ Later(q, row[i].key, cursor.key)
  \/ row[i].key = cursor.key /\ (i = cursor.id \/ Later(q, i, cursor.id))
After(q, i, cursor) ==
  \/ Later(q, row[i].key, cursor.key)
  \/ row[i].key = cursor.key /\ Later(q, i, cursor.id)

\* Fault: a cursor is good for any filter.
AnyFilter(cursor, q) == cursor.query.by = q.by /\ cursor.query.direction = q.direction
\* decodeCursor: the cursor was issued for this sort, direction and filter.
Decodes(cursor, q) == cursor.query = q

\* The rows a request may return.
Found(q, cursor) ==
  {i \in Ids : Matches(q, i) /\ (cursor # None => After(q, i, cursor))}

FirstOf(q, found, limit) ==
  {i \in found : Cardinality({j \in found : Follows(q, i, j)}) < limit}
LastOf(q, page) == CHOOSE i \in page : \A j \in page \ {i} : Follows(q, i, j)

\* fetchPage asks for one row more than the limit, and the cursor is that of the
\* last row it keeps.
FetchPage(q, cursor, limit, before) ==
  LET found == Found(q, cursor)
      page == FirstOf(q, found, limit)
      last == LastOf(q, page)
  IN /\ walk' = IF Cardinality(found) > limit
                THEN [stage |-> "more", query |-> q,
                      cursor |-> [query |-> q, key |-> row[last].key, id |-> last]]
                ELSE [stage |-> "done", query |-> q, cursor |-> None]
     /\ listed' = [i \in Ids |-> IF i \in page /\ before[i] < 2 THEN before[i] + 1 ELSE before[i]]

-----------------------------------------------------------------------------
(* The lists: a first page *)

List(columns, filters) ==
  /\ walk = NoWalk
  /\ \E by \in columns, direction \in Directions, filter \in filters, limit \in 1..MaxLimit :
       FetchPage([by |-> by, direction |-> direction, filter |-> filter], None, limit,
                 [i \in Ids |-> 0])
  /\ UNCHANGED <<row, touched, moved>>

Optional == Tags \cup {None}
ListStores == List({"createdAt"}, Optional)
ListAssets == List({"createdAt"}, Optional)
ListEquipment == List({"createdAt"}, Optional)
ListCustomers == List({"createdAt"}, Optional)
ListCategories == List({"createdAt"}, {None})
ListProducts == List({"createdAt"}, Optional)
\* The variants of one product.
ListVariants == List({"createdAt"}, Tags)
ListServices == List({"createdAt"}, Optional)
ListDevices == List({"createdAt"}, Optional)
ListOrders == List({"createdAt"}, Optional)
ListBookings == List({"startAt"}, Optional)
ListReservations == List({"createdAt", "startAt"}, Optional)

\* The client goes on with the cursor it got, but may ask for another query;
\* a cursor that does not decode is a 400, and the client still has it.
Continue ==
  /\ walk.stage = "more"
  /\ \E q \in Query, limit \in 1..MaxLimit :
       Decodes(walk.cursor, q) /\ FetchPage(q, walk.cursor, limit, listed)
  /\ UNCHANGED <<row, touched, moved>>

-----------------------------------------------------------------------------
(* Other requests write rows while the walk goes on.  createdAt is when the   *)
(* inserting transaction began: rows do not appear in its order.  It never    *)
(* changes; a PATCH may change startAt.                                       *)

Write(i, x) ==
  /\ walk.stage = "more"
  /\ row' = [row EXCEPT ![i] = x]
  /\ touched' = touched \cup {i}
  /\ UNCHANGED <<walk, listed>>

Insert ==
  \E i \in Ids \ touched, x \in Row : row[i] = NoRow /\ Write(i, x) /\ UNCHANGED moved
Change ==
  \E i \in Ids, x \in Row :
    /\ walk.stage = "more" /\ row[i] \notin {NoRow, x}
    /\ walk.query.by = "createdAt" => x.key = row[i].key
    /\ Write(i, x)
    /\ moved' = IF x.key # row[i].key THEN moved \cup {i} ELSE moved
Delete ==
  \E i \in Ids : row[i] # NoRow /\ Write(i, NoRow) /\ UNCHANGED moved

Next ==
  \/ ListStores \/ ListAssets \/ ListEquipment \/ ListCustomers \/ ListCategories
  \/ ListProducts \/ ListVariants \/ ListServices \/ ListDevices \/ ListOrders
  \/ ListBookings \/ ListReservations \/ Continue
  \/ Insert \/ Change \/ Delete

Spec == Init /\ [][Next]_vars

-----------------------------------------------------------------------------
(* Properties *)

\* A walk that has come to its end has listed every row that matches its query
\* and that nobody has touched since its first page, whatever other rows came,
\* went and moved in between.
EveryRowListed ==
  walk.stage = "done" =>
    \A i \in Ids \ touched : Matches(walk.query, i) => listed[i] > 0

\* Only a row whose sort key has been changed meanwhile is listed twice.
NoRowTwice == \A i \in Ids \ moved : listed[i] < 2
=============================================================================
