------------------------------- MODULE Tables -------------------------------
(***************************************************************************)
(* What the CRUD services share: a handler reads its row and the parents   *)
(* the client names, each in a statement of its own, and then runs one     *)
(* INSERT, UPDATE or DELETE, which the unique indexes and foreign keys of  *)
(* src/prisma/schema.prisma judge by the rows of that moment.  The errors  *)
(* a handler catches become a 409; AllExceptionsFilter turns every other   *)
(* one into a 500.                                                         *)
(*                                                                         *)
(* Of a row only its id, its unique columns and its references are kept;   *)
(* a 200, a 404 and a 409 all just end the request.                        *)
(***************************************************************************)
EXTENDS Naturals, FiniteSets

CONSTANTS
  Requests,  \* concurrent requests
  Codes,     \* names, codes and serial numbers a client may choose
  MaxRows    \* bound: rows ever inserted

VARIABLES
  rows,   \* all rows of all tables
  used,   \* ids given so far; ids are never given twice
  pc,     \* what each request does next
  req     \* the statement it is about to run

vars == <<rows, used, pc, req>>

\* An id names its table; unique is a set of <<column, value>> pairs, refs the
\* ids its foreign keys hold.
Table(id) == id[1]
Row(id, unique, refs) == [id |-> id, unique |-> unique, refs |-> refs]
Present == {x.id : x \in rows}

NoId == <<"none", 0>>
Statement(op, id, unique, refs, mapped) ==
  [op |-> op, id |-> id, unique |-> unique, refs |-> refs, mapped |-> mapped]
NoStatement == Statement("none", NoId, {}, {}, {})

AllTables == {"Store", "Asset", "Equipment", "Customer", "Service", "Reservation", "Booking",
              "Device", "Category", "Product", "Variant", "Price", "Inventory", "OrderItem",
              "User", "Tenant", "Membership"}
\* Tables with a reference that is neither optional nor ever set to NULL.
Dependent == {"Equipment", "Variant", "Price", "Inventory", "OrderItem",
              "Reservation", "Booking", "Device", "Membership"}

TablesOK ==
  /\ used \in SUBSET (AllTables \X Nat)
  /\ Present \subseteq used
  /\ \A x, y \in rows : x.id = y.id => x = y
  \* Referential integrity.
  /\ \A x \in rows : x.refs \subseteq Present
  /\ \A x \in rows : Table(x.id) \in Dependent => x.refs # {}
  /\ pc \in [Requests -> {"idle", "resolve", "write", "price", "create", "replace", "failed"}]
  /\ \A c \in Requests : req[c].mapped \subseteq {"P2002", "P2003"}

TablesInit ==
  /\ rows = {} /\ used = {}
  /\ pc = [c \in Requests |-> "idle"]
  /\ req = [c \in Requests |-> NoStatement]

-----------------------------------------------------------------------------
(* Unique indexes and foreign keys *)

\* Foreign keys ON DELETE CASCADE and SET NULL, as <<child, parent>>; all the
\* others are RESTRICT.
Cascades == {<<"Equipment", "Asset">>, <<"Variant", "Product">>,
             <<"Price", "Variant">>, <<"Inventory", "Variant">>}
SetsNull == {<<"Asset", "Store">>}

Key(x, id) == <<Table(x.id), Table(id)>>
Holders(ids, keys) == {x \in rows : \E id \in x.refs \cap ids : Key(x, id) \in keys}
\* Cascades are at most two deep: Product, Variant, Price.
WithChildren(ids) == ids \cup {x.id : x \in Holders(ids, Cascades)}
\* Fault: the children's children stay.
ChildrenOnly(id) == WithChildren({id})
Doomed(id) == WithChildren(WithChildren({id}))
\* A RESTRICT key anywhere below refuses the whole DELETE.
\* Fault: only the row's own children are looked at.
RefusedAtTop(id) == \E x \in rows : id \in x.refs /\ Key(x, id) \notin Cascades \cup SetsNull
Refused(id) ==
  \E x \in rows : \E p \in x.refs \cap Doomed(id) : Key(x, p) \notin Cascades \cup SetsNull

Clashes(id, unique) ==
  \E x \in rows : x.id # id /\ Table(x.id) = Table(id) /\ x.unique \cap unique # {}

\* The error a statement ends with.
Error(s) ==
  IF s.op # "insert" /\ s.id \notin Present THEN "P2025"
  ELSE IF s.op = "delete" THEN IF Refused(s.id) THEN "P2003" ELSE "none"
  ELSE IF Clashes(s.id, s.unique) THEN "P2002"
  ELSE IF s.refs \subseteq Present THEN "none" ELSE "P2003"

\* An UPDATE keeps the columns the client left out.
Patched(x, s) ==
  LET columns == {u[1] : u \in s.unique} IN
  Row(x.id, s.unique \cup {u \in x.unique : u[1] \notin columns},
      IF s.refs = {} THEN x.refs ELSE s.refs)
Unlinked(x, gone) == Row(x.id, x.unique, x.refs \ gone)

Effect(s) ==
  CASE s.op = "insert" -> rows \cup {Row(s.id, s.unique, s.refs)}
    [] s.op = "update" -> {IF x.id = s.id THEN Patched(x, s) ELSE x : x \in rows}
    [] OTHER -> {Unlinked(x, Doomed(s.id)) : x \in {y \in rows : y.id \notin Doomed(s.id)}}

-----------------------------------------------------------------------------
(* Requests *)

NextId(t) == <<t, Cardinality({id \in used : Table(id) = t}) + 1>>
Ids(t) == {id \in used : Table(id) = t}
Codings(column) == {{<<column, k>>} : k \in Codes}
\* An optional reference or unique column of the client's.
Optional(choices) == {{}} \cup choices
Refs(t) == {{id} : id \in Ids(t)}

Stand(c, where, s) ==
  /\ pc' = [pc EXCEPT ![c] = where]
  /\ req' = [req EXCEPT ![c] = s]
Answer(c) == Stand(c, "idle", NoStatement)

Free(c) == pc[c] \in {"idle", "failed"}

\* A handler that first finds its own row (404), if it has one, and resolves the
\* parents the client names.
Begin(c, s) ==
  /\ IF s.op # "insert" /\ s.id \notin Present
     THEN Answer(c)
     ELSE Stand(c, IF s.refs = {} THEN "write" ELSE "resolve", s)
  /\ UNCHANGED <<rows, used>>

Create(c, t, unique, refs, mapped) ==
  Begin(c, Statement("insert", <<t, 0>>, unique, refs, mapped))
Update(c, id, unique, refs, mapped) == Begin(c, Statement("update", id, unique, refs, mapped))
Delete(c, id, mapped) == Begin(c, Statement("delete", id, {}, {}, mapped))

Resolve(c) ==
  /\ pc[c] = "resolve"
  /\ IF req[c].refs \subseteq Present THEN Stand(c, "write", req[c]) ELSE Answer(c)
  /\ UNCHANGED <<rows, used>>

\* Whoever catches nothing fails with a 500.
Fail(c) == Stand(c, "failed", NoStatement)
Finish(c, s, error) == IF error \in {"none"} \cup s.mapped THEN Answer(c) ELSE Fail(c)

Write(c) ==
  LET s == IF req[c].op = "insert" THEN [req[c] EXCEPT !.id = NextId(Table(@))] ELSE req[c] IN
  /\ pc[c] = "write"
  /\ s.op = "insert" => Cardinality(used) < MaxRows
  /\ rows' = IF Error(s) = "none" THEN Effect(s) ELSE rows
  /\ used' = IF s.op = "insert" /\ Error(s) = "none" THEN used \cup {s.id} ELSE used
  /\ Finish(c, s, Error(s))

-----------------------------------------------------------------------------
(* Properties *)

\* Business history survives: no statement, whatever it cascades to and
\* whatever it sets to NULL, removes a reservation, a booking, a sold item or a
\* device, or parts it from a row it refers to (asset.service.ts:211-214).
HistoryKept ==
  \A x \in rows : Table(x.id) \in {"Reservation", "Booking", "OrderItem", "Device"} =>
    \E y \in rows' : y.id = x.id /\ y.refs = x.refs

\* A client whose INSERT or UPDATE ends in a 500 has been overtaken: another
\* request has deleted a row the handler had read.
OpaqueErrorsAreRaces ==
  \A c \in Requests : pc[c] # "failed" /\ pc'[c] = "failed" /\ req[c].op # "delete" =>
     \E id \in {req[c].id} \cup req[c].refs : id \in used \ Present

\* A DELETE that a foreign key blocks is answered with a conflict
\* (migrations/20260821120000_add_pos_foundation/migration.sql:11-12,
\* category.service.ts:178-181).
BlockedDeleteIsConflict ==
  [][\A c \in Requests : pc[c] = "write" /\ req[c].op = "delete" /\ Refused(req[c].id) =>
       pc'[c] # "failed"]_vars
=============================================================================
