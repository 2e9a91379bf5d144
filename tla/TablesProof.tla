---------------------------- MODULE TablesProof -----------------------------
(***************************************************************************)
(* Proofs about Registry, Catalog and Accounts, for any number of requests *)
(* and rows and any codes.  They share the rows and the statements of      *)
(* Tables, and so one inductive invariant.                                 *)
(***************************************************************************)
EXTENDS Registry, Catalog, Accounts, FiniteSetTheorems, TLAPS

\* The tables whose rows a service deletes, and those HistoryKept is about.
Deletable == {"Store", "Asset", "Equipment", "Customer", "Category", "Product", "Variant"}
Historic == {"Reservation", "Booking", "OrderItem", "Device"}

\* No id's number is above the count of its table's ids.
Of(ids, t) == {id \in ids : Table(id) = t}
NextOf(ids, t) == <<t, Cardinality(Of(ids, t)) + 1>>
Numbered(ids) ==
  /\ ids \in SUBSET (AllTables \X Nat)
  /\ IsFiniteSet(ids)
  /\ \A id \in ids : id[2] <= Cardinality(Of(ids, Table(id)))

\* Rows that the ids of "ids" have been given to: referential integrity, and a
\* price is its variant's, and no tenant goes.
IdsOf(table) == {x.id : x \in table}
Sane(table, ids) ==
  /\ Numbered(ids)
  /\ IdsOf(table) \subseteq ids
  /\ \A x, y \in table : x.id = y.id => x = y
  /\ \A x \in table : x.refs \subseteq IdsOf(table)
  /\ \A x \in table : Table(x.id) \in Dependent => x.refs # {}
  /\ \A x \in table : Table(x.id) = "Price" =>
       \E v \in ids : x.unique = Pair(v) /\ x.refs = {v}
  /\ \A id \in ids : Table(id) = "Tenant" => id \in IdsOf(table)

\* What the handlers ask of a table.
Shaped(s) ==
  /\ s = Statement(s.op, s.id, s.unique, s.refs, s.mapped)
  /\ s.op \in {"insert", "update", "delete"}
  /\ Table(s.id) \in AllTables /\ Table(s.id) # "Price"
  /\ s.refs \subseteq used /\ s.mapped \subseteq {"P2002", "P2003"}
  /\ s.op = "insert" /\ Table(s.id) \in Dependent => s.refs # {}
  /\ s.op # "insert" => s.id \in used
  /\ s.op = "update" /\ Table(s.id) \in Historic => s.refs = {}
  /\ s.op = "delete" => Table(s.id) \in Deletable
  /\ s.op # "delete" => s.unique = {} \/ "P2002" \in s.mapped
Priced(s) ==
  \E v \in used : s = Statement("insert", <<"Price", s.id[2]>>, Pair(v), {v}, {"P2002"})
Asked(s, label) ==
  /\ label \in {"resolve", "write"} => Shaped(s)
  /\ label \in {"price", "create", "replace"} => Priced(s)
  /\ label = "replace" => \A v \in s.refs \cap Present : PriceOf(v) # {}

Labels == {"idle", "resolve", "write", "price", "create", "replace", "failed"}
RequestsOK ==
  /\ pc \in [Requests -> Labels]
  /\ req = [c \in Requests |-> req[c]]
  /\ \A c \in Requests : req[c].mapped \subseteq {"P2002", "P2003"} /\ Asked(req[c], pc[c])

RowsOK == Sane(rows, used)
Inv == RowsOK /\ RequestsOK

\* A step of any of the three.
AnyNext == RegistryNext \/ CatalogNext \/ AccountsNext

-----------------------------------------------------------------------------
(* Ids *)

LEMMA NextIsFresh ==
  ASSUME NEW ids, Numbered(ids), NEW t \in AllTables
  PROVE  /\ NextOf(ids, t) \in AllTables \X Nat
         /\ NextOf(ids, t) \notin ids
         /\ Numbered(ids \cup {NextOf(ids, t)})
  <1> DEFINE n == Cardinality(Of(ids, t))
             next == <<t, n + 1>>
             more == ids \cup {next}
  <1>1. IsFiniteSet(Of(ids, t)) /\ n \in Nat
    <2>1. Of(ids, t) \subseteq ids /\ IsFiniteSet(ids)
      BY DEF Of, Numbered
    <2>2. IsFiniteSet(Of(ids, t))
      BY <2>1, FS_Subset
    <2> QED
      BY <2>2, FS_CardinalityType
  <1>2. ASSUME NEW id \in ids, Table(id) = t PROVE id[2] <= n
    <2>1. id[2] <= Cardinality(Of(ids, Table(id)))
      BY DEF Numbered
    <2> QED
      BY <1>2, <2>1, Zenon
  <1> HIDE DEF n
  <1>3. next \in AllTables \X Nat /\ Table(next) = t /\ next[2] = n + 1
    <2>1. n + 1 \in Nat
      BY <1>1
    <2>2. next[1] = t /\ next[2] = n + 1
      OBVIOUS
    <2>3. next \in AllTables \X Nat
      BY <2>1
    <2> QED
      BY <2>2, <2>3 DEF Table
  <1> HIDE DEF next
  <1>4. next \notin ids
    <2>1. ~(n + 1 <= n)
      BY <1>1
    <2> QED
      BY <1>2, <1>3, <2>1
  <1>5. Of(more, t) = Of(ids, t) \cup {next}
    BY <1>3 DEF Of
  <1>6. Cardinality(Of(more, t)) = n + 1
    <2>1. next \notin Of(ids, t)
      BY <1>4 DEF Of
    <2> QED
      BY <1>1, <1>5, <2>1, FS_AddElement DEF n
  <1>7. \A u : u # t => Of(more, u) = Of(ids, u)
    BY <1>3 DEF Of
  <1>8. IsFiniteSet(more)
    BY FS_AddElement DEF Numbered
  <1> HIDE DEF more
  <1>9. ASSUME NEW id \in more PROVE id[2] <= Cardinality(Of(more, Table(id)))
    <2>1. CASE id = next
      BY <1>1, <1>3, <1>6, <2>1
    <2>2. CASE id # next /\ Table(id) = t
      <3>1. id \in ids /\ id[2] \in Nat
        BY <2>2 DEF more, Numbered
      <3>2. id[2] <= n /\ Cardinality(Of(more, Table(id))) = n + 1
        BY <1>2, <1>6, <2>2, <3>1
      <3> QED
        BY <1>1, <3>1, <3>2
    <2>3. CASE id # next /\ Table(id) # t
      BY <1>7, <2>3 DEF Numbered, more
    <2> QED
      BY <2>1, <2>2, <2>3
  <1>10. more \in SUBSET (AllTables \X Nat)
    BY <1>3 DEF Numbered, more
  <1>11. Numbered(more)
    BY <1>8, <1>9, <1>10 DEF Numbered
  <1> QED
    BY <1>3, <1>4, <1>11 DEF NextOf, n, next, more

\* A row of the next id, referring to rows that are there.
LEMMA SaneGrows ==
  ASSUME NEW table, NEW ids, Sane(table, ids), NEW t \in AllTables, NEW unique,
         NEW refs \in SUBSET IdsOf(table), t \in Dependent => refs # {},
         t = "Price" => \E v \in ids : unique = Pair(v) /\ refs = {v}
  PROVE  LET x == Row(NextOf(ids, t), unique, refs) IN
         Sane(table \cup {x}, ids \cup {x.id}) /\ x.id \notin ids
  <1> DEFINE x == Row(NextOf(ids, t), unique, refs)
  <1>1. x.id = NextOf(ids, t) /\ x.unique = unique /\ x.refs = refs
    BY DEF Row
  <1>2. x.id \notin ids /\ Numbered(ids \cup {x.id}) /\ Table(x.id) = t
    BY <1>1, NextIsFresh DEF Sane, NextOf, Table
  <1> HIDE DEF x
  <1>3. IdsOf(table \cup {x}) = IdsOf(table) \cup {x.id}
    BY DEF IdsOf
  <1>4. \A y \in table : y.id \in IdsOf(table)
    BY DEF IdsOf
  <1> QED
    BY <1>1, <1>2, <1>3, <1>4 DEF Sane, x

-----------------------------------------------------------------------------
(* Statements *)

LEMMA Started == TablesInit => Inv
  <1> SUFFICES ASSUME TablesInit PROVE Inv
    OBVIOUS
  <1>1. Sane({}, {})
    BY FS_EmptySet DEF Sane, Numbered, IdsOf
  <1>2. RequestsOK
    BY DEF TablesInit, RequestsOK, Labels, NoStatement, Statement, Asked
  <1> QED
    BY <1>1, <1>2 DEF TablesInit, Inv, RowsOK

\* What a step leaves of what the statements of the requests rest on.
Steady ==
  /\ used \subseteq used' /\ Present' \cap used \subseteq Present
  /\ \A v \in used : v \in Present' /\ PriceOf(v) # {} => PriceOf(v)' # {}

\* A step of one request leaves the others' questions what they are.
LEMMA StandOK ==
  ASSUME RequestsOK, NEW c \in Requests, NEW label \in Labels, NEW s, Stand(c, label, s),
         s.mapped \subseteq {"P2002", "P2003"}, Asked(s, label)',
         Steady
  PROVE  /\ RequestsOK'
         /\ pc'[c] = label /\ \A d \in Requests \ {c} : pc'[d] = pc[d]
  <1>1. /\ pc' = [pc EXCEPT ![c] = label] /\ req' = [req EXCEPT ![c] = s]
        /\ pc \in [Requests -> Labels] /\ req = [d \in Requests |-> req[d]]
    BY DEF Stand, RequestsOK
  <1>2. /\ pc' \in [Requests -> Labels] /\ pc'[c] = label
        /\ \A d \in Requests \ {c} : pc'[d] = pc[d]
    BY <1>1
  <1>3. /\ req' = [d \in Requests |-> req'[d]] /\ req'[c] = s
        /\ \A d \in Requests \ {c} : req'[d] = req[d]
    BY <1>1
  <1>4. ASSUME NEW r, NEW l, Asked(r, l) PROVE Asked(r, l)'
    <2>1. Shaped(r) => Shaped(r)'
      BY DEF Shaped, Steady
    <2>2. Priced(r) => Priced(r)'
      BY DEF Priced, Steady
    <2>3. Priced(r) => r.refs \subseteq used
      BY DEF Priced, Statement
    <2>4. ASSUME l = "replace" PROVE (\A v \in r.refs \cap Present : PriceOf(v) # {})'
      BY <1>4, <2>3, <2>4 DEF Asked, Steady
    <2> QED
      BY <1>4, <2>1, <2>2, <2>4 DEF Asked
  <1>5. ASSUME NEW d \in Requests
        PROVE  (req[d].mapped \subseteq {"P2002", "P2003"} /\ Asked(req[d], pc[d]))'
    <2>1. CASE d = c
      BY <1>2, <1>3, <2>1
    <2>2. CASE d # c
      <3>1. Asked(req[d], pc[d]) /\ req[d].mapped \subseteq {"P2002", "P2003"}
        BY DEF RequestsOK
      <3> QED
        BY <1>2, <1>3, <1>4, <2>2, <3>1
    <2> QED
      BY <2>1, <2>2
  <1> QED
    BY <1>2, <1>3, <1>5 DEF RequestsOK

LEMMA AnswerAsked == \A label \in {"idle", "failed"} :
  Asked(NoStatement, label) /\ NoStatement.mapped \subseteq {"P2002", "P2003"}
  BY DEF Asked, NoStatement, Statement

\* A step that leaves the rows.
LEMMA QuietOK ==
  ASSUME Inv, NEW c \in Requests, NEW label \in Labels, NEW s, Stand(c, label, s),
         s.mapped \subseteq {"P2002", "P2003"}, Asked(s, label), UNCHANGED <<rows, used>>
  PROVE  Inv' /\ HistoryKept /\ pc'[c] = label /\ \A d \in Requests \ {c} : pc'[d] = pc[d]
  <1>1. RowsOK' /\ HistoryKept
    BY DEF Inv, RowsOK, HistoryKept
  <1>2. Present' = Present /\ Asked(s, label)'
    BY DEF Present, Asked, Shaped, Priced, PriceOf
  <1>3. \A v : PriceOf(v)' = PriceOf(v)
    BY DEF PriceOf
  <1> QED
    BY <1>1, <1>2, <1>3, StandOK DEF Inv, Steady

-----------------------------------------------------------------------------
(* The three statements that write *)

\* What an INSERT leaves, whichever handler runs it.
LEMMA InsertKeeps ==
  ASSUME RowsOK, NEW t \in AllTables, NEW unique, NEW refs \in SUBSET Present,
         t \in Dependent => refs # {},
         t = "Price" => \E v \in used : unique = Pair(v) /\ refs = {v},
         rows' = rows \cup {Row(NextId(t), unique, refs)}, used' = used \cup {NextId(t)}
  PROVE  RowsOK' /\ HistoryKept /\ Steady
  <1>1. /\ Present = IdsOf(rows) /\ Present' = IdsOf(rows)'
        /\ NextId(t) = NextOf(used, t)
    BY DEF Present, IdsOf, NextId, NextOf, Of
  <1>2. /\ Sane(rows \cup {Row(NextId(t), unique, refs)}, used \cup {NextId(t)})
        /\ NextId(t) \notin used /\ Row(NextId(t), unique, refs).id = NextId(t)
    <2>1. Row(NextId(t), unique, refs).id = NextId(t)
      BY DEF Row
    <2> QED
      BY <1>1, <2>1, SaneGrows DEF RowsOK
  <1>3. Present' = Present \cup {NextId(t)}
    BY <1>2 DEF Present
  <1>4. \A v : PriceOf(v) \subseteq PriceOf(v)'
    BY DEF PriceOf
  <1> QED
    BY <1>2, <1>3, <1>4 DEF RowsOK, HistoryKept, Steady

LEMMA UpdateKeeps ==
  ASSUME RowsOK, NEW s, Shaped(s), s.op = "update", Error(s) = "none",
         rows' = Effect(s), used' = used
  PROVE  RowsOK' /\ HistoryKept /\ Steady
  <1> DEFINE M(x) == IF x.id = s.id THEN Patched(x, s) ELSE x
  <1>1. rows' = {M(x) : x \in rows} /\ s.refs \subseteq Present
    <2>1. s.refs \subseteq Present
      BY DEF Error
    <2> QED
      BY <2>1 DEF Effect
  <1>2. /\ \A x : M(x).id = x.id
        /\ \A x : M(x).refs \in {x.refs, s.refs} /\ (x.refs # {} => M(x).refs # {})
        /\ \A x : Table(x.id) = "Price" => M(x) = x
        /\ \A x : Table(x.id) \in Historic => M(x).refs = x.refs
    BY DEF Patched, Row, Shaped
  <1> HIDE DEF M
  <1>3. IdsOf(rows)' = IdsOf(rows) /\ Present' = Present /\ Present = IdsOf(rows)
    BY <1>1, <1>2 DEF IdsOf, Present
  <1>4. Sane(rows, used)'
    <2>1. \A x, y \in rows' : x.id = y.id => x = y
      BY <1>1, <1>2 DEF RowsOK, Sane
    <2>2. ASSUME NEW x \in rows' PROVE x.refs \subseteq IdsOf(rows)'
      <3>1. PICK y \in rows : x = M(y)
        BY <1>1
      <3>2. x.refs = y.refs \/ x.refs = s.refs
        BY <1>2, <3>1
      <3>3. y.refs \subseteq IdsOf(rows) /\ s.refs \subseteq IdsOf(rows)
        BY <1>1, <1>3 DEF RowsOK, Sane
      <3> QED
        BY <1>3, <3>2, <3>3
    <2>3. \A x \in rows' : Table(x.id) \in Dependent => x.refs # {}
      BY <1>1, <1>2 DEF RowsOK, Sane
    <2>4. \A x \in rows' : Table(x.id) = "Price" =>
            \E v \in used' : x.unique = Pair(v) /\ x.refs = {v}
      BY <1>1, <1>2 DEF RowsOK, Sane
    <2> QED
      BY <1>3, <2>1, <2>2, <2>3, <2>4 DEF RowsOK, Sane
  <1>5. HistoryKept
    BY <1>1, <1>2 DEF HistoryKept, Historic
  <1>6. \A v : PriceOf(v) \subseteq PriceOf(v)'
    BY <1>1, <1>2 DEF PriceOf
  <1> QED
    BY <1>3, <1>4, <1>5, <1>6 DEF RowsOK, Steady

\* What a DELETE takes along, and what it unlinks.
LEMMA DoomedIs ==
  ASSUME RowsOK, NEW id, Table(id) \in Deletable
  PROVE  /\ id \in Doomed(id)
         /\ \A p \in Doomed(id) : Table(p) \notin Historic \cup {"Tenant"}
         /\ \A x \in rows : Table(x.id) = "Price" /\ x.id \in Doomed(id) =>
              x.refs \cap Doomed(id) # {}
         /\ \A x \in rows : \A p \in x.refs \cap Doomed(id) :
              x.id \in Doomed(id) \/ Key(x, p) \notin Cascades
  <1> DEFINE W == WithChildren({id})
  <1>1. id \in W /\ Doomed(id) = WithChildren(W) /\ W \subseteq Doomed(id)
    BY DEF Doomed, WithChildren
  <1>2. \A p \in W : p = id \/ \E x \in rows : p = x.id /\ id \in x.refs /\ Key(x, id) \in Cascades
    BY DEF WithChildren, Holders
  <1>3. \A p \in Doomed(id) :
          p \in W \/ \E x \in rows : \E q \in x.refs \cap W : p = x.id /\ Key(x, q) \in Cascades
    BY <1>1 DEF WithChildren, Holders
  <1>4. \A x \in rows : \A q \in x.refs \cap W : Key(x, q) \in Cascades => x.id \in Doomed(id)
    BY <1>1 DEF WithChildren, Holders
  <1> HIDE DEF W
  <1>5. \A p \in Doomed(id) : Table(p) \in Deletable
          \cup {"Equipment", "Variant", "Price", "Inventory"}
    BY <1>2, <1>3 DEF Key, Cascades
  <1>6. ASSUME NEW x \in rows, Table(x.id) = "Price", x.id \in Doomed(id)
        PROVE  x.refs \cap Doomed(id) # {}
    <2>1. x.id # id
      BY <1>6 DEF Deletable
    <2>2. PICK y \in rows, q \in Doomed(id) : x.id = y.id /\ q \in y.refs
      BY <1>1, <1>2, <1>3, <1>6, <2>1
    <2>3. x = y
      BY <2>2 DEF RowsOK, Sane
    <2> QED
      BY <2>2, <2>3
  <1>7. ASSUME NEW x \in rows, NEW p \in x.refs \cap Doomed(id), Key(x, p) \in Cascades,
               x.id \notin Doomed(id)
        PROVE  FALSE
    <2>1. p \notin W
      BY <1>4, <1>7
    <2>2. PICK y \in rows, q \in W : q \in y.refs /\ p = y.id /\ Key(y, q) \in Cascades
      BY <1>3, <1>7, <2>1
    <2>3. q # id
      BY <2>1, <2>2 DEF W, WithChildren, Holders
    <2>4. PICK z \in rows : q = z.id /\ Key(z, id) \in Cascades
      BY <1>2, <2>2, <2>3
    <2> QED
      BY <1>7, <2>2, <2>4 DEF Key, Cascades
  <1> QED
    BY <1>1, <1>5, <1>6, <1>7 DEF Deletable, Historic

LEMMA DeleteKeeps ==
  ASSUME RowsOK, NEW s, Shaped(s), s.op = "delete", Error(s) = "none",
         rows' = Effect(s), used' = used
  PROVE  RowsOK' /\ HistoryKept /\ Steady
  <1> DEFINE G == Doomed(s.id)
             M(x) == Unlinked(x, G)
  <1>1. rows' = {M(x) : x \in {y \in rows : y.id \notin G}} /\ ~Refused(s.id)
    <2>1. s.op = "delete" /\ s.op # "insert" /\ s.op # "update"
      OBVIOUS
    <2>2. s.id \in Present
      BY <2>1 DEF Error
    <2>3. ~Refused(s.id)
      BY <2>1, <2>2 DEF Error
    <2>4. Effect(s) = {M(x) : x \in {y \in rows : y.id \notin G}}
      BY <2>1 DEF Effect
    <2> QED
      BY <2>3, <2>4
  <1>2. \A x : M(x).id = x.id /\ M(x).refs = x.refs \ G /\ M(x).unique = x.unique
    BY DEF Unlinked, Row
  <1>3. /\ s.id \in G
        /\ \A p \in G : Table(p) \notin Historic \cup {"Tenant"}
        /\ \A x \in rows : Table(x.id) = "Price" /\ x.id \in G => x.refs \cap G # {}
        /\ \A x \in rows : \A p \in x.refs \cap G : x.id \in G \/ Key(x, p) \notin Cascades
    BY DoomedIs DEF Shaped
  <1> HIDE DEF M
  \* What is left keeps its references, but for an asset.
  <1>4. ASSUME NEW x \in rows, x.id \notin G, Table(x.id) # "Asset"
        PROVE  x.refs \cap G = {}
    <2>1. \A p \in x.refs \cap G : Key(x, p) \in SetsNull
      BY <1>1, <1>3, <1>4 DEF Refused
    <2> QED
      BY <1>4, <2>1 DEF Key, SetsNull
  <1> HIDE DEF G
  <1>5. IdsOf(rows)' = IdsOf(rows) \ G /\ Present' = Present \ G /\ Present = IdsOf(rows)
    BY <1>1, <1>2 DEF IdsOf, Present
  <1>6. Sane(rows, used)'
    <2>1. \A x, y \in rows' : x.id = y.id => x = y
      BY <1>1, <1>2 DEF RowsOK, Sane
    <2>2. \A x \in rows' : x.refs \subseteq IdsOf(rows)'
      BY <1>1, <1>2, <1>5 DEF RowsOK, Sane
    <2>3. \A x \in rows' : Table(x.id) \in Dependent => x.refs # {}
      BY <1>1, <1>2, <1>4 DEF RowsOK, Sane, Dependent
    <2>4. \A x \in rows' : Table(x.id) = "Price" =>
            \E v \in used' : x.unique = Pair(v) /\ x.refs = {v}
      BY <1>1, <1>2, <1>4 DEF RowsOK, Sane
    <2>5. IdsOf(rows)' \subseteq used' /\ \A id \in used' : Table(id) = "Tenant"
            => id \in IdsOf(rows)'
      BY <1>3, <1>5 DEF RowsOK, Sane
    <2> QED
      BY <2>1, <2>2, <2>3, <2>4, <2>5 DEF RowsOK, Sane
  <1>7. HistoryKept
    <2> SUFFICES ASSUME NEW x \in rows, Table(x.id) \in Historic
                 PROVE  \E y \in rows' : y.id = x.id /\ y.refs = x.refs
      BY DEF HistoryKept, Historic
    <2>1. x.id \in used /\ x.id \notin G
      BY <1>3 DEF RowsOK, Sane, IdsOf
    <2>2. M(x) \in rows' /\ M(x).id = x.id /\ M(x).refs = x.refs
      BY <1>1, <1>2, <1>4, <2>1 DEF Historic
    <2> QED
      BY <2>2
  <1>8. ASSUME NEW v \in used, v \in Present', PriceOf(v) # {} PROVE PriceOf(v)' # {}
    <2>1. PICK x \in rows : Table(x.id) = "Price" /\ x.unique = Pair(v)
      BY <1>8 DEF PriceOf
    <2>2. x.refs = {v}
      <3>1. PICK w \in used : x.unique = Pair(w) /\ x.refs = {w}
        BY <2>1 DEF RowsOK, Sane
      <3>2. <<"variantId", v>> \in Pair(w)
        BY <2>1, <3>1 DEF Pair
      <3> QED
        BY <3>1, <3>2 DEF Pair
    <2>3. x.id \notin G
      BY <1>3, <1>5, <1>8, <2>1, <2>2
    <2> QED
      BY <1>1, <1>2, <2>1, <2>3 DEF PriceOf
  <1> QED
    BY <1>5, <1>6, <1>7, <1>8 DEF RowsOK, Steady

-----------------------------------------------------------------------------
(* The steps *)

\* Why a statement fails that the handler does not expect to.
LEMMA FailureIs ==
  ASSUME NEW s, Shaped(s) \/ Priced(s), Error(s) \notin {"none"} \cup s.mapped
  PROVE  \/ s.op = "delete"
         \/ \E id \in {s.id} \cup s.refs : id \in used \ Present
  <1>1. CASE s.op # "insert" /\ s.id \notin Present
    BY <1>1 DEF Shaped, Priced, Statement
  <1>2. CASE s.op # "delete" /\ (s.op = "insert" \/ s.id \in Present)
    <2>1. s.unique = {} \/ "P2002" \in s.mapped
      BY <1>2 DEF Shaped, Priced, Statement
    <2>2. Clashes(s.id, s.unique) => Error(s) = "P2002"
      BY <1>2 DEF Error
    <2>3. ~Clashes(s.id, s.unique)
      BY <2>1, <2>2 DEF Clashes
    <2>4. ~(s.refs \subseteq Present)
      BY <1>2, <2>3 DEF Error
    <2>5. s.refs \subseteq used
      BY DEF Shaped, Priced, Statement
    <2> QED
      BY <2>4, <2>5
  <1> QED
    BY <1>1, <1>2

Lawful == HistoryKept /\ OpaqueErrorsAreRaces

\* A request that stands somewhere else than before, and has not failed.
LEMMA MovedOK ==
  ASSUME Inv, NEW c \in Requests, NEW label \in Labels \ {"failed"}, NEW s, Stand(c, label, s),
         s.mapped \subseteq {"P2002", "P2003"}, Asked(s, label), UNCHANGED <<rows, used>>
  PROVE  Inv' /\ Lawful
  <1>1. Inv' /\ HistoryKept /\ pc'[c] = label /\ \A d \in Requests \ {c} : pc'[d] = pc[d]
    BY QuietOK
  <1> QED
    BY <1>1 DEF Lawful, OpaqueErrorsAreRaces

LEMMA BeginOK ==
  ASSUME Inv, NEW c \in Requests, NEW s, Shaped(s), Begin(c, s)
  PROVE  Inv' /\ Lawful
  <1>1. CASE Answer(c)
    BY <1>1, AnswerAsked, MovedOK DEF Begin, Answer, Labels
  <1>2. ASSUME NEW label \in {"write", "resolve"}, Stand(c, label, s) PROVE Inv' /\ Lawful
    <2>1. Asked(s, label) /\ s.mapped \subseteq {"P2002", "P2003"}
      BY DEF Asked, Shaped
    <2> QED
      BY <1>2, <2>1, MovedOK DEF Begin, Labels
  <1> QED
    BY <1>1, <1>2 DEF Begin

LEMMA ResolveOK == ASSUME Inv, NEW c \in Requests, Resolve(c) PROVE Inv' /\ Lawful
  <1>1. Shaped(req[c]) /\ req[c].mapped \subseteq {"P2002", "P2003"}
    BY DEF Resolve, Inv, RequestsOK, Asked
  <1>2. CASE Answer(c)
    BY <1>2, AnswerAsked, MovedOK DEF Resolve, Answer, Labels
  <1>3. CASE Stand(c, "write", req[c])
    BY <1>1, <1>3, MovedOK DEF Resolve, Asked, Labels
  <1> QED
    BY <1>2, <1>3 DEF Resolve

\* A request that has run its statement is answered.
LEMMA AnswerOK ==
  ASSUME Inv, NEW c \in Requests, Answer(c), RowsOK', HistoryKept, Steady
  PROVE  Inv' /\ Lawful
  <1>1. Asked(NoStatement, "idle")' /\ NoStatement.mapped \subseteq {"P2002", "P2003"}
    BY DEF Asked, NoStatement, Statement
  <1>2. RequestsOK' /\ pc'[c] = "idle" /\ \A d \in Requests \ {c} : pc'[d] = pc[d]
    BY <1>1, StandOK DEF Inv, Answer, Labels
  <1> QED
    BY <1>2 DEF Inv, Lawful, OpaqueErrorsAreRaces

\* Or it fails, if it may.
LEMMA FailOK ==
  ASSUME Inv, NEW c \in Requests, Fail(c), UNCHANGED <<rows, used>>,
         \/ req[c].op = "delete"
         \/ \E id \in {req[c].id} \cup req[c].refs : id \in used \ Present
  PROVE  Inv' /\ Lawful
  <1>1. Asked(NoStatement, "failed") /\ NoStatement.mapped \subseteq {"P2002", "P2003"}
    BY AnswerAsked
  <1>2. Inv' /\ HistoryKept /\ \A d \in Requests \ {c} : pc'[d] = pc[d]
    BY <1>1, QuietOK DEF Fail, Labels
  <1> QED
    BY <1>2 DEF Lawful, OpaqueErrorsAreRaces

LEMMA WriteOK == ASSUME Inv, NEW c \in Requests, Write(c) PROVE Inv' /\ Lawful
  <1> DEFINE q == req[c]
             s == IF q.op = "insert" THEN [q EXCEPT !.id = NextId(Table(@))] ELSE q
  <1>1. /\ rows' = IF Error(s) = "none" THEN Effect(s) ELSE rows
        /\ used' = IF s.op = "insert" /\ Error(s) = "none" THEN used \cup {s.id} ELSE used
        /\ Finish(c, s, Error(s))
        /\ Shaped(q)
    BY DEF Write, Inv, RequestsOK, Asked
  <1>2. q.op = "insert" => s = Statement("insert", NextId(Table(q.id)), q.unique, q.refs, q.mapped)
    BY <1>1 DEF Shaped, Statement
  <1>3. q.op # "insert" => s = q
    OBVIOUS
  <1> HIDE DEF s
  <1>4. /\ Shaped(s) /\ s.op = q.op /\ s.refs = q.refs /\ s.mapped = q.mapped
        /\ s.op # "insert" => s.id = q.id
        /\ s.op = "insert" => s.id = NextId(Table(q.id)) /\ Table(q.id) \in AllTables
    <2>1. CASE q.op # "insert"
      BY <1>1, <1>3, <2>1
    <2>2. CASE q.op = "insert"
      <3>1. /\ s.op = "insert" /\ s.id = NextId(Table(q.id)) /\ s.unique = q.unique
            /\ s.refs = q.refs /\ s.mapped = q.mapped
            /\ s = Statement(s.op, s.id, s.unique, s.refs, s.mapped)
        BY <1>2, <2>2 DEF Statement
      <3>2. Table(s.id) = Table(q.id)
        BY <3>1 DEF NextId, Table
      <3> HIDE DEF q
      <3> QED
        BY <1>1, <2>2, <3>1, <3>2 DEF Shaped
    <2> QED
      BY <2>1, <2>2
  <1>5. CASE Error(s) = "none"
    <2>1. Answer(c)
      BY <1>1, <1>5 DEF Finish
    <2>2. RowsOK' /\ HistoryKept /\ Steady
      <3>1. CASE s.op = "insert"
        <4>1. s.refs \subseteq Present
          BY <1>5, <3>1 DEF Error
        <4>2. /\ rows' = rows \cup {Row(NextId(Table(q.id)), s.unique, s.refs)}
              /\ used' = used \cup {NextId(Table(q.id))}
          BY <1>1, <1>4, <1>5, <3>1 DEF Effect
        <4>3. /\ Table(q.id) \in AllTables /\ Table(q.id) # "Price"
              /\ Table(q.id) \in Dependent => s.refs # {}
          BY <1>1, <1>4, <3>1 DEF Shaped
        <4> QED
          BY <4>1, <4>2, <4>3, InsertKeeps DEF Inv
      <3>2. CASE s.op = "update"
        BY <1>1, <1>4, <1>5, <3>2, UpdateKeeps DEF Inv
      <3>3. CASE s.op = "delete"
        BY <1>1, <1>4, <1>5, <3>3, DeleteKeeps DEF Inv
      <3> QED
        BY <1>4, <3>1, <3>2, <3>3 DEF Shaped
    <2> QED
      BY <2>1, <2>2, AnswerOK
  <1>6. CASE Error(s) # "none" /\ Error(s) \in s.mapped
    <2>1. Answer(c) /\ UNCHANGED <<rows, used>>
      BY <1>1, <1>6 DEF Finish
    <2> QED
      BY <2>1, AnswerAsked, MovedOK DEF Answer, Labels
  <1>7. CASE Error(s) \notin {"none"} \cup s.mapped
    <2>1. Fail(c) /\ UNCHANGED <<rows, used>>
      BY <1>1, <1>7 DEF Finish
    <2>2. s.op = "delete" \/ \E id \in {s.id} \cup s.refs : id \in used \ Present
      BY <1>4, <1>7, FailureIs
    <2>3. s.op = "insert" => s.id \notin used
      <3>1. NextId(Table(q.id)) = NextOf(used, Table(q.id))
        BY DEF NextId, NextOf, Of
      <3>2. Numbered(used)
        BY DEF Inv, RowsOK, Sane
      <3> QED
        BY <1>4, <3>1, <3>2, NextIsFresh
    <2> QED
      BY <1>4, <2>1, <2>2, <2>3, FailOK
  <1> QED
    BY <1>5, <1>6, <1>7

-----------------------------------------------------------------------------
(* Prices *)

LEMMA PricedIs ==
  ASSUME NEW s, Priced(s)
  PROVE  \E v \in used : /\ s.op = "insert" /\ Table(s.id) = "Price"
                         /\ s.unique = Pair(v) /\ s.refs = {v} /\ s.mapped = {"P2002"}
                         /\ VariantOf(s) = v
  BY DEF Priced, Statement, Table, VariantOf

LEMMA PutPriceOK == ASSUME Inv, NEW c \in Requests, PutPrice(c) PROVE Inv' /\ Lawful
  <1>1. UNCHANGED <<rows, used>>
    BY DEF PutPrice
  <1>2. CASE Answer(c)
    BY <1>1, <1>2, AnswerAsked, MovedOK DEF Answer, Labels
  <1>3. ASSUME NEW v \in Ids("Variant"),
               Stand(c, "price", Statement("insert", <<"Price", 0>>, Pair(v), {v}, {"P2002"}))
        PROVE  Inv' /\ Lawful
    <2> DEFINE s == Statement("insert", <<"Price", 0>>, Pair(v), {v}, {"P2002"})
    <2>1. s.id[2] = 0 /\ s.mapped = {"P2002"} /\ v \in used
      BY DEF Statement, Ids
    <2>2. Priced(s)
      BY <2>1 DEF Priced
    <2>3. Asked(s, "price")
      BY <2>2 DEF Asked
    <2> QED
      BY <1>1, <1>3, <2>1, <2>3, MovedOK DEF Labels
  <1> QED
    BY <1>2, <1>3 DEF PutPrice

LEMMA PriceReadOK == ASSUME Inv, NEW c \in Requests, PriceRead(c) PROVE Inv' /\ Lawful
  <1> DEFINE s == req[c]
  <1>1. Priced(s) /\ UNCHANGED <<rows, used>>
    BY DEF PriceRead, Inv, RequestsOK, Asked
  <1>2. PICK v \in used : s.refs = {v} /\ s.mapped = {"P2002"} /\ VariantOf(s) = v
    BY <1>1, PricedIs
  <1>3. CASE Stand(c, "replace", s) /\ PriceOf(v) # {}
    <2>1. Asked(s, "replace")
      BY <1>1, <1>2, <1>3 DEF Asked
    <2> QED
      BY <1>1, <1>2, <1>3, <2>1, MovedOK DEF Labels
  <1>4. CASE Stand(c, "create", s)
    <2>1. Asked(s, "create")
      BY <1>1 DEF Asked
    <2> QED
      BY <1>1, <1>2, <1>4, <2>1, MovedOK DEF Labels
  <1> QED
    BY <1>2, <1>3, <1>4 DEF PriceRead

LEMMA PriceReplaceOK == ASSUME Inv, NEW c \in Requests, PriceReplace(c) PROVE Inv' /\ Lawful
  <1> DEFINE s == req[c]
  <1>1. Priced(s) /\ UNCHANGED <<rows, used>> /\ \A v \in s.refs \cap Present : PriceOf(v) # {}
    BY DEF PriceReplace, Inv, RequestsOK, Asked
  <1>2. PICK v \in used : s.refs = {v} /\ VariantOf(s) = v
    BY <1>1, PricedIs
  <1>3. CASE Answer(c)
    BY <1>1, <1>3, AnswerAsked, MovedOK DEF Answer, Labels
  <1>4. CASE Fail(c) /\ PriceOf(v) = {}
    BY <1>1, <1>2, <1>4, FailOK
  <1> QED
    BY <1>2, <1>3, <1>4 DEF PriceReplace

\* Who loses the race to insert a price finds the winner's.
LEMMA PriceCreateOK == ASSUME Inv, NEW c \in Requests, PriceCreate(c) PROVE Inv' /\ Lawful
  <1> DEFINE q == req[c]
             s == [q EXCEPT !.id = NextId("Price")]
  <1>1. /\ rows' = IF Error(s) = "none" THEN Effect(s) ELSE rows
        /\ used' = IF Error(s) = "none" THEN used \cup {s.id} ELSE used
        /\ AfterInsert(c, s, Error(s))
        /\ Priced(q)
    BY DEF PriceCreate, Inv, RequestsOK, Asked
  <1>2. PICK v \in used : /\ s = Statement("insert", NextId("Price"), Pair(v), {v}, {"P2002"})
                          /\ q.refs = {v}
    <2>1. PICK v \in used :
            q = Statement("insert", <<"Price", q.id[2]>>, Pair(v), {v}, {"P2002"})
      BY <1>1 DEF Priced
    <2>2. /\ [q EXCEPT !.id = NextId("Price")] =
               Statement("insert", NextId("Price"), Pair(v), {v}, {"P2002"})
          /\ q.refs = {v}
      BY <2>1 DEF Statement
    <2> QED
      BY <2>2
  <1> HIDE DEF s
  <1>3. /\ s.op = "insert" /\ s.id = NextId("Price") /\ s.unique = Pair(v)
        /\ s.refs = {v} /\ s.mapped = {"P2002"} /\ Table(s.id) = "Price"
    BY <1>2 DEF Statement, NextId, Table
  <1>4. Priced(s)
    <2>1. s.id = <<"Price", s.id[2]>>
      BY <1>3 DEF NextId
    <2> QED
      BY <1>2, <2>1 DEF Priced, Statement
  <1>5. CASE Error(s) = "none"
    <2>1. Answer(c)
      BY <1>1, <1>5 DEF AfterInsert
    <2>2. s.refs \subseteq Present
      BY <1>3, <1>5 DEF Error
    <2>3. /\ rows' = rows \cup {Row(NextId("Price"), Pair(v), {v})}
          /\ used' = used \cup {NextId("Price")}
      BY <1>1, <1>3, <1>5 DEF Effect
    <2>4. {v} \in SUBSET Present /\ {v} # {}
      BY <1>3, <2>2
    <2>5. RowsOK' /\ HistoryKept /\ Steady
      <3>1. "Price" \in AllTables
        BY DEF AllTables
      <3> QED
        BY <2>3, <2>4, <3>1, InsertKeeps DEF Inv
    <2> QED
      BY <2>1, <2>5, AnswerOK
  <1>6. CASE Error(s) = "P2002"
    <2>1. Stand(c, "replace", s) /\ UNCHANGED <<rows, used>>
      BY <1>1, <1>6 DEF AfterInsert
    <2>2. Clashes(s.id, s.unique)
      BY <1>3, <1>6 DEF Error
    <2>3. PICK x \in rows : Table(x.id) = "Price" /\ x.unique \cap Pair(v) # {}
      BY <1>3, <2>2 DEF Clashes
    <2>4. PICK w \in used : x.unique = Pair(w)
      BY <2>3 DEF Inv, RowsOK, Sane
    <2>5. v = w
      BY <2>3, <2>4 DEF Pair
    <2>6. PriceOf(v) # {}
      BY <2>3, <2>4, <2>5 DEF PriceOf
    <2>7. Asked(s, "replace")
      BY <1>3, <1>4, <2>6 DEF Asked
    <2> QED
      BY <1>3, <2>1, <2>7, MovedOK DEF Labels
  <1>7. CASE Error(s) \notin {"none", "P2002"}
    <2>1. Fail(c) /\ UNCHANGED <<rows, used>>
      BY <1>1, <1>7 DEF AfterInsert
    <2>2. v \notin Present
      BY <1>3, <1>7 DEF Error
    <2> QED
      BY <1>2, <2>1, <2>2, FailOK
  <1> QED
    BY <1>5, <1>6, <1>7

-----------------------------------------------------------------------------
(* createMember's transaction *)

\* The user it upserts and the membership are two rows at most.
LEMMA CreateMemberOK == ASSUME Inv, NEW c \in Requests, CreateMember(c) PROVE Inv' /\ Lawful
  <1>1. PICK email \in Codings("email"), tenant \in Ids("Tenant") :
          LET user == UserOf(email)
              membership == Joining(user, tenant)
          IN /\ rows' = rows \cup {user, membership}
             /\ used' = used \cup {user.id, membership.id}
             /\ Answer(c)
    BY DEF CreateMember
  <1> DEFINE user == UserOf(email)
             both == <<user.id, tenant>>
             unique == {<<"userId_tenantId", both>>}
             refs == {user.id, tenant}
             membership == Row(NextId("Membership"), unique, refs)
             known == {x \in rows : Table(x.id) = "User" /\ email \subseteq x.unique}
  <1>2. /\ rows' = rows \cup {user, membership}
        /\ used' = used \cup {user.id, NextId("Membership")}
        /\ Answer(c)
    BY <1>1 DEF Joining, Row
  <1>3. tenant \in IdsOf(rows) /\ IdsOf(rows) = Present
    BY DEF Ids, Inv, RowsOK, Sane, IdsOf, Present
  <1>4. CASE known # {}
    <2>1. user \in rows
      BY <1>4 DEF UserOf
    <2>2. user.id \in Present /\ user.id \in used
      BY <2>1 DEF Present, IdsOf, Inv, RowsOK, Sane
    <2> HIDE DEF user
    <2>3. rows' = rows \cup {membership} /\ used' = used \cup {NextId("Membership")}
      BY <1>2, <2>1, <2>2
    <2>4. refs \in SUBSET Present /\ refs # {}
      BY <1>3, <2>2
    <2>5. "Membership" \in AllTables
      BY DEF AllTables
    <2> HIDE DEF refs, unique
    <2>6. RowsOK' /\ HistoryKept /\ Steady
      BY <2>3, <2>4, <2>5, InsertKeeps DEF Inv
    <2> QED
      BY <1>2, <2>6, AnswerOK
  <1>5. CASE known = {}
    <2>1. user = Row(NextId("User"), email, {}) /\ user.id = NextId("User")
      BY <1>5 DEF UserOf, Row
    <2>2. NextId("User") = NextOf(used, "User")
      BY DEF NextId, NextOf, Of
    <2> HIDE DEF user
    <2>3. Sane(rows \cup {user}, used \cup {user.id}) /\ user.id \notin used
      <3>1. "User" \in AllTables
        BY DEF AllTables
      <3>2. "User" \notin Dependent /\ {} \in SUBSET IdsOf(rows)
        BY DEF Dependent
      <3> QED
        BY <2>1, <2>2, <3>1, <3>2, SaneGrows DEF Inv, RowsOK
    <2>4. NextId("Membership") = NextOf(used \cup {user.id}, "Membership")
      <3>1. Of(used \cup {user.id}, "Membership") = Of(used, "Membership")
        <4>1. Table(user.id) = "User"
          BY <2>1, <2>2 DEF NextOf, Table
        <4> QED
          BY <4>1 DEF Of
      <3> QED
        BY <3>1 DEF NextId, NextOf, Of
    <2>5. refs \in SUBSET IdsOf(rows \cup {user}) /\ refs # {}
      BY <1>3 DEF IdsOf
    <2> HIDE DEF refs, unique
    <2>6. /\ Sane((rows \cup {user}) \cup {membership}, (used \cup {user.id}) \cup {membership.id})
          /\ membership.id \notin used /\ membership.id = NextId("Membership")
      <3>1. membership.id = NextId("Membership")
        BY DEF Row
      <3>2. "Membership" \in AllTables
        BY DEF AllTables
      <3> QED
        BY <2>3, <2>4, <2>5, <3>1, <3>2, SaneGrows
    <2>7. RowsOK'
      <3>1. /\ rows' = (rows \cup {user}) \cup {membership}
            /\ used' = (used \cup {user.id}) \cup {membership.id}
        BY <1>2, <2>6
      <3> QED
        BY <2>6, <3>1 DEF RowsOK
    <2> HIDE DEF membership
    <2>8. HistoryKept
      BY <1>2 DEF HistoryKept
    <2>9. Steady
      <3>1. Present' = Present \cup {user.id, membership.id} /\ used \subseteq used'
        BY <1>2 DEF Present
      <3>2. \A v : PriceOf(v) \subseteq PriceOf(v)'
        BY <1>2 DEF PriceOf
      <3> QED
        BY <2>3, <2>6, <3>1, <3>2 DEF Steady
    <2> QED
      BY <1>2, <2>7, <2>8, <2>9, AnswerOK
  <1> QED
    BY <1>4, <1>5

-----------------------------------------------------------------------------
(* The handlers' first steps *)

LEMMA CreateOK ==
  ASSUME Inv, NEW c \in Requests, NEW t \in AllTables \ {"Price"}, NEW unique,
         NEW refs \in SUBSET used, NEW mapped \in SUBSET {"P2002", "P2003"},
         t \in Dependent => refs # {}, unique = {} \/ "P2002" \in mapped,
         Create(c, t, unique, refs, mapped)
  PROVE  Inv' /\ Lawful
  <1> DEFINE s == Statement("insert", <<t, 0>>, unique, refs, mapped)
  <1>1. /\ s = Statement(s.op, s.id, s.unique, s.refs, s.mapped)
        /\ s.op = "insert" /\ s.unique = unique /\ s.refs = refs /\ s.mapped = mapped
        /\ Table(s.id) = t
    BY DEF Statement, Table
  <1> HIDE DEF s
  <1>2. Shaped(s)
    BY <1>1 DEF Shaped
  <1> QED
    BY <1>2, BeginOK DEF Create, s

LEMMA UpdateOK ==
  ASSUME Inv, NEW c \in Requests, NEW t \in AllTables \ {"Price"}, NEW id \in Ids(t), NEW unique,
         NEW refs \in SUBSET used, NEW mapped \in SUBSET {"P2002", "P2003"},
         t \in Historic => refs = {}, unique = {} \/ "P2002" \in mapped,
         Update(c, id, unique, refs, mapped)
  PROVE  Inv' /\ Lawful
  <1> DEFINE s == Statement("update", id, unique, refs, mapped)
  <1>1. /\ s = Statement(s.op, s.id, s.unique, s.refs, s.mapped)
        /\ s.op = "update" /\ s.unique = unique /\ s.refs = refs /\ s.mapped = mapped
        /\ s.id = id /\ Table(s.id) = t /\ s.id \in used
    BY DEF Statement, Ids
  <1> HIDE DEF s
  <1>2. Shaped(s)
    BY <1>1 DEF Shaped
  <1> QED
    BY <1>2, BeginOK DEF Update, s

LEMMA DeleteOK ==
  ASSUME Inv, NEW c \in Requests, NEW t \in Deletable, NEW id \in Ids(t),
         NEW mapped \in SUBSET {"P2002", "P2003"}, Delete(c, id, mapped)
  PROVE  Inv' /\ Lawful
  <1> DEFINE s == Statement("delete", id, {}, {}, mapped)
  <1>1. /\ s = Statement(s.op, s.id, s.unique, s.refs, s.mapped)
        /\ s.op = "delete" /\ s.unique = {} /\ s.refs = {} /\ s.mapped = mapped
        /\ Table(s.id) = t /\ s.id \in used
    BY DEF Statement, Ids
  <1> HIDE DEF s
  <1>2. t \in AllTables \ {"Price"}
    BY DEF Deletable, AllTables
  <1>3. Shaped(s)
    BY <1>1, <1>2 DEF Shaped
  <1> QED
    BY <1>3, BeginOK DEF Delete, s

\* The references a client may name are ids.
LEMMA Named ==
  /\ \A t : \A id \in Ids(t) : id \in used
  /\ \A t : \A refs \in Optional(Refs(t)) : refs \in SUBSET used
  BY DEF Ids, Refs, Optional

LEMMA RegistryRequestOK == ASSUME Inv, NEW c \in Requests, RegistryRequest(c) PROVE Inv' /\ Lawful
  <1>1. CASE CreateStore(c)
    BY <1>1, CreateOK, Named DEF CreateStore, AllTables, Dependent
  <1>2. CASE UpdateStore(c)
    BY <1>2, UpdateOK, Named DEF UpdateStore, AllTables, Historic
  <1>3. CASE DeleteStore(c)
    BY <1>3, DeleteOK DEF DeleteStore, Deletable
  <1>4. CASE CreateAsset(c)
    BY <1>4, CreateOK, Named DEF CreateAsset, AllTables, Dependent
  <1>5. CASE UpdateAsset(c)
    BY <1>5, UpdateOK, Named DEF UpdateAsset, AllTables, Historic
  <1>6. CASE DeleteAsset(c)
    BY <1>6, DeleteOK DEF DeleteAsset, Deletable
  <1>7. CASE CreateEquipment(c)
    BY <1>7, CreateOK, Named DEF CreateEquipment, AllTables, Dependent
  <1>8. CASE UpdateEquipment(c)
    BY <1>8, UpdateOK, Named DEF UpdateEquipment, AllTables, Historic
  <1>9. CASE DeleteEquipment(c)
    BY <1>9, DeleteOK DEF DeleteEquipment, Deletable
  <1>10. CASE CreateCustomer(c)
    BY <1>10, CreateOK, Named DEF CreateCustomer, AllTables, Dependent
  <1>11. CASE UpdateCustomer(c)
    BY <1>11, UpdateOK, Named DEF UpdateCustomer, AllTables, Historic
  <1>12. CASE DeleteCustomer(c)
    BY <1>12, DeleteOK DEF DeleteCustomer, Deletable
  <1>13. CASE CreateService(c)
    BY <1>13, CreateOK, Named DEF CreateService, AllTables, Dependent
  <1>14. CASE UpdateService(c)
    BY <1>14, UpdateOK, Named DEF UpdateService, AllTables, Historic
  <1>15. CASE CreateReservation(c)
    BY <1>15, CreateOK, Named DEF CreateReservation, AllTables, Dependent
  <1>16. CASE CreateBooking(c)
    BY <1>16, CreateOK, Named DEF CreateBooking, AllTables, Dependent
  <1>17. CASE RegisterDevice(c)
    BY <1>17, CreateOK, Named DEF RegisterDevice, AllTables, Dependent
  <1>18. CASE UpdateDevice(c)
    BY <1>18, UpdateOK, Named DEF UpdateDevice, AllTables, Historic
  <1> QED
    BY <1>1, <1>2, <1>3, <1>4, <1>5, <1>6, <1>7, <1>8, <1>9, <1>10, <1>11, <1>12, <1>13,
       <1>14, <1>15, <1>16, <1>17, <1>18 DEF RegistryRequest

LEMMA CatalogRequestOK == ASSUME Inv, NEW c \in Requests, CatalogRequest(c) PROVE Inv' /\ Lawful
  <1>1. CASE CreateCategory(c)
    BY <1>1, CreateOK, Named DEF CreateCategory, AllTables, Dependent
  <1>2. CASE UpdateCategory(c)
    BY <1>2, UpdateOK, Named DEF UpdateCategory, AllTables, Historic
  <1>3. CASE DeleteCategory(c)
    BY <1>3, DeleteOK DEF DeleteCategory, Deletable
  <1>4. CASE CreateProduct(c)
    BY <1>4, CreateOK, Named DEF CreateProduct, AllTables, Dependent
  <1>5. CASE UpdateProduct(c)
    BY <1>5, UpdateOK, Named DEF UpdateProduct, AllTables, Historic
  <1>6. CASE DeleteProduct(c)
    BY <1>6, DeleteOK DEF DeleteProduct, Deletable
  <1>7. CASE CreateVariant(c)
    BY <1>7, CreateOK, Named DEF CreateVariant, AllTables, Dependent
  <1>8. CASE UpdateVariant(c)
    BY <1>8, UpdateOK, Named DEF UpdateVariant, AllTables, Historic
  <1>9. CASE DeleteVariant(c)
    BY <1>9, DeleteOK DEF DeleteVariant, Deletable
  <1>10. CASE PutPrice(c)
    BY <1>10, PutPriceOK
  <1>11. CASE StockVariant(c)
    BY <1>11, CreateOK, Named DEF StockVariant, AllTables, Dependent
  <1>12. CASE SellVariant(c)
    BY <1>12, CreateOK, Named DEF SellVariant, AllTables, Dependent
  <1> QED
    BY <1>1, <1>2, <1>3, <1>4, <1>5, <1>6, <1>7, <1>8, <1>9, <1>10, <1>11, <1>12 DEF CatalogRequest

LEMMA AccountsRequestOK == ASSUME Inv, NEW c \in Requests, AccountsRequest(c) PROVE Inv' /\ Lawful
  <1>1. CASE RegisterUser(c)
    BY <1>1, CreateOK, Named DEF RegisterUser, AllTables, Dependent
  <1>2. CASE AddTenant(c)
    BY <1>2, CreateOK, Named DEF AddTenant, AllTables, Dependent
  <1>3. CASE UpdateTenant(c)
    BY <1>3, UpdateOK, Named DEF UpdateTenant, AllTables, Historic
  <1>4. CASE CreateMember(c)
    BY <1>4, CreateMemberOK
  <1> QED
    BY <1>1, <1>2, <1>3, <1>4 DEF AccountsRequest

-----------------------------------------------------------------------------
(* The three specifications *)

LEMMA StepOK == Inv /\ [AnyNext]_vars => Inv' /\ Lawful
  <1> SUFFICES ASSUME Inv, [AnyNext]_vars PROVE Inv' /\ Lawful
    OBVIOUS
  <1>1. CASE UNCHANGED vars
    <2>1. RowsOK' /\ HistoryKept /\ OpaqueErrorsAreRaces
      BY <1>1 DEF vars, Inv, RowsOK, HistoryKept, OpaqueErrorsAreRaces
    <2>2. RequestsOK'
      BY <1>1 DEF vars, Inv, RequestsOK, Asked, Shaped, Priced, Present, PriceOf
    <2> QED
      BY <2>1, <2>2 DEF Inv, Lawful
  <1>2. ASSUME NEW c \in Requests, Resolve(c) \/ Write(c) PROVE Inv' /\ Lawful
    BY <1>2, ResolveOK, WriteOK
  <1>3. CASE RegistryNext
    BY <1>2, <1>3, RegistryRequestOK DEF RegistryNext
  <1>4. CASE CatalogNext
    BY <1>2, <1>4, CatalogRequestOK, PriceReadOK, PriceCreateOK, PriceReplaceOK DEF CatalogNext
  <1>5. CASE AccountsNext
    BY <1>2, <1>5, AccountsRequestOK DEF AccountsNext
  <1> QED
    BY <1>1, <1>3, <1>4, <1>5 DEF AnyNext

LEMMA TypedOK == Inv => TablesOK
  <1> SUFFICES ASSUME Inv PROVE TablesOK
    OBVIOUS
  <1>1. IdsOf(rows) = Present
    BY DEF IdsOf, Present
  <1>2. /\ used \in SUBSET (AllTables \X Nat) /\ Present \subseteq used
        /\ \A x, y \in rows : x.id = y.id => x = y
        /\ \A x \in rows : x.refs \subseteq Present
        /\ \A x \in rows : Table(x.id) \in Dependent => x.refs # {}
    BY <1>1 DEF Inv, RowsOK, Sane, Numbered
  <1>3. /\ pc \in [Requests -> Labels]
        /\ \A c \in Requests : req[c].mapped \subseteq {"P2002", "P2003"}
    BY DEF Inv, RequestsOK
  <1> QED
    BY <1>2, <1>3 DEF TablesOK, Labels

LEMMA RegistryInv == RegistrySpec => []Inv /\ [][Lawful]_vars
  <1>1. RegistryNext => AnyNext
    BY DEF AnyNext
  <1>2. Inv /\ [RegistryNext]_vars => Inv' /\ [Lawful]_vars
    BY <1>1, StepOK
  <1> QED
    BY <1>2, Started, PTL DEF RegistrySpec

LEMMA CatalogInv == CatalogSpec => []Inv /\ [][Lawful]_vars
  <1>1. CatalogNext => AnyNext
    BY DEF AnyNext
  <1>2. Inv /\ [CatalogNext]_vars => Inv' /\ [Lawful]_vars
    BY <1>1, StepOK
  <1> QED
    BY <1>2, Started, PTL DEF CatalogSpec

LEMMA AccountsInv == AccountsSpec => []Inv /\ [][Lawful]_vars
  <1>1. AccountsNext => AnyNext
    BY DEF AnyNext
  <1>2. Inv /\ [AccountsNext]_vars => Inv' /\ [Lawful]_vars
    BY <1>1, StepOK
  <1> QED
    BY <1>2, Started, PTL DEF AccountsSpec

\* Every row of stores, assets, equipment, customers and services has an id of
\* its own that was never another's, and every reference in it leads to a row
\* (the foreign keys of schema.prisma).
THEOREM RegistryTyped == RegistrySpec => []TablesOK
  BY RegistryInv, TypedOK, PTL

\* No statement of the handlers of stores, assets, equipment, customers and
\* services takes a reservation, a booking or a device along, or parts it from
\* what it refers to.
THEOREM RegistryKeepsHistory == RegistrySpec => [][HistoryKept]_vars
  <1>1. Lawful => HistoryKept
    BY DEF Lawful
  <1> QED
    BY <1>1, RegistryInv, PTL

\* Creations and updates of stores, assets, equipment, customers and services
\* fail with a 500 only where another request deleted a row they had read.
THEOREM RegistryFailures == RegistrySpec => [][OpaqueErrorsAreRaces]_vars
  <1>1. Lawful => OpaqueErrorsAreRaces
    BY DEF Lawful
  <1> QED
    BY <1>1, RegistryInv, PTL

\* Every row of categories, products, variants and prices has an id of its own
\* that was never another's, and every reference in it leads to a row (the
\* foreign keys of schema.prisma).
THEOREM CatalogTyped == CatalogSpec => []TablesOK
  BY CatalogInv, TypedOK, PTL

\* No statement of the handlers of categories, products, variants and prices
\* takes a sold item along, or parts it from its variant.
THEOREM CatalogKeepsHistory == CatalogSpec => [][HistoryKept]_vars
  <1>1. Lawful => HistoryKept
    BY DEF Lawful
  <1> QED
    BY <1>1, CatalogInv, PTL

\* Creations and updates of categories, products, variants and prices fail with
\* a 500 only where another request deleted a row they had read.
THEOREM CatalogFailures == CatalogSpec => [][OpaqueErrorsAreRaces]_vars
  <1>1. Lawful => OpaqueErrorsAreRaces
    BY DEF Lawful
  <1> QED
    BY <1>1, CatalogInv, PTL

\* Every row of users, tenants and memberships has an id of its own that was
\* never another's, and every reference in it leads to a row (the foreign keys
\* of schema.prisma).
THEOREM AccountsTyped == AccountsSpec => []TablesOK
  BY AccountsInv, TypedOK, PTL

\* No statement of the handlers of users, tenants and memberships touches the
\* history of a tenant.
THEOREM AccountsKeepsHistory == AccountsSpec => [][HistoryKept]_vars
  <1>1. Lawful => HistoryKept
    BY DEF Lawful
  <1> QED
    BY <1>1, AccountsInv, PTL

\* Creations and updates of users, tenants and memberships fail with a 500 only
\* where another request deleted a row they had read.
THEOREM AccountsFailures == AccountsSpec => [][OpaqueErrorsAreRaces]_vars
  <1>1. Lawful => OpaqueErrorsAreRaces
    BY DEF Lawful
  <1> QED
    BY <1>1, AccountsInv, PTL

=============================================================================
