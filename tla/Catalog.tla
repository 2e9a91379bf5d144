------------------------------ MODULE Catalog -------------------------------
(***************************************************************************)
(* Categories, products, variants and prices, and the stock and the sold   *)
(* items that refer to a variant.                                          *)
(***************************************************************************)
EXTENDS Tables

CreateCategory(c) == \E u \in Codings("name") : Create(c, "Category", u, {}, {"P2002"})
UpdateCategory(c) ==
  \E id \in Ids("Category"), u \in Optional(Codings("name")) : Update(c, id, u, {}, {"P2002"})
DeleteCategory(c) == \E id \in Ids("Category") : Delete(c, id, {"P2003"})

CreateProduct(c) ==
  \E u \in Codings("code"), category \in Optional(Refs("Category")) :
    Create(c, "Product", u, category, {"P2002"})
UpdateProduct(c) ==
  \E id \in Ids("Product"), u \in Optional(Codings("code")),
     category \in Optional(Refs("Category")) :
    Update(c, id, u, category, {"P2002"})
DeleteProduct(c) == \E id \in Ids("Product") : Delete(c, id, {})

CreateVariant(c) ==
  \E product \in Ids("Product"), u \in Codings("sku") :
    Create(c, "Variant", u, {product}, {"P2002"})
UpdateVariant(c) ==
  \E id \in Ids("Variant"), u \in Optional(Codings("sku")) : Update(c, id, u, {}, {"P2002"})
DeleteVariant(c) == \E id \in Ids("Variant") : Delete(c, id, {})

-----------------------------------------------------------------------------
(* putPrice: the pair (variant, currency) is unique, and one currency will do *)

Pair(variant) == {<<"variantId", variant>>}
PriceOf(variant) == {x \in rows : Table(x.id) = "Price" /\ x.unique = Pair(variant)}

PutPrice(c) ==
  /\ \E variant \in Ids("Variant") :
       IF variant \in Present
       THEN Stand(c, "price",
                  Statement("insert", <<"Price", 0>>, Pair(variant), {variant}, {"P2002"}))
       ELSE Answer(c)
  /\ UNCHANGED <<rows, used>>

VariantOf(s) == CHOOSE variant \in s.refs : TRUE

PriceRead(c) ==
  /\ pc[c] = "price"
  /\ Stand(c, IF PriceOf(VariantOf(req[c])) # {} THEN "replace" ELSE "create", req[c])
  /\ UNCHANGED <<rows, used>>

\* Whoever loses the race to insert the pair goes on to update it.
\* Fault: the loser's error is not caught.
LoserFails(c, s, error) ==
  IF error = "none" THEN Answer(c) ELSE Fail(c)
AfterInsert(c, s, error) ==
  CASE error = "none"  -> Answer(c)
    [] error = "P2002" -> Stand(c, "replace", s)
    [] OTHER -> Fail(c)

PriceCreate(c) ==
  LET s == [req[c] EXCEPT !.id = NextId("Price")] IN
  /\ pc[c] = "create"
  /\ Cardinality(used) < MaxRows
  /\ rows' = IF Error(s) = "none" THEN Effect(s) ELSE rows
  /\ used' = IF Error(s) = "none" THEN used \cup {s.id} ELSE used
  /\ AfterInsert(c, s, Error(s))

PriceReplace(c) ==
  /\ pc[c] = "replace"
  /\ IF PriceOf(VariantOf(req[c])) # {} THEN Answer(c) ELSE Fail(c)
  /\ UNCHANGED <<rows, used>>

-----------------------------------------------------------------------------
(* Stock and sales of a variant *)

StockVariant(c) ==
  \E variant \in Ids("Variant") : Create(c, "Inventory", Pair(variant), {variant}, {"P2002"})
SellVariant(c) == \E variant \in Ids("Variant") : Create(c, "OrderItem", {}, {variant}, {})

CatalogRequest(c) ==
  \/ CreateCategory(c) \/ UpdateCategory(c) \/ DeleteCategory(c)
  \/ CreateProduct(c) \/ UpdateProduct(c) \/ DeleteProduct(c)
  \/ CreateVariant(c) \/ UpdateVariant(c) \/ DeleteVariant(c)
  \/ PutPrice(c) \/ StockVariant(c) \/ SellVariant(c)

CatalogNext == \E c \in Requests :
  \/ Free(c) /\ CatalogRequest(c)
  \/ Resolve(c) \/ Write(c)
  \/ PriceRead(c) \/ PriceCreate(c) \/ PriceReplace(c)

CatalogSpec == TablesInit /\ [][CatalogNext]_vars
=============================================================================
