------------------------------ MODULE MCRetail ------------------------------
(***************************************************************************)
(* Instances of the components that hold the tenant's own data: Cart, the  *)
(* tables of Registry, Catalog and Accounts, and Listing.  They share no   *)
(* row: a behaviour is one of either; the others' rows stay as they begin. *)
(***************************************************************************)
EXTENDS Cart, TLC

CONSTANTS
  Codes, MaxRegistered, MaxCatalogued, Names, MaxNamed, MaxAccounts,
  MaxListed, Times, Tags, MaxLimit, None

VARIABLES
  component,   \* which of the six this is a behaviour of
  tables, used, tablesPc, tablesReq,
  row, walk, listed, touched, moved

R == INSTANCE Registry WITH rows <- tables, pc <- tablesPc, req <- tablesReq,
                            MaxRows <- MaxRegistered
C == INSTANCE Catalog WITH rows <- tables, pc <- tablesPc, req <- tablesReq,
                           MaxRows <- MaxCatalogued
\* With names enough for a row to be given another's.
N == INSTANCE Registry WITH rows <- tables, pc <- tablesPc, req <- tablesReq,
                            Codes <- Names, MaxRows <- MaxNamed
A == INSTANCE Accounts WITH rows <- tables, pc <- tablesPc, req <- tablesReq,
                            Codes <- Names, MaxRows <- MaxAccounts
L == INSTANCE Listing WITH MaxRows <- MaxListed

\* Sort columns are ordered like numbers, and None is neither a tag nor a cursor.
ASSUME ListingAssumption ==
  /\ MaxListed \in Nat /\ MaxLimit \in Nat /\ Times \subseteq Nat
  /\ None \notin Tags \cup L!Cursor

tablesVars == <<tables, used, tablesPc, tablesReq>>
listingVars == <<row, walk, listed, touched, moved>>

\* A table to be listed has rows from the start, and only then.
RetailInit ==
  /\ component \in {"cart", "registry", "catalog", "names", "accounts", "listing"}
  /\ Init /\ R!TablesInit /\ L!Init
  /\ component # "listing" => row = [i \in 1..MaxListed |-> L!NoRow]

RetailNext ==
  \/ component = "cart" /\ Next /\ UNCHANGED <<component, tablesVars, listingVars>>
  \/ component = "registry" /\ R!RegistryNext /\ UNCHANGED <<component, vars, listingVars>>
  \/ component = "catalog" /\ C!CatalogNext /\ UNCHANGED <<component, vars, listingVars>>
  \/ component = "names" /\ N!RegistryNext /\ UNCHANGED <<component, vars, listingVars>>
  \/ component = "accounts" /\ A!AccountsNext /\ UNCHANGED <<component, vars, listingVars>>
  \/ component = "listing" /\ L!Next /\ UNCHANGED <<component, vars, tablesVars>>

RetailSpec ==
  RetailInit /\ [][RetailNext]_<<component, vars, tablesVars, listingVars>>

Symmetry == Permutations(Requests) \cup Permutations(Variants) \cup Permutations(Tags)

Tabular == {"registry", "catalog", "names", "accounts"}

\* Every component is type-correct.
TypesOK ==
  /\ TypeOK
  /\ component \in Tabular => R!TablesOK
  /\ component = "listing" => L!TypeOK

\* See Cart: what a request is answered is what it has done, as in Basket.
CartIsBasket == B!BInit /\ [][component = "cart" => [B!BNext]_(B!bvars)]_vars
\* See Tables: no statement removes business history or parts it from its rows.
HistoryKept == [][(component \in Tabular) => R!HistoryKept]_tablesVars
\* See Tables: a 500 on an insert or an update comes of a race.
OpaqueErrorsAreRaces == [][(component \in Tabular) => R!OpaqueErrorsAreRaces]_tablesVars
\* See Listing: a row that stays in place is on some page of a finished walk.
EveryRowListed == component = "listing" => L!EveryRowListed
\* See Listing: a row whose key stays is on at most one page.
NoRowTwice == component = "listing" => L!NoRowTwice
=============================================================================
