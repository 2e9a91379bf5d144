# Business platform in TLA+

A TLA+ model of the business platform under `src/`: a multi-tenant NestJS
back end for commerce, point of sale, rentals and bookings on PostgreSQL. The
modules state what the platform promises about orders, money and stock, carts,
offline sales, schedules, access and the catalog, TLC checks them on small
instances, and TLAPS proves the central promises for instances of any size.

## The system

One Node process (or several) serves HTTP requests. A request passes the JWT,
tenant and permission guards and calls one service method. A service keeps no
state of its own: all state is rows in PostgreSQL, reached through Prisma, with
an extension that adds the tenant to every query. Redis serves the health check
only. Components therefore interact in three ways: a service calls another
(the POS sale calls orders and payments; the sync calls the POS sale), a
service reads rows another one writes (cancelOrder reads PosSale), and
constraints of the schema refuse a write.

Concurrency follows from that. The isolation level is READ COMMITTED:

* a Prisma call outside `$transaction` is a transaction by itself, so
  everything between two `await`s of a handler can be overtaken;
* inside `$transaction` the writes commit together, the reads are still one
  snapshot per statement, and a written row stays locked until the end;
* `updateMany` with a status or a quantity in its `where` is the code's main
  tool: the database waits for the row, evaluates the condition again, and
  reports how many rows it changed.

### Components

| Component | State | Operations | Hard behaviour | Correct when |
|---|---|---|---|---|
| Orders (`order/`) | `Order`, `OrderItem` | createOrder (items or cart), cancelOrder, reads | concurrent decrements, lock order, restock of a lazily created row | units are neither oversold nor lost; settled orders stay |
| Payments (`payment/`) | `Payment` | createPayment, capturePayment, failPayment | several payments of an order, stale status reads | PAID exactly when one payment is captured |
| Inventory (`inventory/`) | `Inventory`: one global pool and one per store | adjust, adjustScoped, reads | lazily created rows, retry after P2002 | never below zero, nothing made up |
| POS sale (`pos/pos-sale`) | `PosSale` | createSale | four transactions in a row | no provenance row for an unpaid cash sale; restock to the right pool |
| POS sync (`pos/pos-sync`, `pos-operation`) | `PosOperation` | recordOfflineSaleIntent, syncOperation, pullFeed | claims, stale claims, crashes, retries | an intent gets one lasting result and is sold at most once |
| POS devices, sessions | `PosDevice`, `PosSession` | register, rename, suspend, resume, retire, rotate, open, close | device retired while a session opens | one open session per device; retired is terminal |
| Cart (`cart/`) | `Cart`, `CartItem` | get, addItem, updateItem, removeItem, discard; checkout in createOrder | no transaction around any of it; lines read before the transaction that orders them | an answer tells what was done, once, on one cart; an order is for what the cart held at one moment and closes it |
| Reservations (`reservation/`) | `Reservation` | create, update, start, complete, delete | status read, then update by id; exclusion constraint | no overlap; only a stale request leaves a terminal status |
| Bookings (`booking/`, `service/`) | `Booking`, `Service` | create, update | free status changes, exclusion constraint | no overlap; one order per booking |
| Members, roles (`member/`, `rbac/`) | `Membership`, `Role`, `RolePermission` | create and change members, create/change/delete roles, grants, assignment | last-owner lock taken or not | an ACTIVE owner remains; grants stay bounded |
| Authentication (`auth/`) | `RefreshToken`, `User` | register, login, refresh, logout | concurrent rotation | a refresh token is used once |
| Tenancy (`tenant/`, `common/`) | async-local tenant, `Tenant` | guard, interceptor, query scoping | a query without context | no query leaves its tenant |
| Pagination (`common/pagination`) | cursor | encode, decode, keyset page | rows inserted between pages | a row present throughout is listed once |
| Catalog and registers (`product/`, `category/`, `store/`, `asset/`, `equipment/`, `customer/`) | rows that refer to each other | create, update, delete, putPrice, lists | parents that go between a read and a write; cascades over two levels | history survives deletions; an opaque error is a race |
| Infrastructure (`health/`, `common/`, controllers) | none | - | - | - |

`PROJECT.json` lists the components with what is modelled of each, and every
hazard at its line with the properties that cover it.

## Modules

| Module | Contents |
|---|---|
| `Orders` | Orders, payments, inventory pools and the online POS sale, one action per statement |
| `Ledger` | what they promise together, each request indivisible |
| `OrdersLedger` | the refinement mapping from `Orders` to `Ledger`, and the properties that sum units |
| `MCOrders` | instances of `Orders` |
| `PosSync` | synchronisation of offline sale intents |
| `MCPosSync` | instances of `PosSync` |
| `Intervals` | instants, half-open intervals, and the conditions both tables put on them |
| `Reservations` | rentals of equipment |
| `Bookings` | bookings of services, and their link to orders |
| `MCSchedule` | instances of `Reservations` and `Bookings` |
| `Members` | memberships, role assignment, and the lock of the last active owner |
| `Tokens` | refresh tokens |
| `Access` | tenants, permissions, roles and grants: who may change what |
| `Devices` | POS devices, sessions, recorded operations and the reconciliation reports |
| `MCIdentity` | instances of `Members`, `Tokens`, `Access` and `Devices` |
| `Cart` | the carts of a user, one action per statement, and checkout |
| `Basket` | what a cart promises, each request indivisible; `Cart` implements it |
| `Tables` | rows, unique indexes, foreign keys with their ON DELETE rules, and the shape of a CRUD handler |
| `Registry` | stores, assets, equipment, customers, services and what refers to them, over `Tables` |
| `Catalog` | categories, products, variants and prices, over `Tables` |
| `Accounts` | users, tenants and memberships, over `Tables` |
| `Listing` | keyset pagination of all lists under concurrent writes |
| `MCRetail` | instances of `Cart`, `Registry`, `Catalog`, `Accounts` and `Listing` |
| `OrdersProof`, `PosSyncProof`, `AccessProof` | theorems about the module they are named after; `OrdersProof` also about `OrdersLedger` |
| `TablesProof` | theorems about `Tables`, `Registry`, `Catalog` and `Accounts` |
| `ScheduleProof`, `IdentityProof`, `RetailProof` | theorems about the specification of `MCSchedule`, `MCIdentity`, `MCRetail`, and about those components of it that have no proof module of their own |
| `Sums` | lemmas about sums over finite sets, for `OrdersProof` and `RetailProof` |

### Orders

A request is a client process; `pc` says which statement it executes next,
`req` holds the handler's parameters and locals. The other variables are the
committed rows: `orderStatus` and `orderLines` (`Order`, `OrderItem`),
`payStatus` and `payOrder` (`Payment`), `posSale` (`PosSale.storeId`), `rows`
and `stock` (`Inventory`, per pool and variant). `orderPool` and `supplied`
are history variables: they are never read by an action.

What an open transaction has written is not in these variables. The inventory
rows it has written are in `held`; that it has locked an order or a payment
follows from its `pc` (`CancelTx`, `captureOrder`). The action that commits
applies the writes, a rollback forgets them. A guarded `updateMany` is an
action with two outcomes: the condition fails on the committed row and no row
is updated, or it holds and the row is free. A row that is busy makes the
statement wait, and the condition is evaluated again when it is free; this is
what PostgreSQL does at READ COMMITTED.

| Code | Actions |
|---|---|
| `OrderService.createOrder` | BeginCheckout, Decrement, InsufficientStock, PlaceOrder |
| `OrderService.cancelOrder` | BeginCancel, CancelMark, CancelPool, Restock, RestockMissing, RestockCreate, CancelCommit |
| `PaymentService.createPayment` | BeginPayment, PayRead, PayCheck, PayInsert |
| `PaymentService.capturePayment` | BeginCapture, CaptureRead, CaptureMark, CaptureOrder |
| `PaymentService.failPayment` | BeginFail, FailMark |
| `InventoryService.adjustScoped` | BeginAdjust, Adjust, AdjustFind, AdjustCreate, AdjustRetry |
| `PosSaleService.createSale` | BeginSale, then createOrder, createPayment, for cash capturePayment, then SaleRecord |
| a death anywhere | Rollback; DeadlockVictim is the one the deadlock detector chooses |

Abstracted: prices, currencies, customers, names and snapshots are left out;
the checks on them refuse a request before its first write, so a request that
begins has passed them. Repeated lines of a variant are already added up
(`aggregateItems`). The booking link is in `Bookings`, checkout from a cart in
`Cart`.

`Ledger` says what a client may rely on: Place takes the units of an order
that has enough of them, Pay and Cancel leave PENDING, Cancel gives the units
back, Supply changes what is on hand and never goes below zero. It has no
pools, no requests and no locks. `OrdersLedger!ImplementsLedger` maps
`onHand` to the sum over all pools and `receipts` to the number of captured
payments.

### PosSync

A sync request is a process of `Syncers`. `opStatus`, `opResult` and `claim`
are the columns status, resultOrderId and processedAt of `PosOperation`;
`claim` keeps of the time only whether it is null, recent or older than the
staleness window. The engine of the claim winner creates an order (`saleOp`,
`saleStatus`), pays it, and records it (`recorded`), one action per
transaction; the statements inside those transactions are the business of
`Orders`. Around the syncs, prices change, units are sold elsewhere and
restocked (`Restock` is `adjustScoped` with a positive delta), orders still
PENDING are cancelled, the device is suspended, resumed and retired, and
requests die.

| Code | Actions |
|---|---|
| `recordOfflineSaleIntent` | RecordIntent |
| `syncOperation` | BeginSync, Authority, ValidatePrice, ValidateStock, Claim, Finalize |
| `persistRejection` | PersistRejection |
| `awaitConcurrentResult` | Await, ClearClaim |
| `createSale` called by the winner | BeginEngine, CreateOrder, CreatePayment, CapturePayment, RecordSale |
| `PosDeviceService.transition` | DeviceTransition |
| five minutes | ClaimAges |

A poll that finds nothing changes nothing, so only the poll that ends the wait
is an action. `ClaimAges` may happen while the winner is still at work: the
code has no limit on how long an engine run takes. `disturbed` remembers the
intents whose winner died, threw, or was overtaken by the five minutes;
`ClaimSellsOnce` is about the others, and what happens to these is what
`AcceptedIsPaid`, `ResultIsFinal` and `RetriesSettle` say. A winner whose
engine found too little is at `soldout`: it holds the claim until its rejection
is written. Intents ask for one variant; the interplay of several is in
`Orders`.

### Reservations and Bookings

Both components have the same design: a handler reads, decides, and writes one
row by its id; a CHECK and an exclusion constraint of the table judge every
write. `Admits` is the two constraints; a write it refuses ends the request
with an error. `pc` and `req` are again the requests at work. What a handler
has read is in `req`, what it overwrites is whatever the row holds by then.

| Code | Actions |
|---|---|
| `createReservation` | BeginCreate, OverlapCheck, Insert |
| `updateReservation` | BeginUpdate, OverlapCheck, Move |
| `startReservation`, `completeReservation`, `deleteReservation` | BeginStart, BeginComplete, BeginDelete, then Mark |
| the clock | Tick |
| `createBooking` | BeginCreate, Insert |
| `updateBooking` | BeginUpdate, Update |
| `createOrder` with a booking | PlaceOrder: only the guarded link, as the rest of the order is in `Orders` |
| `updateService` | OfferService |

A reservation's interval is judged when an update begins, by the columns it
moves and the others as read, and the update writes only the former: two
updates that move one end each are the case `DurationsPositive` is about.
Bookings have no lifecycle in the code: a PATCH sets any status, so `Update`
takes any. Customers and notes are left out: an unknown customer refuses a
request before it writes. The two tables share no row, and `MCSchedule` checks
them in one run: a behaviour is one of either, and the tables of the other stay
empty.

### Members and Tokens

`Members` is one tenant: `role` and `status` are the columns of `Membership`
with the role as its key, `held` the rows an open transaction has locked FOR
UPDATE. A request acts on the permissions it read when it began
(`PermissionService` keeps them for the request), then reads the membership it
is about, and decides from that whether its write may remove an active owner.
If so it counts the active owners under the lock: the query finds them
(`QueryOwners`), waits for the rows that others hold, evaluates its condition
on them again and keeps them locked (`LockOwners`), as PostgreSQL does for
SELECT FOR UPDATE. If not, it writes by id.

`Tokens` is the tokens of one user, as no statement touches those of two.
`issued`, `revoked` and `expired` are the rows, those with a revokedAt, and
those past their expiresAt; `session` and `from` remember which login a token
descends from and which token it replaced. A rotation is a transaction: its
guarded update locks the row (`RefreshRevoke`), and the commit makes the
revocation and the successor visible together (`RefreshIssue`).

| Code | Actions |
|---|---|
| `createMember` | BeginCreate, Insert |
| `updateMemberStatus` | BeginStatus, ReadTarget, then Write, or `updateWithOwnerLock` |
| `assignRoleToMembership` | BeginAssign, ReadTarget, then Write, or `demoteOwner` |
| `updateWithOwnerLock`, `demoteOwner` | QueryOwners, LockOwners, LockedWrite |
| `login` | BeginLogin, Login |
| `refresh` | BeginRefresh, RefreshUser, RefreshRevoke, RefreshIssue |
| `logout` | Logout |
| the clock; an operator | Expire; SetUserStatus |
| a death anywhere | Abort; in `Members` also the victim of a deadlock |

INVITED is a status no handler sets. Rows are locked all at once in the model
and one by one in the database; what that adds is deadlocks, and `Abort` may
end a waiting transaction at any time. A token that was never issued is
refused without a trace, so only issued ones are presented.

### Cart

The service runs no transaction: each Prisma call of a handler is an action,
and `status` and `item` are the rows of `Cart` and `CartItem` of one user.
Numbers are given in order of creation, which is the order in which
`getOrCreateCart` looks for the oldest OPEN cart. `placed` is a history
variable: the lines of the orders placed from each cart. A request that is not
running was answered as it asked (`idle`) or with an error (`failed`).

| Code | Actions |
|---|---|
| `getOrCreateCart`, at the start of every handler | GetCart, AddItem, UpdateItem, RemoveItem, DiscardCart, Checkout; CreateCart |
| `addItem` | FindItem, InsertItem, after a P2002 FindItem again, IncrementItem |
| `updateItem`, `removeItem` | LookUp, WriteItem |
| `discardCart` | DeleteCart |
| `createOrder` from a cart | ReadLines, PlaceOrder |
| the answer, which shows the cart as it is by then | Reply |
| a death anywhere | Die |

Two requests may both find no OPEN cart and create one each. The service calls
the extra cart inert (`cart.service.ts:44`); it is OPEN all the same, and is
found when the older one is gone.

`createOrder` reads the items before its transaction (`order.service.ts:117-126`)
and orders those lines, whatever the cart holds when it converts it. `ReadLines`
therefore keeps what it has read in the request (`lines`), added up as
`aggregateItems` does, and `PlaceOrder` orders that. Two things follow that
`Basket` does not promise away, because nothing in the repository does:

* a unit added between the read and the conversion is in no order. It stays in
  the cart, which is CONVERTED by then and found by no later request;
* a checkout that had found the cart before another one converted it places a
  second order from it: the conversion is by id and does not ask for OPEN.

What `Basket` promises is what is left, and not little for a service without a
transaction: a request that is answered as it asked took effect once and
completely, on a cart that was OPEN when the request chose it, and one that
fails took effect completely or not at all; an order is for what its cart held
at one moment. The refinement reads the cart off by variant (`Units`, a sum over
the rows of a variant); that an update of one row sets what the cart holds of
its variant is where the unique index on (cart, variant) is needed.

### Tables, Registry, Catalog and Accounts

The CRUD services are alike: a handler finds its own row (404), finds the
parents the client names (404), and runs one statement, which the database
judges by the rows of that moment. `Tables` has that shape once (`Begin`,
`Resolve`, `Write`) with the unique indexes (`Clashes`), the foreign keys, and
what a DELETE does along them (`Cascades`, `SetsNull`, `Refused`); a row is its
id, its unique columns and its references. `Error` is the order in which the
database finds fault: the row is gone, a key refuses, a unique column clashes,
a parent is missing. A handler of a component is then an
action that names its table, its columns, its parents, and the errors it
catches (`mapped`). Errors nobody catches end in `failed`, as the 500 of
`AllExceptionsFilter`.

| Code | Actions |
|---|---|
| `createX`, `updateX`, `deleteX` of stores, assets, equipment, customers, services | the actions of these names in `Registry`, then Resolve and Write |
| reservations, bookings, devices, as rows that refer to these | CreateReservation, CreateBooking, RegisterDevice, UpdateDevice |
| the same of categories, products, variants | the actions of these names in `Catalog` |
| `putPrice` | PutPrice, PriceRead, PriceCreate, PriceReplace |
| inventory rows and order items, as rows that refer to a variant | StockVariant, SellVariant |
| `register`, `updateTenant` | RegisterUser, UpdateTenant |
| `createMember`'s transaction | CreateMember |

`deleteAsset`, `deleteCustomer` and `deleteCategory` turn P2003 into a 409.
`deleteStore`, `deleteEquipment`, `deleteProduct` and `deleteVariant` do not:
deleting a row with history is a 500 there. For inserts and updates
`OpaqueErrorsAreRaces` says that a client needs another request to get a 500;
for deletes `BlockedDeleteIsConflict` says what the migrations promise, and the
run `store_delete` refutes it.

### Listing

One client walks through one list; its first page is `ListStores`,
`ListAssets` and so on, which differ in the columns they sort and filter by,
every later one `Continue`. `row` is the table, of which a row's tag (for
whichever filter the list has) and sort key are kept; ids break ties. Meanwhile
other requests insert, change and delete rows. `listed` counts how often each
row was on a page, `touched` and `moved` remember which rows were written and
which changed their sort key since the first page: the promise of keyset
pagination is about the others.

### Access

Two tenants with their own roles, and users who may be members of both.
`role` and `grants` are the rows of `Role` and `RolePermission`, `member` the
role of each ACTIVE membership. `TenantResolutionGuard` and `PermissionsGuard`
are one action (`Guards`), since each decides on a read of its own and the
second implies the first; the handler then asserts again, for which it reads
the snapshot that `TenantContextService` keeps for its duration (`memo`). Ids
come from the client and may be those of the other tenant. `since` is a
history variable: all that the actor of a request has held in its tenant since
the request began.

| Code | Actions |
|---|---|
| the guards, the interceptor | Begin |
| `assertPermissions`, `assertBoundedGrants` of createRole | AssertManage |
| `findRole` and the other checks | FindRole |
| `createRole`, `updateRole`, `deleteRole`, `assignPermissions` | the actions of these names |
| `assignRoleToMembership` | AssignRole, DemoteOwner |
| a membership that is suspended | Leave |

The lock of `demoteOwner` is a single step here and modelled in `Members`.
`createMember` and the reactivation of a suspended member ask for member:manage
only and are not actions of `Access`: they are in `Members`, and whoever is let in
by them may get a role without anybody holding role:manage. `OnlyManagersWrite`
is therefore about the roles of those who are members already, and about the
roles and grants themselves.

### Devices

| Code | Actions |
|---|---|
| `registerDevice`, `transition`, `rotateCredential` | RegisterDevice; BeginTransition, Transition; BeginRotation, RotateCredential |
| `openSession`, `closeSession` | BeginOpen, OpenSession; CloseSession |
| `recordOfflineSaleIntent` | BeginRecord, RecordIntent |
| `assertSyncAuthority`, and the outcome of a sync | BeginSync, Settle |
| `getDeviceReconciliation`, `getSessionReconciliation` | DeviceReport, SessionReport |

A credential is the number of its issue. A recorded operation has a `device`
of its own, as the column deviceId that the unique indexes and the device report
go by; the session report goes by the session. A push that violates both unique
indexes of `PosOperation` gets the error of the index created first, which is
the one that makes it a repeat (`Violated`). The engine a sync runs is in
`PosSync`; here a sync is its authority check and its outcome, an `updateMany`
that asks for PENDING (`Finalizable`).

`openSession` looks at the device before it inserts, and a sync at the device and
its credential before its engine runs. A device that is suspended, retired or
given a new credential in between still has the session opened, or the operation
executed; the model has these behaviours. No property is stated about them:
nothing looks at the device again, and no document promises that anything does.

## Runs

| Run | Question | Bounds | Result |
|---|---|---|---|
| `orders` | Do races for orders, payments and stock end consistently, and does every behaviour implement `Ledger`? | 2 requests of any kind, 2 orders, 2 payments, 1 variant, quantities 0 and 1; a store pool with a unit, a global pool without a row, adjustments up and down | holds, about 411,000 states |
| `orders_liveness` | Does every request finish? | 2 requests (card sale, cancellation, adjustment), 2 variants, a global pool without rows | holds, about 92,000 states |
| `orders_restock` | Is restock exact per pool? | 2 requests, 1 order | violated |
| `pos_sync` | Is a result final, truthful and eventually there? | 2 syncs at a time, 1 intent, 2 units, 1 crash | holds, about 133,000 states |
| `pos_sync_race` | Does the claim winner always find its intent PENDING? | 2 syncs, 1 unit, no crash | violated |
| `pos_sync_twice` | Is an intent sold once across a crash? | 1 sync at a time, 2 units, 1 crash | violated |
| `schedule` | Is anything promised twice, by rentals or by bookings? | 2 requests; 2 reservations of 1 equipment; 2 bookings, 2 services, 2 orders; instants 0 to 2 | holds, about 363,000 states |
| `schedule_revived` | Is a cancelled reservation immutable? | 2 requests, 1 reservation | violated |
| `identity` | Who may do something, and is it decided by what holds at that time? | 2 requests everywhere; 3 members; 3 tokens; 2 users, 2 tenants, 2 permissions, 2 roles, 2 requests in all; 1 device, 2 sessions, 2 uuids, 2 sequence numbers, 2 credentials | holds, about 566,000 states |
| `owner_lost` | Does an active owner always remain? | 2 requests, 2 members | violated |
| `retail` | Do the tenant's own data survive concurrent requests and are they listed in full? | 2 requests everywhere; 2 carts, 2 items, 2 variants, 2 units of an item, asked for one at a time; 4 rows of the registry and of the catalog under one name, 2 under two names, 5 of accounts; 3 rows in a list, pages of 1 or 2 | holds, about 662,000 states |
| `store_delete` | Is a delete that a foreign key blocks answered with a conflict? | 1 request, 2 rows, 1 code | violated |

The bounds suffice for the cases that matter. Requests are reused, so two of
them with two payments contain a capture that has read its order while another
one captures, fails or cancels: a statement only ever meets one competing writer
of its row. Two requests over two pools contain every pair of writers of a
stock row; the global pool begins without a row, so an adjustment, and the
restock of an order sold from a row created since, meet both cases. A quantity
of 1 where the pool may hold none lets an order ask for more than there is. More
requests, orders, pools and larger quantities are the business of the theorems,
which are about any number of each.
Two variants are the least that make a lock cycle, two requests the least that
close it. In `PosSync` two request slots are enough for a waiter that outlives
the sync it waited for, because slots are reused; two units are the least that
can be sold twice. In `MCSchedule` three instants make intervals that are
equal, nested, adjacent and, when two updates race, inverted; two requests
contain every pair of a read and a write that overtakes it. In `MCIdentity`
three members are an actor besides two owners that are removed at once; three
tokens are a login, its successor, and either a second login or the successor
of the successor; two users in two tenants, of which each owns one and one has
a role in both, are the least for a request that names a role or a grant of
the other tenant; two sessions are the least whose reports differ from their
device's, two uuids and two numbers the least for a push that repeats one and
not the other. In `MCRetail` two items are one variant added twice and removed between, or one in
each of two carts; four rows are a product, its variant, the variant's price
and a sale, the longest chain of references the catalog has, or an asset, its
equipment, a customer and a reservation; with a single name everything that
can clash does, and the instance with two names has the updates that give a row
a free name or one that is taken; three rows, two keys and pages of one and two
make ties within a page and across two, and a page after which one row is left.
One unit asked for at a time is enough to make an item of two, by two additions
that race. Identifiers are used up in these instances, so the system can stop
and deadlock is not checked; that nothing waits for ever is `RequestsFinish` and
`RetriesSettle`. Symmetry is used in `orders`, `schedule`, `identity` and
`retail`, which check no liveness.

Where a run covers several components (`schedule`, `identity`, `retail`) a
behaviour is one of either: the components share no row that both keep, so
interleaving them would multiply states without a new behaviour of any.

### Properties

* `PaidExactlyOnce`: an order is PAID exactly when one payment of it is
  CAPTURED, and never two.
* `SettledIsFinal`: PAID, CANCELLED, CAPTURED, FAILED and placed lines never
  change.
* `CashSaleIsPaid`: a cash sale reaches its provenance row only when paid.
* `NeverOversold`: no pool is negative, so the CHECK of the schema never fires.
* `UnitsConserved`: what adjustments brought in is on hand or in live orders.
* `ImplementsLedger`: statement by statement, the code does what `Ledger` says.
* `RequestsFinish`: no request waits for ever.
* `ResultIsFinal`, `AcceptedIsPaid`: a persisted result never changes, and an
  ACCEPTED one points at a paid order of that intent.
* `ClaimSellsOnce`: the claim keeps an intent from being sold twice until a
  winner dies, throws or stays five minutes with it.
* `RetriesSettle`: an intent pushed again and again is settled.
* `NoDoubleRental`, `NoDoubleBooking`: no two rows that hold an equipment, or a
  service, meet, whatever was read before a write.
* `DurationsPositive`: every reservation's interval is one.
* `OnlyStaleRevives`: a cancelled or completed reservation only comes back
  through a request that was under way before.
* `OrderedOnce`: an order placed with a booking stays that booking's order.
* `CountsStand`: the active owners that a transaction has counted under the lock
  are still active, at least two, and counted by nobody else when it removes one.
* `OnlyStaleUnseats`: nothing but an unlocked write, by a request that read its
  target when it was no active owner, takes the last active owner away.
* `RotatedOnce`: concurrent uses of one token have one successor.
* `OneLivePerLogin`: of the tokens of a login at most one is not revoked.
* `LoggedOutStays`: a login without a live token gets none any more, also from a
  refresh that was under way.
* `OnlyHeldIsGranted`: a role gains permissions, and a member the owner role,
  only from one who has held them in that tenant since the request began.
* `OnlyManagersWrite`: no role, grant or membership of a tenant changes but by a
  request in that tenant whose actor has held role:manage there; becoming or
  ceasing to be a member is left out.
* `RetiredIsFinal`: a retired device keeps its status and its credential,
  whatever had read it before.
* `RepeatIsIdempotent`: a repeated push is never told that its number is taken.
* `SettledStaysReported`: what the report of a device or a shift has once shown
  accepted or rejected it shows so ever after, and what it showed pending it
  still accounts for, whatever pushes and syncs of one operation race.
* `CartIsBasket`: statement by statement, the cart does what `Basket` says: what
  a request is answered is what it has done, and an order is for what its cart
  held at one moment. Not that the order has every unit added before it.
* `OrderedCartClosed`: an ordered cart is never OPEN again, so a second order
  from it comes only from a checkout that had found it before.
* `HistoryKept`: no DELETE, whatever it cascades to and sets to NULL, removes a
  reservation, booking, sold item or device, or parts it from its rows.
* `OpaqueErrorsAreRaces`: a client that inserts or updates gets a 500 only if a
  row it had read has been deleted since.
* `EveryRowListed`, `NoRowTwice`: a finished walk has listed every matching row
  nobody touched; only a row whose sort key changed is listed twice.

### Fairness

`Orders!Fairness` has strong fairness of each request's steps: the handler is
scheduled, and a statement that waits for a row is granted it when the row
becomes free again and again, because PostgreSQL queues waiters in order of
arrival. Each deadlock is resolved (weak fairness of `DeadlockVictim`). No
fairness makes requests start, or makes them die. `PosSync!Fairness` has weak
fairness of each request's steps and of time, and strong fairness of a new
push of an intent: the device repeats it until it has an answer, which is the
at-least-once delivery that `pos-operation.service.ts` is written for.

### What the violated runs show

* `orders_restock`: `order.service.ts:332-337` promises that restock returns
  units to exactly the pool they came from. The PosSale row that names the
  pool is written after the order can be cancelled, and then the units of the
  store go to the global pool. `UnitsConserved` still holds: no unit is lost,
  it is in the wrong pool.
* `pos_sync_race`: a rejection asks only that the intent is PENDING, not that
  it is unclaimed. A second sync that validates after the winner took the last
  unit rejects the intent, the winner's order stays PAID, and the device is
  told REJECTED. `pos-sync.service.ts:177` calls this impossible.
* `pos_sync_twice`: the class comment at `pos-sync.service.ts:59-77` promises
  exactly-once execution because the engine is atomic. It is four
  transactions, and the result a fifth: a crash after the capture and the
  recovery of the stale claim sell the intent twice.
* `schedule_revived`: `reservation.service.ts:84` calls CANCELLED rows immutable.
  A transition checks the status it has read and writes by id: a start that
  read RESERVED makes a reservation ACTIVE that was cancelled meanwhile.
  `NoDoubleRental` survives, as the exclusion constraint refuses the write when
  the slot has been taken since.
* `owner_lost`: `member.service.ts:285-286` and `role.service.ts:57-58` promise
  that a tenant never loses its last active owner. Whether the lock is taken is
  decided on the membership as it was read: a request that is to make an admin
  an employee writes without the lock, although the admin has been made an owner
  since and the other owner has been demoted on a count of two.
  `OnlyStaleUnseats` says that this is the only way.
* `store_delete`: the migration that adds the POS tables says that the delete of
  a store with devices is blocked, "mapping to 409 in the application layer"
  (`20260821120000_add_pos_foundation/migration.sql:11-12`), after the precedent
  of `category.service.ts:178-181`. `deleteStore` (`store.service.ts:195`) catches
  nothing, and the client gets the 500 of `AllExceptionsFilter`. The row itself is
  safe: `HistoryKept` holds.

## Proofs

`OrdersProof` proves, for any constants that satisfy the assumptions of
`Orders` (pools and identifiers differ, quantities and opening stock are
natural numbers, deltas are integers) and, as it adds rows up, of `OrdersLedger`
(stores, orders and payments are finitely many; their number is any):

* `TypeCorrect`: `Spec => []TypeOK`. `TypeOK` is not inductive by itself: that
  `PlaceOrder` stores a status under an order needs the request to have an
  order. `WellShaped` says what a request at each label works on; `Typed`, its
  conjunction with `TypeOK`, is inductive.
* `PaidOnce`: `Spec => []PaidExactlyOnce`. The step that could break it is
  `CaptureOrder`, which commits a capture decided two statements earlier. It
  rests on the locks: `OrderLocks` (the order of an open cancellation is still
  PENDING, and no two open cancellations have the same) and `PaymentLocks`
  (the same for an open capture's payment) are inductive given `Typed`. From
  them `EveryMoneyStep` shows that whatever a step does to orders and payments
  is one of six moves (`MoneyStep`), each conditional on what it overwrites;
  `PaidInv` is preserved by each of the six.
* `SettledStays`: `Spec => SettledIsFinal`, from the same six moves.
* `CashSalePaid`: `Spec => []CashSaleIsPaid`. `CashInv` follows the request of
  a cash sale: the payment it captures is its order's, and past the capture
  the payment is CAPTURED, so by `PaidInv` the order is PAID. The six moves
  keep both (`MoneyStays`), whatever other requests do.
* `StockNeverOversold`: `Spec => []NeverOversold`. The condition of a
  decrement is checked when the row is written, the units leave the pool at
  the commit. `HeldInv` bridges the two: only requests inside a transaction on
  the inventory hold rows, no row is held twice, and the rows a decrement holds
  have the units it is about to take.
* `NoUnitLost`: `Spec => []UnitsConserved`. A cancellation gives back lines it
  read statements before; `CancelLines` says that they still are its order's.
  Then every step is a `UnitStep`: a payment, a placement that takes an order's
  lines from one pool, a cancellation that gives them back to one, or an
  adjustment that changes stock and supply of one row alike. `OnePoolChanges` and
  `OneOrderMore` say what each does to the sums over pools and live orders.
* `OrdersImplementLedger`: `Spec => ImplementsLedger`. `StepImplements` maps each
  `UnitStep` to the step of `Ledger` it is, or to none. That a payment is one
  receipt, on an order without any, is `PaidInv`; that a placement finds the
  units on hand in all pools follows from the one pool it takes them from, as
  by `NeverOversold` no other pool is below zero.

`Sums` proves what these need of a sum over a finite set: it does not depend on
the order of its terms, what it becomes when one term changes or is added, that a
sum of natural numbers bounds its terms, and that it can be taken over other
names of the same terms. Induction is stated about a set of good subsets
(`SubsetInduction`, from the well-founded order on finite subsets), which needs
no operator for a parameter. It gives the recursive function of which the
library defines the sum by CHOOSE, and that it is the only one.

`PosSyncProof` proves, for any number of requests, intents, orders and crashes:

* `TypeCorrect`: `Spec => []TypeOK`, strengthened by `Working`: a request at
  work has an intent, and a winner past createOrder has an order.
* `ResultsStay`: `Spec => ResultIsFinal`: the only two writers of a result ask
  for PENDING in the statement that writes it.
* `AcceptedTrue`: `Spec => []AcceptedIsPaid`. `SaleInv` says what a winner may
  rely on at each stage of the engine. `OrdersKept` shows that no step of
  anyone takes it away: an order keeps its intent, a PAID order stays PAID,
  although cancelOrder and other winners run at the same time.
* `ClaimIsSole`: `Spec => []ClaimSellsOnce`. `ClaimOK` says what the claim of an
  intent outside `disturbed` is still worth: without a claim there is neither a
  winner nor a live order; with one and no result there is exactly one winner,
  the claim is recent, and no waiter is about to clear it; a winner before
  createOrder faces no live order, one behind it no other than its own. Most
  steps are `Bystander`s of an intent: they change no winner and add no order.

`ScheduleProof` proves, for any number of everything and any horizon, the
properties of the run `schedule`: `ScheduleTyped`, `RentedOnce`,
`IntervalsStay`, `StaleOnly`, `BookedOnce` and `OrderKept` (under
`NoneAssumption`: None is neither a booking nor an order).

* The argument for each table is `RowStep`: whatever a step does to it is one
  write of one row that the constraints have judged, so a pair of rows that did
  not meet cannot begin to. What the requests have read plays no part, except
  in `StaleOnly`, where `WellShaped` remembers which status a transition has
  seen.
* `SchedulesRentals` and `SchedulesBookings`: every behaviour of the
  composition is one of either component, as each leaves the other's variables
  alone. What is proved of a component carries over.

`AccessProof` proves, for any users, tenants, permissions and requests, under
`Premises` (the bounds are natural numbers, a key is no marker, the first roles
are those of their tenant):

* `HeldIsGranted`: `Spec => [][OnlyHeldIsGranted]_vars` and `ManagersWrite`:
  `Spec => [][OnlyManagersWrite]_vars`. The inductive invariant `Inv` says that
  what the actor of a request under way holds is in `since`, that the memo of a
  request past AssertManage is in `since` and has role:manage, and that one
  about to write has been judged by that memo (`Judged`): its role is of its
  tenant, its keys are bounded. Every write of a role or a membership is then
  the work of an author the property accepts.

`IdentityProof` proves all eleven properties of the run `identity` for its
specification. Requests, members, tokens, devices, operations and sessions are
any; the two users and two tenants of `Access` are those `MCIdentity` names, and
`AccessAssumption` (bounds are natural numbers, a marker is no user's name)
gives `Premises`. `DevicesAssumption` adds that bounds are natural numbers and
that a registered device has a credential.

* `CountsHold`: `CountsStand` becomes inductive with `HeldOK` (rows are held
  only between count and write) and `Typed`. The writes are the steps that
  could break it: each waits for its row (`FinishKeepsCounts`), and nobody has
  locked the row of a user who is not a member yet.
* `StaleUnseats`: of two owners a locked write leaves one
  (`LockedWriteLeavesOwner`); a write that saw an active owner and takes no lock
  leaves an active owner (`OwnedWriteLeavesOwners`).
* `RotationsOnce`, `LiveOnce` and `LogoutHolds` are about `Tokens`. `RotatingOK`
  is what the row lock of the guarded update gives: the token of an open rotation
  is live and no other rotation or logout gets it; `LineageOK` ties the history
  to the rows. `TokensSound` and `TokensSingle` are inductive for the specification
  of `Tokens`, and the composition implements it.
* `HeldGrants` and `ManagersOnly` cite `AccessProof` through an instance of it.
* `RetiredStays`, `RepeatsAnswered` and `ReportsStand` need that a request at a
  label has what it works on (`DeviceAimed`). `ReportsStand` is that a sync's
  outcome is written to a row that is still PENDING, that this row keeps
  everything else, and that a push removes none.

`TablesProof` proves for `Registry`, `Catalog` and `Accounts`, with any names,
bounds and requests, that `TablesOK` always holds, and the action properties
`HistoryKept` and `OpaqueErrorsAreRaces`.

* `TablesOK` is not inductive: which statements may come is in the requests. The
  invariant `Inv` is `RowsOK` and `RequestsOK`. `RowsOK` (`Sane`) says that no
  number of an id is above the count of its table's ids, so a new id is new,
  that references are to rows of the tables the schema allows, that every
  reference leads to a row, that a price is its variant's, and that no tenant
  goes. `RequestsOK` says what each handler asks of a table (`Shaped`,
  `Asked`), and for putPrice which pair (`Priced`).
* The hard step is a DELETE with two levels of cascades. `Doomed` is closed under
  the cascades that can start at a table a service deletes (`Deletable`), since
  no third level exists in the schema; a row outside of it refers to a doomed one
  only by a key that sets to NULL or by one that refuses, and then nothing goes.
* `Lawful`, the two action properties together, follows for every step from
  `Inv`. A statement that fails with an error its handler does not map had
  found its rows when it resolved them (`Steady`: no step but a delete takes
  that back).

`RetailProof` proves all seven properties of the run `retail` for its
specification, for any requests, variants, bounds and names:

* `TypeCorrect`, `OrderedStaysClosed`, `OneRowPerVariant` and `Refines` are about
  `Cart`'s own specification. That a variant has one row is what the unique index
  gives, carried by `ItemsOK` through every statement. Only CreateCart makes a
  cart OPEN, and it takes one that has never been used; `OrderedOK` says that an
  ordered cart is not such a one. For `Spec => ImplementsBasket`, `Standing` says
  what a request knows at each label; one lemma per kind of write (`Table` for a
  write that leaves the items, `RowPut`, `RowTaken`) turns it into a write of
  `Units`, and one step per action names the step of `Basket` it is, or shows
  that it stutters.
* `RetailTyped`, `OrderedCartStaysClosed`, `CartServesBasket`, `HistoryStays`
  and `FailuresAreRaces` carry these and the theorems of `TablesProof`, once for
  each of its four instances, over to the composition.
* `WalkIsComplete` and `WalkRepeatsNothing`: `EveryRowListed` is about finished
  walks and not inductive. `Walked` is what holds between two pages: a matching
  row that nobody touched has been listed or is beyond the cursor, a row that
  did not move and is beyond it has not been listed, and none of these twice.
  It rests on the order being total (`PastOrders`: the id breaks ties) and, for
  the last row of a page, on a finite set having an end in it (`Ends`). TLC
  checked `ListingInv` on the run's instance before it was proved. Its
  assumptions are `ListingAssumption`: sort keys are ordered like numbers,
  bounds are natural numbers, and None is neither a tag nor a cursor.

### What the proofs changed

* `ClaimSellsOnce` could not be proved while the store's pool only drained: a
  winner that has found too little goes on to reject, and if it dies there
  its claim grows stale. In a pool that only drains the next sync finds too
  little as well. With `Restock`, which the code has, TLC found the second sale.
  A winner that found too little is therefore at a label of its own (`soldout`),
  where its death counts as that of a winner, as it does in the code.
* `Tables!Error` was a CASE whose guards overlap. TLA+ does not say that the
  first true guard is taken, TLC does, so the checked definition and the one a
  proof sees were different. It is an IF now, in the order the database has.
* Ids are of `AllTables`, where they were of STRING. `Registry`, `Catalog` and
  `Accounts` name their next-state relations apart, so that one module can
  extend all three.
* `OnHand`, `UnitsConserved`, `PoolsBalance` and the units of a cart are sums of
  functions, as the community module defines them, and no operators of their
  own. The premise that the rows are finitely many is stated.

### Only model-checked

* `RequestsFinish` and `RetriesSettle`: there is no rule for fairness and
  ENABLED.
* What the six runs that expect a violation show: a counterexample needs no
  proof.

## Plan

The modules above were written in the order of the most important behaviour
first: money and stock, offline sales, schedules, owners and sessions of users,
then carts, access, devices, catalog and lists. What is left:

1. What does hold of each pool by itself: `PoolsBalance` restricted to orders
   that were not cancelled before their provenance row, with the proof that the
   step `orders_restock` finds is the only way to put units in the wrong pool.
2. A general form of the theorems of `IdentityProof` that are about `Access` for
   the composition, by making its users and tenants constants of `MCIdentity`.
3. The refinement of `Members`' lock by the single step `Access` has.

## Not modelled

Controllers, DTO validation and module wiring hand a request to a service and
keep no state; of a page request `Listing` has the limit, the order and the
cursor. Health, Redis, logging and configuration are infrastructure. The seed
script and the migrations run once; the constraints they create are guards of
the modules, and what the seed leaves behind is the Init of `Access`. Columns
that are neither unique, nor a reference, nor a status some handler asks for
are left out everywhere. `pullFeed` reads a table (`PosFeedEvent`) that nothing
in the source writes. Reads that only show rows have no state to model, other
than the lists, the cart and the reconciliation reports. Password hashing,
token signing, the encoding of cursors and the constant-time comparison of
credentials are library calls.
