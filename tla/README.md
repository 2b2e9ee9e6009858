# tiny-threads in TLA+

Specifications of tiny-threads, a multi-tenant shop: a NestJS API (`apps/api`)
on PostgreSQL through TypeORM, and a React admin client (`apps/admin-web`).
TLC checks small instances of them and TLAPS proves theorems about them. Paths
below are relative to the repository.

Contents: [inventory](#inventory), [modules](#modules), [runs](#runs),
[disagreements](#where-code-and-documentation-disagree), [proofs](#proofs),
[what is not modelled](#not-modelled), [plan](#plan).

## Inventory

Every service call of the API is one PostgreSQL transaction at READ COMMITTED
(`db/tenant-db.ts`), opened with the tenant's id so that row level security
keeps tenants apart. Within a tenant, concurrency is between transactions: what
a call reads without a lock may be stale when it writes. `EntityManager.save`
writes only the columns that differ from what it re-reads, so two calls that
save the same row may each keep half of their own view, and it inserts a row
again that was deleted since it was loaded.

| Component | State | Operations | What is hard |
|---|---|---|---|
| Orders (`orders/`) | `orders` (three status columns, `expires_at`), `order_events`, `shipments`, `shipment_items` | confirm, complete, cancel (admin, customer), refund, ship | calls decide on statuses read without a lock |
| Checkout (`checkout/`) | `product_variants.stock`, `orders`, `carts` | checkout | row locks on several variants; provider called inside the transaction |
| Payments (`payments/`) | `payments`, `settlements`, `refunds`, `order_events.provider_event_id` | charge, refund, capture webhook | webhooks early, late, twice and concurrent; money moves before commit |
| Expiry (`scheduler/`) | `orders.expires_at` | job every five minutes | its locked read; an error of it is only logged |
| Carts (`carts/`) | `carts`, `cart_items` | get or create, add, set, remove, merge at login | two first requests; merge against a concurrent change |
| Sessions (`customers/`, `merchant-admins/`) | `*_refresh_tokens`, reset hash | login, refresh, logout, reset | a token used twice; revocation of a family |
| Customer accounts (`customers/`) | `customers`, `customer_identities` | register, verify, Google sign-in, Google link | callbacks of one Google account at once; unverified passwords |
| Staff accounts (`merchant-admins/`) | `merchant_users`, identities, invites | invite, register, verify, Google sign-in, the owner script | one invite presented twice; two invites of one email |
| Sign-in with Google (`oauth/`) | tenant in the context, one-time codes in memory | callback, exchange | one callback for all tenants, which waits for Google |
| Products (`products/`) | `products`, `product_variants` | create, update with variants, variant calls, archive, delete | whole entities saved against sales; default marks |
| Images (`products/`) | `product_variant_images`, objects | upload, create, update, reorder, delete | object and row are not one transaction |
| Categories (`products/`) | `categories` | create, rename, move, delete | the cycle check reads ancestors one by one |
| Addresses (`customer-addresses/`) | `customer_addresses` | create, edit, delete | one default of each kind |
| Avatars, locale (`*-avatar.service.ts`, `storage/`) | columns of the user, one object | upload, delete, change of language | object and row; whole entities saved |
| Tenancy (`db/`, `common/middleware/`, `scripts/`) | tenant in the context, settings of connections, the pool | every call, `create-tenant.ts` | connections and process shared by all tenants |
| Image uploads (`admin-web`) | list of images, tasks, limiter | add, retry, remove, reorder, hydrate, wait | late answers, closures over old items |
| Client session (`admin-web`) | cookies, Redux slice, cache of `getMe`, refresh lock | queries, uploads, logout | one refresh for many requests; loops of resets |
| Product list (`admin-web`) | URL, input, debounce, cache | type, select, page, Back | text that arrives after the URL has moved on |

Components interact through the database, with these exceptions: checkout
and cancellation call the payment provider inside their transaction; the
provider calls back through the webhook; image and avatar services call
the object storage before and after their transactions; the Google callback
passes a session to a site through a one-time code in the memory of the
process; the client retries a request after a refresh.

What makes each component correct is in `PROJECT.json` under `hazards`, at the
line where it could go wrong, with the properties that watch it.

## Modules

| Module | Models |
|---|---|
| `OrderStatus` | the status columns, transition tables and `deriveFulfillmentStatus` |
| `Orders` | checkout, order operations, payments, webhooks and expiry as interleaved transactions |
| `OrdersSafety` | properties that hold for some workloads of `Orders`, fairness, liveness |
| `Carts`, `CartsSafety` | carts and their items as interleaved transactions, up to checkout; properties and refinement mapping |
| `CartBags` | what carts promise: one bag of units per owner |
| `Sessions` | the refresh tokens of one account: login, rotation, logout, password reset |
| `CustomerAccounts`, `MerchantAccounts` | who has an account, and by which proof |
| `Handoff` | the Google callback of all tenants and the one-time codes |
| `Profiles`, `Addresses` | the row of a user with its avatar; an address book |
| `Products`, `VariantImages`, `Categories` | the catalogue of one tenant |
| `Tenancy` | whose rows a call reaches, and the pool of connections |
| `Uploads`, `AdminSession`, `ProductFilters` | the admin client |
| `MCOrders`, `MCCarts`, `MCSessions` | instances for TLC |
| `MCCatalogue`, `MCPeople`, `MCClient` | instances of several components each |
| `OrdersProofs`, `CartsProofs`, `SessionsProofs`, `PeopleProofs`, `ClientProofs`, `ProductsProofs`, `CatalogueProofs` | proofs |
| `Sums` | lemmas about sums over finite sets and smallest sets, for the proofs |

All the modules of the API have the same shape. A connection (or a call) `t`
runs one service call at a time; `tx[t]` is its transaction: the program
counter, the entities in memory and what it has written. Nothing of it reaches
the tables before `Commit`; an exception or a crash (`Fail`, `Abort` and the
like) forgets it. An action is one SQL statement, or several that no
other transaction can come between with a different result. A history variable
is named as such where it is declared.

### Orders

| Code | Actions |
|---|---|
| `CheckoutService.checkout` | `BeginCheckout`, `TakeStock`, `InsufficientStock`, `PlaceOrder`, `PaymentDeclined`, `ConvertCart`, `Commit` |
| `OrdersService.transitionStatus` | `Confirm`, `Complete`, `BeginCancel`, then `ComputeDiff`, `UpdateRow`, `Commit` |
| `cancelOrder`, `customerCancelOrder` | `BeginCancel`, `BeginCustomerCancel`, `RestoreStock`, `SettleByRefund`, `SettleWithoutRefund` |
| `refundOrder`, `PaymentsService.refundPayment` | `BeginRefund`, `CheckRefund`, `RefundRejected`, `SendRefund`, `LabelRefund` |
| `createShipment` | `BeginShipment`, `InsertShipment`, `ShipmentRejected` |
| `handleWebhookEvent` | `BeginWebhook`, `HookPayment`, `HookOrder`, `RecordEvent`, `DuplicateEvent` |
| `OrderExpiryService` | `BeginExpire`, `ExpiryRefused` |
| `manager.save(order)` | `ComputeDiff` (its SELECT), `UpdateRow` (its UPDATE, which waits for the row) |
| PostgreSQL | `StockFree`, `RowFree`, `EventFree`, `WaitsFor` |

- Carts are fixed: which lines a cart has is the constant `Basket`. What carts
  do before checkout is the module `Carts`, merchants' edits of stock are in
  `Products`.
- Payments end as captured, pending or declined, the three results of the mock
  provider. `authorized`, `paid`, `partially_captured` and `voided` are handled
  by code that no stored status reaches; `TypeOK` shows they never appear.
- The expiry job asks for the expired orders with their items `FOR UPDATE`.
  PostgreSQL refuses `FOR UPDATE` on the nullable side of an outer join, which
  this query has, whether there are expired orders or not (`ExpiryRefused`). What
  the code does with the orders it would get is never reached and is not
  modelled; the repository's tests of it mock the manager.
- The key-share lock that an insert takes on the order it refers to conflicts
  with no lock that is left, and is not modelled.
- `WaitsFor` has every wait for another transaction: for variants, the payments
  row (webhooks), orders, carts, and the unique index of provider events.
- `moved` and `net` are history variables: the units that committed
  transactions took.

### Carts

`getCart` and `mergeCart` are one transaction; adding, setting and removing an
item are two, the first of which finds or creates the cart (`CommitCart` ends it
and starts the second).

| Code | Actions |
|---|---|
| `findOrCreateCart` | `FindOrCreate` (in `BeginGet`, `BeginAdd`, `BeginMerge`), `InsertCart`, `LoseRace`, `Reread` |
| partial unique indexes of `carts` | `IndexFree` (an insert waits for rivals), `Taken` |
| `addItem` | `ReadCart`, `CartGone`, then `SelectItem`, `InsertItem`, `UpdateItem`, `Commit` |
| `getActiveCart` and `applyItemQty` | `BeginSet`, `FindItem`, `DeleteItem` or the save as above |
| `mergeCart` | `BeginMerge`, `ReadGuest`, the saves, `CompareCart`, `UpdateCart`, `Commit` |
| `CheckoutService.checkout` | `BeginCheckout`, `CompareCart`, `UpdateCart`, `Commit` |

- An item has an id, the number of the request that inserted it, because save
  finds rows by id: an item removed and added again is another row.
- `manager.save(cart)` gets a cart with its items loaded. TypeORM compares them
  with the table and takes a row it was not given for one removed from the
  relation; clearing its `cart_id`, which is not nullable, fails, and with it
  the transaction (`CompareCart`).

### Sessions and accounts

| Code | Actions |
|---|---|
| `login` | `BeginLogin`, `Issue`, `Commit` |
| `refresh` | `BeginRefresh` (its SELECT), `Consume` (the conditional UPDATE), `Issue`, `Commit`; on reuse `StartBulk`, `RevokeRow`, `ReuseDetected` |
| `logout` | `BeginLogout`, `StartBulk`, `RevokeRow`, `EndBulk`, `Commit` |
| `requestPasswordReset`, `resetPassword` | `BeginRequest`; `BeginReset`, `CompareIdentity`, `UpdateIdentity`, then as `logout` over all tokens |
| `register`, `verifyEmail` | `BeginRegister`, `InsertCustomer` or `InsertUser`, `InsertPassword`; `BeginVerify`, `Verify` |
| `findOrCreateFromGoogle`, `linkGoogleIdentity` | `BeginGoogle`, `Lookup`, `Prove`, `InsertGoogle`; `BeginLink` |
| `inviteMember`, `create-owner-user.ts` | `InviteMember`, `CreateOwner` |
| `GoogleOAuthController`, `OneTimeCodeService` | `Handoff`: the steps of the callback, `Exchange`, `Expire`, `Restart` |

- `Sessions` is one account, a customer's or a merchant admin's: the two
  services repeat each other's statements. A token belongs to a family, the
  sequence of tokens that one login leads to.
- An UPDATE of many rows sees those committed when it starts, and locks them one
  by one, in any order (`RevokeRow`): two of them can block each other, and
  `Abort` stands for the one that PostgreSQL kills.
- `ReuseDetected` undoes the revocation: the exception leaves `tenantDb.run`.
- An insert waits for a transaction that has taken the same value of a unique
  index (`Others`), then fails if that transaction has committed.
- Calls that are refused before they write change nothing and are left out.
- In `Handoff` a request waits, for the database or for Google, between its
  steps; other requests of the process run meanwhile. `cls` is a context per
  request (`AsyncLocalStorage`), which the mutant makes one for all. A restart
  loses the codes, which are kept in memory.

### Catalogue, profiles and addresses

| Code | Actions |
|---|---|
| `ProductsService` | `Products`: one `Begin` per operation, then the statements of its demotions, saves, deletions and promotion; sales in between |
| `ProductVariantImagesService`, `createWithImages` | `BeginUpload`, `Store`, `Open`, `Demote`, `Compare`, `Write`, `Commit`, `Unlink`, and `BeginUpdate`, `BeginDelete`, `BeginReorder`, `BeginCreate` |
| `CategoriesService` | creation, renaming, deletion, and a move that climbs the ancestors of the new parent one query at a time |
| `CustomerAddressesService` | demotion of the other addresses, then the save |
| avatar services, `MerchantAdminLocaleService` | store, save, delete the object |
| `manager.save` | `Compare` (its SELECT), `Write` (UPDATE of the columns that differ, or INSERT when there is no row) |

- `Products` is one product. An update matches the elements of its list with
  variants by id, then by SKU; what matches none is deleted.
- Images are numbered in the order in which their ids are drawn; galleries
  start as uploads one after the other leave them.
- The object storage keeps, replaces and deletes objects by key; what a call
  does to it is not undone when its transaction is.

### Tenancy

`cls[c]` is the tenant in the context of call `c`, `current[k]` and `bypass[k]`
the settings of connection `k` that the policies read, `rows` the rows of all
tables that have a policy.

| Code | Actions |
|---|---|
| `TenantResolutionMiddleware` | `Resolve` |
| `PaymentsService.resolveTenantId` | `BeginLookup`, `SetBypass`, `FindAccount`, `FindNamed` |
| `OrderExpiryService` | `ListTenants`, `NextTenant` |
| `withTenant` | `Run`, `Begin`, `SetTenant`, `Commit`, `Throw` |
| statements of a service | `Find`, `Insert`, `GetSettings` |
| pool and database | `TimeOut` (`connectionTimeoutMillis`), `Lose`, and `EndOn`: both settings end with the transaction |
| `create-tenant.ts` | `AddTenant`, `InsertTenant`, `CommitTenant`, `CrashScript` |

- What `by` says of a row is no column: the tenant on whose behalf it was written.
- `Empty`: once a transaction has set it locally, `app.current_tenant` is an
  empty text for the rest of the connection, not NULL. A query without context
  then raises on `''::uuid`; it does not return nothing, as
  docs/architecture/architecture.md:96 and the comment in `rls.helper.ts` say.
- `resolveTenantId` finds a configuration by `account_ref` alone, which is not
  unique, whatever the provider and also when it is not `enabled`. When there is
  none, or the query fails, it looks for a tenant whose host, name or id is the
  account. `FindAccount` and `FindNamed` so take any set of tenants for those that
  the account points at, and any one of it for the tenant of the call. With two,
  a webhook may work for the wrong one: `TenantsApart` says that it works for one
  of them (`points`), and keeps to it. No code under `src` writes
  `payment_provider_configs`.
- The transactions of the expiry job can only throw (`Works`), as in `Orders`.

### The admin client

`Uploads` is `useImageUploadManager` for one variant: `items` is what the form
lists, `tasks` the uploads as p-limit starts them. A task knows the item it was
started for only by its file. `AdminSession` is one tab: `req` the requests,
`joined` those that wait for a refresh another has started
(`refresh-session-lock.ts`), `resets` the resets of the cache that are due. Of
the server it keeps the tokens. `ProductFilters` is `useProductFilters` with the
list page: `url` is the address bar and `seen` what the last render saw of it,
because React Router renders in a transition and handlers build on `seen`.
Requests for the list and for the categories fail as well (`Refuse`,
`CategoriesSettled`): the page looks at `data` only (ProductListPage.tsx:80-82), so
the list of the last answered query stays under filters whose own request has
failed, until the query changes; without categories no category filters.

## Runs

| Run | Instance | Shows |
|---|---|---|
| `OrdersSerial` | 1 connection, 2 orders, 2 carts sharing a variant, 5 calls, 1 crash, all operations | the operations are right one at a time |
| `OrdersRace` | 3 connections, 2 carts with both variants and stock for one of them, 2 refund amounts, 4 calls, all operations | what locks and the unique index protect; no deadlock |
| `CartsSerial` | 1 connection, a customer and a guest, 3 carts, 2 variants, 4 requests, 1 crash | `Carts` implements `CartBags` |
| `CartsRace` | 2 connections, a customer and a guest, 3 carts, 1 variant, 4 requests, 1 crash | one active cart per owner; nothing is counted twice |
| `CatalogueRace` | 2 calls at a time: 4 variant ids and 3 calls on a product with sales between, 3 images and 3 calls, 3 categories and 5 calls, 2 tenants on a pool of 1 or 2 connections and 2 calls; 1 failure | defaults, stock, lists, images and objects, the tree; tenants apart, a pool that moves |
| `PeopleRace` | 2 calls at a time: 3 tokens in 2 families, 2 customers and 2 Google accounts, 2 invites, 2 sites and 5 requests with a restart, a user, an address book of 2; 3 to 5 calls, 1 failure | sessions, accounts, sign-ins, profiles and addresses under races |
| `ClientRace` | 2 files on 2 upload slots, 1 query and 1 upload with 2 token pairs, a list with 2 pages; 2 to 4 acts, 1 failure; fairness | late answers, one refresh, and that the client comes to rest |
| `OrdersRefundRace`, `OrdersExpiry`, `OrdersLifecycle`, `SessionsReuse`, `ClientStranded` | the smallest that shows it | [disagreements](#where-code-and-documentation-disagree) |

`CatalogueRace`, `PeopleRace` and `ClientRace` hold several components that have
no statement and no state in common: a behaviour is one of them, `part`, and the
others stay as they are. `Tenancy` and `Sessions` are the modules that the
composing modules extend, so that TLC evaluates their assumptions.

Bounds. Two calls at a time are enough for every race of two calls; `OrdersRace`
has three, so that a cycle of lock waits may be longer than two. One connection with five calls fits
the longest meaningful story (checkout, webhook, partial refund, refund, cancel)
on two orders. Stock is chosen so that one basket exhausts a variant. Three
tokens and four calls let a session be rotated twice and ended while another
begins. Five moves of three categories close every cycle there can be; three
images are the fewest of which two remain in an order when one is deleted; two
connections and two calls leave the pool empty with a call waiting, and one
connection makes a call follow another on the same one. In `CartsRace` there is
one customer: two customers who merge the same guest session at once both get
its items, and `NothingInvented` fails. Shipments of the passing runs name an
item once (`RepeatedLines`), and events are delivered any number of times while
requests remain. The scheduler's runs are not counted. The runs stop when the
calls are used up, hence `CHECK_DEADLOCK FALSE`; deadlock of transactions is the
invariant `NoLockCycle`, of the pool `PoolMoves`.

Symmetry is over values that the modules only compare for equality, and over no
value of a run with liveness.

Fairness. `OrdersSafety!Fairness`, of `OrdersExpiry`: a transaction that can run
its next statement again and again does (strong fairness: PostgreSQL queues lock
requests), and the job keeps coming back (`@Cron(EVERY_5_MINUTES)`), so that the
counterexample is not a system that has stopped. Service calls, crashes and the
clock get none. In the client a request that was sent is answered, with success or an error, and what
the event loop holds (debounce, renders, deferred resets) runs: weak fairness of
`UploadStep`, `Progress` and `Client`; the user and the expiry of tokens get none.

Every property of a passing run has a mutant: the operator named after it in
`PROJECT.json` replaces one definition by what a plausible bug would make of it,
and the property fails.

## Where code and documentation disagree

Each of these is a run that must end in a violation, with one property that
states what a document or a comment says.

| Run | What happens |
|---|---|
| `OrdersRefundRace` | overlapping refunds exceed the captured amount |
| `OrdersExpiry` | every run of the expiry job is refused its locked read, and expired orders stay pending |
| `OrdersLifecycle` | shipping everything completes a pending order, a move that neither the lifecycle of orders.md nor order-state-machine.ts has |
| `SessionsReuse` | the revocation of a family whose token is reused is rolled back |
| `ClientStranded` | an expiry that an upload discovers logs out, and the app stays shown |

The same models show more, by widening a passing run; these have no run of
their own:

- `OrdersRace` with `CancellationRefunds`: a capture between read and write of a
  cancellation leaves a cancelled order whose payment nobody refunds
  (orders.md:179-181). With `EventApplied`: a capture event that overtakes the
  commit of its checkout is recorded and has no effect, also when delivered
  again (payments.md:166-168).
- `OrdersSerial` with `RepeatedLines <- Repeat`: a shipment that names an item
  twice ships more than was ordered (`ShipmentsAddUp`, orders.service.ts:375).
- `OrdersSerial` with two connections: overlapping cancellations restore stock
  twice (`ShelfOrOrder`), a confirmation overwrites a committed cancellation
  (`ClosedStays`), overlapping checkouts of one cart create two orders
  (`OneOrderPerCart`).
- By reading: a capture webhook leaves `expires_at` set, writes no settlement and
  relabels a refunded order captured; a refund whose transaction fails has been
  paid out and is not recorded.
- `ListApplied` says nothing of an update with an empty list. There
  products-and-categories.md:70-73 says that deleting the only variant through the
  bulk update is rejected with `VALIDATION_FAILED`; `LoadNone` is what the code
  does (products.service.ts:614-630): it deletes every variant and creates one.
- `CartsRace` with the property of `CartsSerial` (`BagsHold`): two concurrent
  `addItem` lose one quantity, although carts-and-addresses.md draws
  `qty += qty`; a merge turns a cart that has just been converted into an
  abandoned one and keeps its items.
- `Sessions` without the exception for late tokens: a refresh or a login that
  overlaps a reset commits a token that the reset did not see, although
  authentication.md:90 says that a reset revokes every refresh token; so does a
  refresh that overlaps a logout (`EndedStaysEnded`). A reset that waits for a
  concurrent request for another reset removes the new token with the old one
  (`UpdateIdentity`).

What the guards of a property excuse happens in the code:

- Accounts: linking a Google account again, or a second one, ends in a unique
  violation (500), as does the loser of two concurrent creations; a verification
  token is never sent again; the session of a one-time code that nobody redeems
  stays live.
- `OneDefault`, `ListApplied`, `StockKept`: `update` may match one variant
  twice, calls that overlap leave two defaults or none, and an update that loaded
  a variant before a sale writes its old stock when the request names one. Saving
  the product with its variants fails when another call has added one. The API
  description of `DELETE` ("Deletes a product and its options and variants",
  merchant-products.controller.ts:176) is of a call that archives.
- `ObjectsMatch`, `OnePrimary`: an update or a reorder inserts a deleted image
  again, without its object; `createWithImages` leaves objects behind when its
  transaction fails; overlapping calls leave two primary images or none, and
  `isPrimary: false` leaves none.
- `AllShown`: two moves that overlap can close a cycle, and a rename that overlaps
  a deletion restores the category. `DefaultAsChosen`: overlapping calls leave two
  defaults. `ProfileKept`: a deletion that crosses an upload leaves a URL without
  its object.
- The client: `AdminSession` loses its session when the answer to a refresh is
  lost, because the retry reuses the token, and two tabs share the cookies but not
  the lock. In `Uploads` a refetch during an upload lists an image twice; a failed
  deletion after a refresh appends a duplicate; an upload that was aborted may
  be stored. In `ProductFilters` a handler that runs between a navigation and its
  render overwrites the change of the other, and after a failed request the old
  list stays under the new filters.

## Proofs

Each theorem is about the `Spec` of the module it extends (in `PeopleProofs`, for
`AdminSession` and for `VariantImages`, of the instance), for every value of the constants that the
named assumptions of that module admit.

`OrdersProofs`: `TypeCorrect`, from the inductive invariant `TInv`. `TypeOK`
alone is not inductive: a transaction writes to the payment, event and shipment
tables at `tx[t].o`, which must then be an order id. `Charged` says when it is:
transactions work on, lock and store only orders the provider has accepted a
payment for. There is a lemma per action or group of actions that constructs
the new transaction record, shows its type and `Fits`, and cites
`StatementType` or `RequestType`.

`StockConserved` and `WebhookIdempotent`, in the same module, come from
`LockInv`: what each transaction knows of the committed rows it holds (`Own`) and
that no two transactions hold the same row (`AllApart`). A commit
then changes only rows that no other transaction knows anything about. `LockInv`
extends `TInv`; the lemmas `LocalStep`, `FreshStep` and `QuietStep` deal with
the steps that touch no shared row.

`OrdersProofs` also has the theorems with hypotheses, each of which is a fact
about a workload and has a run:

- `HandlersNeverDeadlock` (`NoLockCycle`), for finitely many connections and
  every operation. `OrderlyInv` says in which order a transaction takes its locks:
  variants by their ids, then the payments row, the orders row, and the event or
  the cart, after which it commits. In a finite set of transactions that wait for
  each other, the one that waits for what comes last in this order would have to
  wait for a holder that waits for something later still.
- `RefundsBounded`, `CartOrderedOnce`, `EventReachesPayment`, `ClosedForGood` and
  `CancellationPaysBack`, for one connection, from `SerialInv`. `Books` relates
  the tables to each other (captured, refunded, shipped, events, status); `Stage`
  says, for each point of a transaction, that what it has read is still what the
  tables hold and that what it has written would keep `Books`; `Elsewhere`, that
  every other order is well. With two
  connections they are false: `OrdersRefundRace` is the counterexample to
  `RefundWithinCapture`, the others are [above](#where-code-and-documentation-disagree).
- `ShipmentsCounted`, for one connection and shipments that name an item once
  (`RepeatedLines \subseteq {NoLines}`): the code checks each line against what
  is left by itself.
- `UnitsAccountedFor` (`ShelfOrOrder`), for one connection and finitely many
  orders, from `ShelfInv`: units that have left the shelf are in an order that is
  not cancelled, or between the two in the transaction at work (`Outstanding`). It needs that the sum over orders changes by what one
  order changes, which is in `Sums`: induction is out of the prover's reach, and
  the sum of a finite set is shown by taking a smallest subset for which the
  claim fails (`Smallest`).

`CartsProofs`: `CartsTypeCorrect` and `CartUnique`, from `CartInv`.
`OneActiveCart` alone is not inductive: a transaction that has inserted a cart
publishes it later. `MadeAlone` says that its owner has no active cart in the
table and no rival has inserted one, which `InsertCart` establishes through the
unique index and every commit of another transaction keeps.

`NoUnitInvented` (`NothingInvented`), for one customer and one session
(`OneOfEach`, see [above](#runs) for why) and any number of connections, from
`AskedInv`. What a request has read is old when it commits, so the invariant
bounds what it is *about* to make of its cart (`Offer`) by what was asked for and
what it adds itself (`Cost`): alone (`Fair`), together with any other active
cart, and together with what another request is about to make of a second cart
(`FairTwo`). The guest's cart that a merge takes its items from does not count
beside the merge (`Closes`): either the merge abandons it, or it has ended
already. `ReadGuest` is the step that needs one customer and one session: the two
carts of the merge are then the only ones in use.

`BagsImplemented` (`BagsHold`), for one connection (`OneConnection`), from
`SerialInv`: for each statement of a request what it has read, what it will save
and what has been written so far, in terms of the tables (`Stage`). `Now` is the
refinement mapping, the bag of each owner's active cart; a commit is one step of
`CartBags` (`NextBag`) and everything else a stutter.

`SessionsProofs`: `RotationExclusive` and `SessionsSurvive`, from `SessionInv`,
which adds to the two properties what calls under way know (`Flow`, `Grounded`)
and that no two have locked the same row, issued the same token or started the
same family (`Apart`). So a refresh that has consumed its token is the only call
to hold it, its commit replaces the one live token of its family by another, and
a commit that revokes without issuing also ends the family. `EndedForGood`, from
`EndedInv`: a logout or reset that has swept the table has met every live token
of its family but the late ones (`Swept`), and a call that is to issue a token in
time has seen no end of its family (`Sound`).

`PeopleProofs`: one invariant per component.
`HandoffInv` follows a sign-in from the site where it began to the code that
hands it over. `CustomerInv` says of every call under way what the tables hold
for the account it has found and that the unique indexes leave one row per email
and per Google account. `StaffInv` counts invites, users and the calls that
consume one. `ProfileInv` says which avatar a call has stored and which it may
delete; `BookInv` which address a call has marked last, as long as no two calls
met over a mark. `PeopleSafe` joins the six theorems for the specification that
`PeopleRace` runs. The assumptions are that there is a tenant and an email, and
that nobody has no role.

`ClientProofs`: `RefreshedOnce`, from `SessionInv`: one refresh is in flight at a
time, and the cookie has been used only while its successor is on the way, unless
an answer was lost. `IdleCovers` and `OnlyListedSent`, from `UploadInv`: items and
tasks that have not ended each name a file once, an item that is queued or
uploading has such a task (`Covered`), and `waitForIdle` waits for those of the
files it is to await (`Awaits`).
`NothingDropped` follows from the same invariant. `Uploads` works on sequences,
of which the provers know little: `Filter` is written out in `Uploads` because
they do not look into `SelectSeq`, `FilterPicks` says what it returns by an
argument about the least position where it would not, and a drag is shown to be
a permutation. The assumption is that `Files` is finite.

`CatalogueProofs`: `TenantsKeptApart` and `PoolNeverWaitsForItself`, from `IInv`.
Besides types it says that a call which was admitted works for the tenant of its
host, of its turn, or the one its account was resolved to, which is one of those the
account points at; that its connection carries that tenant exactly while it works
(`Faithful`); that no two transactions have the same connection and no call
without a transaction has one (`Borrowed`), and that a tenant is never without
its settings (`Furnished`). `OneCall` reduces the step of a call to its own part of
`Faithful` and `Borrowed`, given that it changes no connection of another
(`Aside`). The assumption is that `NoConn` is no connection and that the bounds
are natural numbers.

In the same module, `ImagesAndObjects` (`ObjectsMatch`), from `ImagesInv`: each
call has a shape (`Shape`), rests on something in the table and the storage
(`Linked`: an image it brings has no row yet and its object is stored before the
row is written; an object it is to delete has no row, or one put back), and two
calls share neither a row that one has written nor an image that one brings
(`Apart`). `Stocked` then says whose an object is: a row's, or a call's under way.
`MarkOnOne` (`OnePrimary`), from `ImagesInv` and `MarkInv`: as long as nothing has
overlapped, one transaction is open at most, and `Alone` says of it what the table
would be like if it committed there. For an upload or an update: which rows have lost the
mark, and that only its own image may carry it; for a deletion: that the mark
has gone to another image or there is none. The table it started from is `Well`,
so the table a commit leaves is (`AloneCommit`). The assumption is that image ids
are bounded by a natural number and positions are integers.

In the same module, `TreeComplete` (`AllShown`), from `TreeInv`: no set of
categories is a trap, one whose members all have their parent in it (`NoTrap`).
That alone is not inductive, because a rename writes back what it has loaded: it
may revive a category deleted since, or restore its parent. So the parents that
renames under way may bring back count as well (`Nodes`, `Leads`). A new category
has no children, so no trap holds it (`CommitGrows`); a rename or a deletion adds
no way to what was counted (`CommitShrinks`); a move rests on the ancestors its
walk has met, which are still what it has read as long as only creations were
committed since (`Climbed`, `CommitMoves`). The assumption is that `NoCategory` is
no category.

`ProductsProofs`: `StockNotLost` (`StockKept`), from `ProductInv`: each call has a form of its own
(`Formed`), and what it knows of a stock is still so (`Tracks`): a variant it has
loaded has the stock it was loaded with, unless a sale or another commit touched it
since, which is what `crossed` records. A save compares what it is given with the
row before it writes, so a stock that the request does not name is written only
when it was crossed. `DefaultOnOne` (`OneDefault`) and `ListTakenOver`
(`ListApplied`), from `ProductInv` and `ListInv`: as long as calls do not overlap
and no list named a variant twice, `AloneOn` says for each operation what its
statements have done so far: an update leaves the variants of its list with the
SKUs asked for and one default among them (`Listing`), a created or updated variant
has the mark and the others lost it, or nothing changed (`Marking`), a deleted
one's mark goes to another (`Removing`). That a list has one default
(`FirstDefault`) is an argument about the first element that claims it (`Least`).
The assumption is that lists are sequences of requests no longer than there are
ids, and that the SKU of the variant created for an empty list is one of the SKUs.

`CatalogueSafe`, in `CatalogueProofs`, joins what is proved of Tenancy,
VariantImages, Categories and Products for the specification that `CatalogueRace`
runs.

Model-checked only: liveness, that is `UploadsSettle`, `ComesToRest` and
`FiltersAgree`. Every invariant that a passing run checks is proved.

## Not modelled

- Payments: capture, void and partial capture of authorized payments (no call
  stores that status), the fee split (arithmetic on one amount), parsing and
  signatures of provider events.
- Products: prices, option values and the links to categories, which no property
  tells apart; creation is one step. Reads and lists change no state.
- Tenant settings: the update of columns of one row by one save.
- Storage adapters and image processing: one store that keeps, replaces and
  deletes objects by key, and may fail. Resizing is pure.
- The admin client beyond the three modules: the primary mark and previews of
  uploads, forms, the create page's submission beyond waiting for uploads,
  rendering.
- Guards that only read (roles, JWT, validation of request bodies), email,
  configuration, logging, the mapping of errors to responses. The constraints
  and indexes that migrations create are part of the modules that rely on them.
- Secrets: tokens and codes are values that nobody guesses.

## Plan

Done: the order core, carts, sessions, accounts and sign-in, the catalogue,
profiles and addresses, tenancy, the three state machines of the client. Left:

1. A ledger of stock that `Orders` and `Products` both implement, and money that
   moved at the provider against what the tables say.
2. Two tabs of the client that share cookies; a reset of the cache in one of them.
