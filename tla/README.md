# POI Hub: specification, model checking and proofs

POI Hub is a multi-tenant back office for merchants of the WeChat "local life"
and "service POI" platforms. Its FastAPI process answers browsers and platform
callbacks; worker processes carry out the commands that the API has queued in
the database. Everything that is hard in it happens between those two kinds of
process, the database and a platform that answers late, twice or not at all.

This directory has TLA+ modules for its core, TLC runs over small instances of
them, and TLAPS proofs. Paths are relative to `src/backend/poi_admin/` unless
they begin with `src/`.

1. [Inventory](#1-inventory)
2. [Modules and plan](#2-modules-and-plan)
3. [How the modules abstract](#3-how-the-modules-abstract)
4. [Module by module](#4-module-by-module)
5. [Runs, bounds and fairness](#5-runs-bounds-and-fairness)
6. [Disagreements found](#6-disagreements-found)
7. [Proofs](#7-proofs)
8. [Not modelled](#8-not-modelled)
9. [Running it](#9-running-it)

## 1. Inventory

### Processes and how they interact

- **API process** (`main.py` and the routers). Each request has a database
  session of its own; it reads, checks, and commits. A command for the platform
  is queued as a row of `integration_operations`.
- **Worker process** (`worker.py`). `concurrency` slots in one event loop; each
  slot takes turns between a callback and an operation, with a session per item.
  SQLite deployments are confined to one slot (`worker.py:61-62`), PostgreSQL
  deployments are not.
- **Platform** (outside `src/`). It is called through gateways
  (`connections/*_live.py`), reviews what it was sent in its own time, and
  reports through callbacks (`webhooks/router.py`) that it repeats until they
  are answered.
- **Database**. The only thing the processes share. No row is locked across two
  statements except by the claim and by a manual retry, and the tenant's row by a
  change of its status (`FOR UPDATE`); rows written through ORM objects are written
  `WHERE id = ?`, for the columns that differ from what the session loaded.

### Components

| component | state | operations | what makes it correct |
|---|---|---|---|
| operation queue (`operations/service.py`) | row: status, owner, lease, attempts, next attempt | enqueue, claim, renew, mark succeeded or failed, manual retry | one owner per lease; retries within the budget; nothing stranded; outcomes final and audited |
| worker slots (`operations/worker.py`, `worker.py`) | what a slot is at, its heartbeat task | run one item, heartbeat, shutdown | a slot that lost its row changes nothing; shutdown returns the row |
| webhook inbox (`webhooks/*`) | event row, as above; tenant rows it changes | ingest, claim, apply, mark, manual retry | stored once; applied once unless disturbed; settled in the end; final |
| inventory (`local_life/products.py`) | desired stock, mirrored stock, version | update stock, set stock on the platform | the newest desired stock wins everywhere |
| product lifecycle (`local_life/products.py`) | desired and remote status, version | create, update, list, delist, delete, cancel, callbacks | the row says what the platform has; no stale intent is carried out; operators are never locked out |
| voucher consumption (`local_life/vouchers.py`) | state, last request number | consume, revoke, reconcile after a timeout, issuance callback, sync of the order | a voucher's mirror has the platform's state; one store's consumption is not taken for another's |
| service POI mirror (`stores/operations.py`, `stores/service.py`) | rows under an application's or a store's id | apply, synchronize, update, delete, refresh | the mirror is the platform's list; the row of an application is carried over |
| stores, candidates, mappings (`stores/service.py`, `stores/router.py`) | stores with versions, suggestions, mappings | create, edit, archive, generate, dismiss, confirm, unbind | mappings one to one; no lost edit; dismissals and history kept; the licence's limit |
| idempotent enqueue (`operations/service.py:103-143`) | the key's unique index, the caller's session | enqueue under a key | one row per key, which is the one that was asked for; a request that loses leaves nothing behind |
| order mirrors (`local_life/orders.py`) | orders, after-sales cases, an order's voucher and its state | synchronize one, issuance callback | a row is one answer of the platform, given after the request |
| accounting (`local_life/accounting.py`) | fund entries, bills | paged import, reconciliation | each id once, no page skipped; a summary without findings is true |
| identity (`identity/*`, `core/security.py`, `core/permissions.py`) | the tenant's status, users, memberships, invitations, sessions | sign in and out, rotate, create and suspend a tenant, invite, accept | an invitation is used once; a revoked session is dead; a suspension holds; the audit trail is true |
| connections and tokens (`connections/service.py`, `tokens.py`) | encrypted credentials, cached tokens | edit, obtain a token, rotate a refresh token | a rotated refresh token is not lost |
| gateways (`connections/*_live.py`, `wechat_http.py`) | none | one call each | which failures are transient |
| audit, dashboard, licence, configuration | append-only log; none; claims; settings | record; count; check | |
| frontend, migrations, scripts, seed | | | clients and equipment |

### What is hard

- *Interleaving and stale state.* Most writers load, decide, and commit later;
  only the claim, the marks, `update_store` and the unique indexes compare at
  the moment of the write.
- *Crash and repetition.* A slot may die between the platform's effect, the
  commit of the mirror and the mark of the operation; the lease brings the
  command back.
- *Delivery.* An answer may be lost, a call may arrive after its timeout, and a
  callback may come late, twice or after a newer one.
- *Liveness.* Leases, back-off, the attempt limit and manual retries together
  decide whether each row is settled.

`PROJECT.json` lists each hazard at its line, with the properties that would
catch it, or says why none does.

## 2. Modules and plan

| module | extends / composes | models |
|---|---|---|
| `OperationLifecycle` | | abstract specification: what a client of the queue may see |
| `OperationQueue` | instance of `OperationLifecycle` | queue, slots, heartbeats, manual retry |
| `WebhookInbox` | | deliveries, claims, application, retry; a slot's turns between callbacks and operations |
| `InventorySync` | | one SKU, its operations, the platform's stock |
| `ProductLifecycle` | | one product, its operations, callbacks, the platform |
| `VoucherConsumption` | | one voucher, its operations, reconciliation, syncs of its order, the platform |
| `PoiMirror` | | service POIs, synchronization, the platform's list |
| `StoreMapping` | | stores, candidates, mappings, the licence's limit |
| `IdentityAccess` | | sessions, the tenant's status and its audit trail, invitations, memberships |
| `AccountingSync` | | requests under keys, the paged import of two feeds, the reconciliation of their mirrors |
| `OrderMirror` | | requests that make rows, the two handlers, the issuance callback |
| `MCOperationQueue`, `MCWebhookInbox`, `MCVoucherConsumption`, `MCIdentityAccess`, `MCAccountingSync`, `MCOrderMirror` | the module after `MC` | values of constants that a `.cfg` cannot write; symmetry |
| `OperationQueueProofs`, `WebhookInboxProofs`, `VoucherConsumptionProofs`, `IdentityAccessProofs`, `AccountingSyncProofs`, `OrderMirrorProofs` | the module before `Proofs` | theorems (section 7) |
| `OperatorProofs` | `ProductLifecycle`, `StoreMapping` | theorems about what operators do with products and stores |
| `MirrorProofs` | `InventorySync`, `PoiMirror` | theorems about the mirrored stock and the mirrored POIs |

The modules of handlers use the queue abstractly: a queued operation is run by
one slot at a time, and again after a crash or a transient error. That is what
`OperationQueue` guarantees as long as leases are renewed; two handlers of one
object that overlap are two operations.

What is left of the plan, in this order:

1. `HandlerQueue`: the leases of `OperationQueue` composed with one handler, in
   place of the abstract queue of the handler modules.
2. `TokenRefresh`: gateways and the rotation of refresh tokens. The code never
   stores a rotated token (`connections/tokens.py:211`), so what follows is decided
   by how long the platform accepts the old one, and the repository does not say.

## 3. How the modules abstract

- **A step** is one transaction, or what a process does between two awaits that
  matters. A handler's reads, its call to the platform, its commit and the mark
  of its operation are separate steps, so that a crash and any other process fit
  between them.
- **ORM writes** are modelled as they are issued: by primary key, for the columns
  that differ from the loaded ones. This is why several modules keep `base`, what
  a slot loaded. A guarded `UPDATE` is one atomic step that tests its condition.
- **Time** is what the code compares: whether a row is due and whether a lease is
  held or has expired. A live owner may let its lease expire only within
  `StallBudget`; the lease of a dead owner expires by itself.
- **Payloads, names, scores, wording, masking, encryption and HTTP** are left out.
- **Bounds** are the constants named `...Budget`, `...Bound`, `...Limit` or
  `NumberOf...`. They limit what the environment does (requests, faults,
  callbacks), never what the code does in answer.
- **History variables** (`effects`, `disturbed`, `edits`, `applied`, `fresh`, `calm`, `torn`) are
  read by properties, or by the environment, and never by a modelled operation of
  the code.

## 4. Module by module

### OperationQueue (`operations/service.py`, `operations/worker.py`)

A row is `status`, `due`, `owner`, `lease`, `attempts`, `failure` and its audit
records; a slot is `phase`, the row it loaded (`job`) with the attempt count as
loaded (`seen`), its outcome and its heartbeat. `Claim` takes the oldest due row
or a running one whose lease has expired. `HandlerEnds`, `MarkSucceeded`,
`MarkFailed` and `RecordAudit` are the parts of `run_once`; `RenewLease` and
`HeartbeatFails` are the heartbeat task; `Crash` and `Shutdown` end a slot at any
await. `ManualRetryRead` and `ManualRetryWrite` are the two halves of the retry
endpoint, for one row or several. `Orphaned` operations have no handler.

Properties: `OwnerIsCurrent` (no running row is stranded, and its owner decides on
its present attempt count), `AttemptsAreCounted` (the retry budget is neither cut
short nor exceeded), `OutcomeIsAudited`, `LeaseProtectsOwner`, `ImplementsLifecycle`
and the liveness property `EveryOperationSettles`. The refinement maps a row to its
stage, the slots at work on it, the one whose attempt may decide, and the admins who
have asked for a repetition; it holds with manual retries, because the abstract
lifecycle lets one that was asked for reopen what has become of the row meanwhile.
Each enqueue has a key of its own; keys that are shared are in `AccountingSync` and
`OrderMirror`.

### WebhookInbox (`webhooks/service.py`, `webhooks/handlers.py`, `worker.py`)

Requests look a fingerprint up and insert it; the unique key decides. Slots claim
as above, but write an event's end through the loaded object, so that a slot
which has lost its event still writes. `ApplyProduct` is the commit that the
audit record makes in the middle of the handler, before the event is marked.
`turn` is the kind of work a slot looks for first, which it changes after each item;
an operation is `TakeOperation` and `EndOperation`, and there may be any number of
them at any time. A mutant that keeps the turn starves the callbacks. That callbacks
do not starve operations is the same code with the two kinds exchanged, and is not
modelled a second time.

`OnceOnly` (stored once, and effects committed once for an event that nothing
disturbed), `NoEventIsLost` (processing is leased, a dead letter has used up its
attempts as long as nobody has retried by hand) and `EveryEventSettles` hold with one
retry by hand; with two the last one fails (run `inbox_stranded`).

### InventorySync (`local_life/products.py`, stock)

One SKU. `CheckVersion` and `Accept` are the two halves of `update_stock`;
`QueueInitial` is the operation of the creation; `Start`, `Call`, `Commit` and
`MarkSucceeded` are the handler. With one client and one slot the newest stock
wins (`NewestWins`, `Converges`); each restriction is needed (section 6, items 8
and 9).

### ProductLifecycle (`local_life/products.py`, actions and updates)

One product and its operations. `Check` and `Accept` are a request, `Start` to
`MarkSucceeded` the handler with `validate_intent`; `PlatformActs` is the review,
`LoadForEvent` to `DropEvent` the callback. One callback is handled at a time.
Both properties are about one client. `SettledIsTrue` is true of every settled row, with
operations under way or not, and speaks of the time before the platform has acted on its
own (`reports = 0`); `IntentIsCurrent` of the time before a
manual retry (`retries = 0`), because a callback's version may repeat one that a
request has used. `Operable` is violated (run `product_stuck`).

### VoucherConsumption (`local_life/vouchers.py`, `local_life/orders.py`)

One voucher. After a timeout the handler asks the platform (`AskPlatform`) and
reconciles. The platform is assumed to let a request number take effect once and
to refuse a call that does not fit the voucher's state. `Delayed` lets a call
arrive after its timeout; `Silent` lets answers leave the voucher, its status or its
store out, which the code then reads as the state it asked for, or, in the answer about
an order, as available. With late calls or a second slot two consumptions at *one* store
may both be reported as succeeded, and a late consumption may undo a revocation.

A sync of the voucher's order writes the same row. `StartSync` loads the order, with its
vouchers; `FetchOrder` is the platform's answer, `FindVoucher` the look-up of
`upsert_remote_voucher`, which may find the voucher as it was loaded before, and
`CommitSync` the write, if the answer differs from what was found. `fresh` is whether no
command has taken effect since the answer. A sync is not tied to a slot: however the
operation came to run, it may be at any of these points. States other than available and
consumed are left out.

`calm` records that commands ran one at a time, without callbacks, that no call arrived
after its timeout, and that no sync wrote an answer the platform had moved on from;
`MirrorIsTrue` is about that time, `ConsumedAtOneStore` about all. A single consumption,
without any fault, is enough to make the mirror wrong if a sync that was answered before
it commits after it (section 6, item 28).

### PoiMirror (`stores/operations.py`, `stores/service.py`)

An application has a row under `audit:<number>` until a synchronization finds its
store and carries the row over. `Publish`, `Approve` and `Withdraw` are the
platform. `SyncList`, `SyncRead` and `SyncCommit` are the parts of a
synchronization; its commit is one step. Each place is applied for by one
command, the platform may list a store at any time after the application, and it
refuses calls about stores it does not list. `MirrorsTheList` is checked with lost
answers and repeated commands, `ApplicationsAreCarriedOver` until a creation has been
repeated. Rows of map points and the mock gateway are left out.

### StoreMapping (`stores/service.py`, `stores/router.py`)

Each request is a read and a commit. `CreateCheck` is the licence's count,
`Matches` the version in the `WHERE` of an update, `Free` the unique indexes on
active mappings; `Archive` is one transaction for a store and its mappings.
`GenerateRead` and `GenerateCommit` are the generation of candidates after a
synchronization, with the columns a flush leaves alone. Confirming a candidate
and mapping by hand share `MapRead` and `MapInsert`. `UnbindWrite` writes by id.
Mapping a store that is not active is allowed, as in the code.

### IdentityAccess (`identity/service.py`, `identity/router.py`, `core/dependencies.py`)

One tenant, the platform admin and people who come in by an invitation. `LoadSession`
and `LoadContext` are the authentication that every request begins with, with the
session row as loaded (`copy`), the tenant's status as loaded (`view`) and the role;
`RotateCsrf`, `Logout`, `CreateTenant`, `LockTenant` and `CommitStatus`,
`CreateInvitation` are the requests; `ReadInvitation`, `ResolveUser` and
`CommitAcceptance` are the acceptance, which needs no session. A second SELECT of a row
returns the object the context has loaded, also with `FOR UPDATE`.

`AcceptanceIsWhole`: a guest is registered, a member, and has a used invitation, or
nothing of the three, and an invitation is granted once unless two requests had it open
(`contested`). `SessionKeepsItsWrites`: neither a sign-out nor a rotation is undone by a
request with an older copy. `TrailIsTrue`: the audit records of the status are a chain
that ends in it, unless a change was decided on an old object (`blind`).
`SuspensionHolds`: whoever joins, or is invited, does so by a request that has met the
tenant active. A user's and a membership's own status are never changed by the code and
are left out.

### AccountingSync (`local_life/accounting.py`, `operations/service.py`)

`LookUp` and `Insert` are the two halves of `enqueue` for a request that has changed
nothing else; the one that violates the unique key is compared with the row that won.
`ReadPage` reads one entry of the funds flow, then of the bills of the operation's date;
a page may have a cursor although nothing follows, and `PageLimit` pages with one are an
error. Feeds grow and amounts change at any time; an amount is an integer or
`Unreadable`, which `AsInt` makes zero.

A row is an external id (`Id`) with an amount, or `NoRow`. `ExternalId` is the id an entry
carries, for a bill without one the hash of what it says of itself, or none: such an
entry is skipped, and so is one that is no record. Bills that say the same have one
identity and end in one row, with the amount of the last (`Flushed`). `Load` looks up
all ids that were read, which the code does one SELECT after the other; between them the
only change another process can make is a commit that `Clashes` and `alone` then see as
well. `Commit` is one transaction; an id that another import has inserted since makes it
fail, and with it the slot. That an external id names the same order for good is assumed:
it is in the hash, and of an id the platform gives the code relies on it.

`ReadFunds` and `ReadBills` are the two queries of `reconciliation_summary`; what it
computes is of `Seen`, the funds of the first and the bills of the second, and `torn` is
whether an import has committed in between. The summary that an import itself returns is
the same computation in the import's session, which does not read rows again that it has
loaded; it is not told apart. One connection is modelled; a summary is over all of a tenant.

`KeyDecides`: a key stands for one request. `ImportIsComplete`: for each entry with an id
that was listed when the import began, it commits a row; unless another import has
committed since it loaded, the row's amount is one the entry, or one behind it with the
same id, had then or has had since. `SummaryIsHonest`: at the second query, the net
difference is that of the linked rows as read, and orders reported as the funds' alone
were so at the first query, whatever has committed; a report without findings means equal
totals if nothing has (section 6, item 29, if something has).

### OrderMirror (`local_life/orders.py`, `webhooks/handlers.py`)

The columns of a row are in two groups, `head` and `tail`: an order's amount is
converted between their assignments, and mark_failed commits what was assigned before
the conversion raised. `LookUp`, `FindRow` and `Enqueue` are a request; the last one
merges the flush of a missing row, the look-up of the key and the commit, because the
flushed row is locked until the transaction ends and every other writer of the key
for this item waits for it. `Start` to `MarkSucceeded` are the handler; `LoadEvent` and
`ApplyEvent` the issuance callback, which makes the order if it names one and the
voucher. A clash of two inserts ends the slot, and the lease brings the work back.

`RowsAreWhole`: a request leaves a row with its operation or neither, and a row is of
one answer, unless two syncs of it overlapped (`mixed`) or its amount could not be
converted. `SyncIsCurrent`: a sync commits an answer given after it began, and links the
voucher. `CallbackArrives`: a callback that clashes is not lost.

## 5. Runs, bounds and fairness

| run | instance | shows |
|---|---|---|
| `queue_work` | 2 operations (1 without handler), 2 slots, 1 admin, 2 attempts, one crash, one stall, one retry | ownership, budget, audit, lease protection, refinement; every operation settles |
| `inbox_work` | 1 event, 2 deliveries, 2 slots with operations to run, limit 2, one crash, one stall, one retry | stored once, applied once, not lost; every event settles |
| `inventory_serial` | 1 client, 1 slot, 3 stock levels, 3 updates, 2 faults | newest stock wins, converges |
| `product_work` | 1 client, 2 slots, 3 requests, 3 callbacks, 2 faults, 2 retries | the row is true, calls carry the current intent |
| `voucher_work` | 2 stores, 2 slots, 1 sync of the order at a time, 3 requests, 2 faults or callbacks, late calls, answers with all they should carry | the mirror is true, no other store's consumption |
| `poi_serial` | 2 places, 3 applications, 4 commands, 1 lost answer, 1 repetition | the mirror is the list, rows carried over |
| `mapping_work` | 2 stores, 2 POIs, 2 users, 2 slots, 5 requests, 2 generations | one to one, no lost edit, dismissals kept |
| `identity_work` | 2 requests at a time, 1 guest and the admin, 2 sessions, 2 invitations, 2 changes of status, 1 rotation, 1 expiry | acceptances, sessions, audit trail, suspension |
| `accounting_work` | 2 requests, 2 keys, 2 dates, 2 slots, 2 fund entries (1 without an id), 2 bills of 1 identity (1 unreadable, 1 amended to a negative amount), 2 pages, 1 fault, 1 reconciliation at a time | keys, completeness, an honest summary |
| `orders_work` | 1 order with an after-sale, 2 requests, 2 keys, 2 slots, 1 callback, 3 versions (1 unreadable), 1 fault | whole rows, current syncs, callbacks arrive |

Two more runs, `inbox_stranded` and `product_stuck`, are expected to be violated;
section 6 has them.

*Why these bounds.* Every race in this code is between two writers of one row, so
two of each actor suffice to have it, and two objects of a kind are there where one
could be taken for the other: two operations (the claim's order), keys, dates, stores,
invitations. The inbox has one event because a slot only ever writes to the event it
holds; the theorems of section 7 are about any number.
`MaxAttempts = 2` has a first, a last and, after a crash, an excess attempt. A
budget of one crash and one stall lets a takeover happen both from a dead and
from a living owner, in any order. In the handler modules two or three requests on one
object, with a fault or two, cover a request that overtakes, repeats or contradicts
another one. `Stock` has an initial value, zero and another. Five requests are a
creation of each store, a mapping, and two requests that race on it. The feeds have an
order on both sides, which an import of the other date leaves to the funds alone, a dropped
entry and two that end in one row; two pages are the limit and one less. Rows that name no
order are in the theorems alone.
Three versions of an order are a readable one, one whose amount does not convert, and a
later one that corrects it.

*Deadlock* is not checked (`CHECK_DEADLOCK FALSE`): when all work is settled and
the environment's budgets are spent, there is nothing left to do, as in the code.

*Symmetry* is used in `voucher_work`, `identity_work` and `accounting_work` only, which
check no liveness.

*Fairness.* `OperationQueue` and `WebhookInbox` assume weak fairness of each
slot's next step, of requests that began to commit, and of time: `_run_slot` polls in an
endless loop, a handler's calls end by the HTTP client's timeout, a due time and an
expiry are reached. A slot that has crashed takes no step, and the budgets leave one
alive; deployments restart the process. Nothing is assumed of renewals, of crashes, of
starting a manual retry or of the platform. `InventorySync` assumes that slots start queued
operations and that calls end, in success or failure. `OrderMirror` assumes that slots
keep claiming a callback that waits and end it. No strong fairness is needed: a row that
can be claimed stays so until some slot takes it.

Each property of a passing run has a mutant in `PROJECT.json`: a plausible bug in
one mapped definition under which TLC finds the property violated by the same run.
The mutated definitions are in the modules, marked `Mutant of`.

## 6. Disagreements found

Two runs are expected to be violated; `PROJECT.json` quotes the line each one
disagrees with.

| run | what happens |
|---|---|
| `inbox_stranded` | two manual retries and a crash leave an event in processing without a lease: no slot claims it, the retry endpoint refuses it |
| `product_stuck` | a product that was created and then approved by callback can never be acted on |

Items 3 to 31 were met while modelling. Each one limits a property above, or has
none; the last column says which constant or state of the models reaches it.

| | code | what happens | in the models |
|---|---|---|---|
| 3 | `local_life/vouchers.py:424` | a consumption repeated after a crash undoes, in the mirror, the revocation made in between | `calm = FALSE` in `VoucherConsumption` |
| 4 | `operations/worker.py:144` | a shutdown in the last attempt fails the operation for good, though the comment above it speaks of the retry queue | `Shutdown` with `seen = MaxAttempts` |
| 5 | `operations/service.py:210` | an operation whose slots die is claimed without limit: only recorded failures count | `attempts > MaxAttempts` after two takeovers |
| 6 | `operations/service.py:353` | a manual retry that read a row before it was claimed takes it from an owner whose lease is held | `Locked` in `LeaseProtects` |
| 7 | `operations/worker.py:304` | a slot that lost an event re-opens it after another one has processed it | `MarkFailed` of a stale slot |
| 8 | `local_life/products.py:291` | two updates of the stock from one version are both accepted, with the same new version | two `CheckVersion`s before an `Accept`, with two `Client`s |
| 9 | `local_life/products.py:641` | with two slots an older stock lands last on the platform | `NewestWins` with two `Worker`s |
| 10 | `local_life/products.py:236` | two requests both find nothing pending and queue conflicting operations | `ProductLifecycle` with two `Client`s |
| 11 | `webhooks/handlers.py:116` | a late callback overwrites a newer status of a product, and nothing asks the platform | `reports > 0` |
| 12 | `webhooks/handlers.py:84` | a late issuance callback makes a consumed voucher available | `CommitEvent` in `VoucherConsumption`; `calm = FALSE` |
| 13 | `stores/service.py:319` | with two slots an older list is written last and a listed POI ends as deleted | `MirrorsTheList` with two `Slot`s |
| 14 | `stores/service.py:349` | a creation executed twice leaves two waiting rows, and neither is carried over | `reruns > 0` in `PoiMirror` |
| 15 | `stores/service.py:617` | a second unbinding overwrites who ended a mapping | two `UnbindRead`s before an `UnbindWrite` |
| 16 | `stores/router.py:93` | two creations at the limit of the licence both pass | `MaxStores = 1` in `StoreMapping` |
| 17 | `stores/router.py:96` | an archived store is counted against the licence for ever: it is `inactive`, never `archived` | `CreateCheck` after `Archive` |
| 18 | `core/dependencies.py:105` | a user whose only tenant is suspended gets it as the tenant of a request that selects none, though `src/README.md:18` keeps members of a suspended tenant from the business API | `TenantFor` |
| 19 | `identity/router.py:249` | `FOR UPDATE` locks the tenant's row and leaves the object the context has loaded as it was: a second admin decides on the old status | `blind` |
| 20 | `identity/service.py:184` | an invitation that two requests have open is accepted twice by a user who is a member already | `contested` |
| 21 | `identity/service.py:184`, `local_life/orders.py:172` | the request that loses an insert is answered with an error of the server, not a conflict | `Conflicts`, `reply = "error"` |
| 22 | `local_life/orders.py:172` | after the lost race for a key the order's row is read again although the rollback has expired it: an error is answered for an operation that exists | `reply = "error"` |
| 23 | `local_life/orders.py:278` | an amount that does not convert leaves the columns assigned before it committed with the failure | `Assign` in `OrderMirror` |
| 24 | `local_life/orders.py:278`, `local_life/accounting.py:330` | of two syncs or imports that overlap the later commit may carry the older answer | `alone`, `mixed` |
| 25 | `local_life/accounting.py:333`, `local_life/vouchers.py:190` | a clash of two inserts is followed by mark_failed in a session that was not rolled back, which raises and ends the slot; the lease brings the operation back | `Clashes` |
| 26 | `connections/tokens.py:211` | a rotated refresh token stays in the process that received it | not modelled (section 2) |
| 27 | `core/database.py` | SQLite takes no row locks: `FOR UPDATE` is ignored there, and only the single slot (`worker.py:61-62`) keeps claims apart; changes of a tenant's status are not | `LockIsFree` models PostgreSQL |
| 28 | `local_life/orders.py:333` | a sync of an order that was answered before a consumption, or a revocation, and commits after it puts the voucher's mirror back; a status that is missing or unknown is written as available (`orders.py:314`) | `CommitSync` with `fresh = FALSE`, `calm = FALSE`; `Silent` |
| 29 | `local_life/accounting.py:160` | a summary whose two queries an import's commit has come between reports on mirrors that were never there together: it may find nothing where totals differ, and count an order as the bills' alone that never was | `torn` |
| 30 | `local_life/accounting.py:353` | two bills of one date that carry no id and say the same are one row, with the amount of the later | `Identity`, `LastOf` |
| 31 | `local_life/accounting.py:35` | an amount that is missing or no number is stored as zero, and an entry without an id is dropped without a trace but in the count | `AsInt`, `ExternalId` |

## 7. Proofs

Every theorem is proved from the named assumption about the constants alone, so for any
number of operations, events, slots, requests and rows and any budgets. Types are
inductive in all of them, given what a slot or request that is at work has in hands
(`AtWork`, `Grounded`, `Placed`); that part comes first and is cited by everything after.

**OperationQueueProofs**, from `QueueAssumption`:

- `TypeCorrect`: `Spec => []TypeOK`.
- `OwnersAreCurrent`, `AttemptBudget`: two conjuncts of the inductive invariant `IInv`
  that the run checks. `IInv` adds to `TypeOK` what a slot holds in each phase
  (`SlotsAreConsistent`) and that a row not yet inserted has no attempts (`NewRows`).
  Ownership alone is not inductive: a mark must know that the slot at work on a row
  loaded its current attempt count, and the attempt count is current only because an
  owner that is alive is at work on its row.
- `OutcomesAreAudited`: `OutcomeIsAudited`, from `IInv` and two facts about slots
  between mark and record: a settled row's owner is not at work on another row,
  and what it is about to record is what it wrote.
- `LeaseProtection` and `QueueImplementsLifecycle`: the steps of a slot and of a manual
  retry, one by one, are steps of `OperationLifecycle` or invisible to it.

**WebhookInboxProofs**, from `InboxAssumption`:

- `TypeCorrect`.
- `TakesEffectOnce`: `OnceOnly`. `Stored` says which request stored an event, as the
  unique key decides; `Quiet` says that an event nothing has disturbed is held by its
  owner alone, under a lease that has not expired, before its effects. A slot that has
  lost its event still writes to it, so nothing of the kind holds of disturbed ones.
- `NothingIsLost`: `NoEventIsLost`, assuming `OneRetry`, one manual retry at most. An end
  that is written also ends the ownership, whoever writes it (`Owned`); so the retry has
  loaded its event without an owner and leaves the ownership columns alone (`Unowned`);
  and until it, a slot has seen no more attempts than there were (`Counted`). With two
  retries `ProcessingIsLeased` is not an invariant, and `inbox_stranded` shows why.

**MirrorProofs**, inventory, from `InventoryAssumption`:

- `InventoryTypesHold`; with it, how versions, accepted updates and operations are
  numbered (`Counted`).
- `NewestIsKept`: `NewestWins`, assuming one client and one slot (`OneAtATime`); section 6,
  items 8 and 9, is why. `EditIsCurrent`, the client's request holds the present version;
  `TargetsAgree` and `SlotIsCurrent`, the newest operation and the slot that runs it carry
  the desired stock; `InUse`, an operation under way is the slot's. The induction is on
  `DoneStays`: once the newest operation has succeeded nothing older is called again,
  since an older one that waits is superseded.

**MirrorProofs**, service POIs, from `PoiMirrorAssumption`:

- `PoiTypesHold`: `PoiTypeOK`, for any number of slots. That ids and external ids are
  unique is not inductive alone: `TicketsHeld` adds that ids are counted from one, that
  whatever a row or a slot speaks of is a used ticket, and that the ticket of an
  application which has not been committed is in no row and with no other slot.
- `MirrorIsTheList`: `MirrorsTheList`, assuming one slot (`OneSlot`; section 6, item 13, is
  why). `Following`: what the slot has listed and read is what the platform and the table
  still say, as long as the platform has not moved (`fresh`), and then the mirror is the
  list whenever no synchronization is between its reading and its commit. The commit of a
  synchronization is taken apart into the rows it links, finds, adds and marks.
- `ApplicationsAreCarried`: `ApplicationsAreCarriedOver`, assuming one slot. `Carried`:
  while no creation was executed twice, at most one row waits at a place, and the store of
  its application has no row of its own; so the store has one match and one waits for it,
  which is what the pairing asks for.

**VoucherConsumptionProofs**, from `VoucherAssumption`:

- `TypeCorrect`; with it, that only accepted operations are called or at work (`Known`).
- `OneStoreConsumes`: `ConsumedAtOneStore`, assuming `Silent = FALSE`, with any slots, late
  calls and callbacks. `Decided`: without a revocation the first consumption decides the
  store, and whatever was answered, reconciled or has succeeded is of that store.
- `MirrorStaysTrue`: `MirrorIsTrue`, assuming `Silent = FALSE`, with any syncs of the order.
  `Mirrored`: while it is calm, the slot at work knows the row as it is or as a sync has
  set it to what the platform has, and, once answered, the platform as it is (`Knows`); a
  sync with an answer that is still current has the platform's state (`SyncMirrored`); at
  any time the row is true unless a request that took effect has not succeeded yet.

**OperatorProofs**, products, from `ProductAssumption`:

- `ProductTypesHold`: `TypeOK`, for any clients and slots.
- `IntentsAreCurrent`: `IntentIsCurrent`, assuming one client (`OneClient`; section 6,
  item 10, is why), with any number of slots. `Grounded`, which holds for any clients,
  says what was true when an operation was accepted; `Alone`, that as long as nothing was
  retried by hand one operation is under way, and that its target is the desired state
  from its acceptance to its call, however the callbacks move the rest of the row.
- `SettledMeansTrue`: `SettledIsTrue`, assuming one client, with manual retries as well.
  `Unreported`: before the first callback, the row either tells what the platform has, or
  the last accepted operation leads from the row's status to the desired one and the
  platform is at one of the two ends (`RowTells`); a slot at work does so for that
  operation, or repeats what the platform has already (`Working`). Versions are counted by
  accepted operations, so that an older operation which is retried fails `Valid`.

**OperatorProofs**, stores, from `StoreMappingAssumption`:

- `StoreTypesHold`: `StoreTypeOK`. `Typed`, the types without bounds, is inductive;
  `RowsNumbered` says that ids are counted from one, and `WithinBudget` that each edit and
  each request under way has been paid for, by the number of users at work, so that a
  version is never more than the requests there were.
- `MappingsAreUnique`, `EditsAreCounted`, `DismissalsAreKept`: the three properties
  of the passing run. `MappingChanges` reduces every step to ending mappings or adding
  one that is free; `EditTyped` says that an edit counts one version.
  They are inductive given the types: each rests on what a commit compares in the
  moment it is made, and on nothing that was read before. The proofs say which
  comparison carries which promise; promises that rest on an earlier read are
  broken, and among the items of section 6.

**IdentityAccessProofs**, from `IdentityAssumption`:

- `TypeCorrect`; with it, that one change of the status is under way at a time (`Locked`).
- `SessionsAreKept`: inductive given the types, since a request writes one column of the
  session it loaded.
- `AcceptancesAreWhole`: `Whole` is the property; `Single` adds that an invitation which
  is not contested is open in the hands of one request and not yet granted, `RolesStay`
  that a membership a request has found is still there.
- `TrailStaysTrue`: the holder of the lock knows the present status, unless `blind`.
- `SuspensionsHold`: `Met`, a request under way notices an active tenant, and goes by no
  tenant that was not active.

**AccountingSyncProofs**, from `AccountingAssumption`:

- `TypeCorrect`.
- `KeysDecide`: a row, once made, keeps its date (`RowsStay`).
- `ImportsAreComplete`: `HasRead`, what a slot has read is of its two feeds, finitely many,
  and in versions there have been; `ReadSoFar`, the pages behind the cursor hold whatever
  was listed there when the import began, though entries are added behind them
  (`PlatformGrows`); `LoadedRows`, what the session knows of a row when it commits. The
  entries of one id are of one feed (`OneFeed`), and there is a last one (`LastIsLast`).
- `SummariesAreHonest`: `SummaryIsHonest`, for any number of rows and orders and any
  integers as amounts. The sums are
  `SumFunctionOnSet`, a recursion over subsets; the induction theorems that take a
  predicate are out of the provers' reach, but `WFMin` takes a *set*, and
  `SubsetInduction` is that theorem for the subsets of a finite set. From it follow that
  the recursion has a solution and only one (`SumExists`, `SumIsUnique`), that a sum may
  begin with any element and that it splits over disjoint sets (`SumWithout`,
  `SumOfUnion`); then that the differences of orders add up to that of their rows
  (`DifferencesAddUp`), again by induction over the orders. The invariant it needs is
  `ReadTwice`: the rows are finitely many, though nothing is assumed of the number of
  dates or ids; those the first query returned are still there at the second, and as they
  were if no import has committed.

**OrderMirrorProofs**, from `OrderAssumption`:

- `TypeCorrect`.
- `RowsStayWhole`, `SyncsAreCurrent`: `Versions`, an answer is at least as new as the sync
  that asked for it; `Bases`, a sync which is alone with its item knows the row as it is.
  A flush writes only the columns that differ from the known ones, so it is `Bases` that
  makes the row that answer's.

*Only model-checked*: the liveness properties (`EveryOperationSettles`,
`EveryEventSettles`, `Converges`, `CallbackArrives`), since the prover does not treat
fairness and `ENABLED`.

## 8. Not modelled

- Connections: single-statement edits of rows that nothing else writes. Refresh tokens:
  section 2, item 2.
- Several tenants: every row and unique key carries the tenant's id, and every query
  of a member's request names it; the choice between the memberships of one user is a
  pure look-up.
- Callback signatures, encryption, password hashing, token bytes: bytes, no state.
- Scores of candidates: floating-point similarity; that a score is written matters,
  its value does not.
- Request bodies, paging of lists, the mock gateway and demonstration data.
- Dashboard, health, configuration, observability, middleware: no state of their own.
- Frontend: a client of the API, one of the clients of the modules. Migrations: the
  constraints in force are taken from the ORM models. Scripts: deployment.

## 9. Running it

In this directory, `tlc -config X.cfg M` checks module `M`, and `tlapm M.tla` checks the
proofs of `M`; `PROJECT.json` names the module of each configuration. The
passing runs take seconds to two minutes each, the proofs a minute to a few minutes a
module.
