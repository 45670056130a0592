# Jenova booking engine: TLA+ models, checks and proofs

Jenova is a multi-tenant travel platform: a NestJS api (`src/apps/api`), a worker
(`src/apps/worker`), and packages for the domain, the booking engine, suppliers,
documents and databases (`src/packages/*`). Every tenant has a Postgres database of
its own. The engine sells hotels of external suppliers: search, revalidate ("check"),
book, confirm or wait for confirmation, cancel, send a voucher. Money moves in a
double-entry ledger on state transitions only.

This directory models the parts where a mistake costs money, a booking or a tenant's
privacy: what happens when several api requests, worker sweeps and a supplier act on the
same rows, with deaths, lost answers and retries in between, and what the pure
algorithms between them compute.

Contents: 1 inventory, 2 modules and how they map to the code, 3 runs, bounds and
fairness, 4 proofs, 5 what the runs refute, 6 limits, 7 plan.

## 1. Inventory

| Part (code) | State it keeps | Operations | What is hard | What makes it correct |
|---|---|---|---|---|
| Booking state machine (`packages/domain/src/booking.ts`) | none | `canTransition`, `resolvePenaltyAt`, policy validity | boundary instants, rule order | the fee is that of the latest rule at or before the instant |
| Ledger (`booking-engine/src/ledger`) | journal entries per transaction group | templates per edge, posting | reversal must undo exactly what confirmation recognised | books always say what the state says |
| Transition runner (`booking-engine/src/runner.ts`) | booking, item, audit, event and journal rows | create, transition, markCancellationRequested, escalate, recordPollAttempt | each is one transaction, but callers read before it and act after it | one winner per transition, nothing recorded twice |
| Poller (`booking-engine/src/pending.ts`, `worker/src/pending-sweep.ts`) | next poll, attempts, request instant on the item | select due, retrieve, settle, back off, escalate | decides from a row loaded before a supplier hop; races the api and other workers | every wait ends; the fee is that of the request |
| Hotel booking service (`api/src/hotel-booking/booking.service.ts`) | none of its own | `bookHotel`, `cancelBooking`, previews | supplier call between two transactions; death at any await; idempotency by clientReference | one supplier attempt per offer; answers agree with the rows |
| Offers (`api/src/offers`) | offer rows, tokens signed over them | issue, verify, check (same, moved, gone), supersede, withdraw, claim | checks and bookings of one offer overlap; rows rewritten under a token | at most one bookable successor; a claim is never lost silently; a token tells the price it was shown with |
| Outbox (`booking-engine/src/events.ts`) | `booking_event.published_at` | insert, dispatch, redelivery sweep | publish before stamp; races, deaths, events that always fail | at least once, a stamp is evidence, repeats have a cause |
| Supplier transport (`supplier-sdk/src/transport.ts`) | breaker per supplier account | send with retries, breaker | calls overlap; late results after a trip; deadline against backoff | one probe, no wedge, bookings dialed once, answer by the deadline |
| Voucher delivery (`documents/src/delivery.ts`) | `document_delivery` rows | claim events, render and mail, retry, escalate | racing sweeps with stale rows; mail out but reply lost | "sent" means mailed; no failure is silent; delivery ends |
| Voucher rendering and download (`packages/documents`, `api/src/documents`) | document rows and stored objects | render, put, record, download | two databases and an object store, no transaction over them | a row names an object its hash pins; a caller gets the voucher it asked for |
| Hotel search (`api/src/hotel-search`) | availability cache | stream, fan-out under one budget, caches, price and issue | late suppliers, partial failure, clients that leave, shared answers | each supplier told of once; what arrived in time is returned; no rate of another party; streams end |
| Pricing (`api/src/pricing`, `domain/src/money.ts`) | none | choose markup rule, convert, tax, split | ties, rounding, overflow, unlike currencies | one rule whatever the order; nothing lost between the parts of a price |
| TBO adapter (`adapters/hotel/tbo`) | none | search, check, book, retrieve, cancel | mapping of wire statuses, rates and policies; several rooms in one record | the fee is the supplier's; what is accepted is as priced; no rate vanishes |
| Sessions (`api/src/auth/session-service.ts`) | session records | issue, verify, touch, rotate, revoke | store operations atomic one by one only | a deleted session stays deleted; a token has one heir |
| Machine authentication, TOTP, recovery codes (`api/src/auth`) | keys, last accepted step, used codes | sign, verify, revoke; enroll, verify, consume | clock skew; read, await, write of the replay store | a revoked key serves nobody; a code is used once |
| Gateway (`api/src/gateway`) | none | fixed pipeline per request, each stage awaited | sessions end and keys are revoked between the stages | a handler serves only callers in scope |
| Tenant database resolver (`db/src/resolver.ts`) | pool cache, in-flight openings | get, evict, close | eviction awaits; close races openings | no pool leaks |
| Provisioning and migrations (`db/src`) | migration table per database, `db_name` | provision, apply, fan out, report | death between statements; runs of several releases at once | files once and in order; reports true; provisioning resumable |
| Supplier registry, credentials, process configuration (`supplier-registry`, `api` and `worker` config) | the environment | resolve NODE_ENV, bind transport and credentials, start | three readings of one environment | api and worker agree; live suppliers by name only |
| Sandbox replay (`sandbox-replay`) | recording files | fingerprint, sanitize, record, replay | secrets out, yet the request found again | a replay tells what was recorded, no secret is stored |
| UI kit (`packages/ui`) | state of the streaming list | policy timeline, printing of money, streaming list | each view reads the policy on its own | every view tells the same fee; the list tells the search |
| Fiscal and connector packages | | placeholders | | |

Interactions. A request crosses the gateway, which asks the sessions or the machine keys,
and reaches its tenant's database through the resolver. A search fans out to the
adapters, prices what they return and issues offers. `bookHotel` reads and claims an offer, creates the booking through the
runner, calls the supplier through adapter and transport, and settles through the
runner. `cancelBooking` and the poller of every worker do the same on one item at the
same time; only the runner's guarded UPDATEs arbitrate. Every runner operation commits
a `booking_event`; the outbox dispatches it, and voucher delivery consumes
`booking_item.confirmed` rows by its own sweep, rendering through the same service
as the downloads of the api. Voucher delivery and the poller share
`escalate`. All processes meet in the databases and the object store and nowhere else.

`PROJECT.json` lists the components with their status, the hazards with their lines,
and for each definition the lines it models.

## 2. Modules

A handler is cut where the code awaits. Between two awaits JavaScript runs alone, and a
Postgres transaction of the runner is atomic, so one step is one transaction, statement,
supplier hop or other side effect; what a process read before an await stays in its
local state until it is used. A process may die at any cut. A database error that
leaves the handler has the same effect on the rows as a death and is counted with it.

**`Booking`, `Ledger`** are the pure parts: the transition relation of `booking.ts` and the
loop of its `resolvePenaltyAt` with the validity of a policy; and what the templates post, as
one balance per account (the journal lines of a posting, summed, in one currency). ISO
instants are integers. `LatestRuleInForce` is the
reference definition the proofs compare that loop with. A null penalty is posted as none and is
0 here.

**`Money`, `Pricing`** are the pure parts of a price: exact arithmetic with
its rounding, largest-remainder allocation and overflow checks; the choice of the markup
rule and `resolvePrice` with every refusal. A scalar is the ratio its decimal denotes. Equality-scoped columns of a
rule are values or `Unset`; a travel date is a number.

**`TboAdapter`** is the five calls of the adapter as functions of TBO's answers, with
every refusal in the code's order: the envelope, the mapping of boards, amounts and
cancellation rows, the comparison of a revalidated rate with the token's, the merging of
the rooms of one record. An answer is a record of what the operation reads of it.

**`OfferTokens`** is the data of an offer: the record, its signature, the row, the token, the gates of
verification in order, and what a check makes of a moved rate (`CheckOffer`). The keyed
hash is the key and what was signed. `OfferBooking` has the order of events.

**`PolicyViews`** is where a person reads a fee: the preview of the api, the lines of the
voucher, the timeline of the portals, with the two tables of minor digits that print it.

**`BookingRunner`** holds the item row and one operator per runner operation: the guard
is the operation's WHERE clause and checks, the effect its UPDATE, its posting and its
event. A conflict is a step of the caller. `updatedAt` is kept only while quoted or
reserved, the only states whose sweep reads it. `Null` is SQL null. Audit rows repeat
the events and are left out.

**`BookingLifecycle`** composes the runner with its users, for one item of one tenant:
the `bookHotel` handler from the creation of the booking on (`Book*` actions), any
number of `cancelBooking` requests (`Cancel*`), the pollers of any number of workers
(`Poll*`: load the due row, ask the supplier, settle or defer), a supplier that decides
a pending booking and settles an accepted cancellation whenever it likes, the voucher
delivery reduced to what it does to the item (`VoucherGivesUp`: it may escalate an item
that was once confirmed, whatever state it has reached, and the poller then leaves a later
cancellation alone), and a clock, which starts with the booking. Two branches of the code are left out because the model
shows they cannot be reached: the escalation after three conflicts in
`settleSupplierCancelled` (a conjunct of `CancelAnswerIsTrue` bounds the tries) and the
escalation of a due item without a supplier reference (the runner writes one in the
transition to each state that is polled). A supplier that echoes a
foreign clientReference is one of the errors of the call.

**`BookingPromise`** is the abstract specification: an item is opened, confirms, fails
or is cancelled, and the books show the sale exactly while it is confirmed and one
penalty once it is cancelled. `PromiseKept` is the refinement: `phase` is a function of
the state, `books` is the ledger's balances.

**`OfferBooking`** is what comes before: search issues offers, `checkOffer` verifies,
asks the supplier and stamps, supersedes or withdraws; `bookHotel` looks for a replay,
passes the gate, claims, creates the booking and reaches the supplier. The row's
`invalidated_at` is modelled with who set it, and each row with the searched offer its
lineage began with; both are history the code does not read. Refusals whose data is not
modelled (signature, guests, policy) are the nondeterministic "refused" at the gate;
re-pricing is reduced to its outcome: same, moved or gone. A check that errors or dies
just ends. After the supplier call the booking is `BookingLifecycle`'s; the two
modules share the creation of the booking and are not composed yet.

**`Outbox`** models one `booking_event` row per operation of the runner (each emits
exactly one): the transaction with its `occurred_at`, the commit, the sink's answer, the
stamp; and the sweep of each worker: cutoff, query, then publish and stamp row by row,
oldest first. `occurred_at` is the begin of the transaction, as Postgres' `now()` is. The sink is
external; `Poison` are the events it never takes. `told`, `gave` and `lost` are history.
A batch is a set of which the oldest row is taken next, which is the query's order
with ties in any order.

**`SupplierTransport`** models one breaker shared by several callers; a step of a send
goes from one await to the next (`Send`, what the inner transport answers, `WakeUp` from
the backoff, `Settle`). A send the breaker refuses changes nothing and is not a step.
Timers run at most `Lag` late, and a settlement (a microtask) runs before the clock
moves. A deadline may be spent already when the send starts; that counts as a failure
without a dial. `streak` and `probing` are observers.

**`VoucherDelivery`** models the sweep of any number of workers statement by statement:
claim the events, insert a row or a failed row for an unaddressed one, select due rows,
render and mail, record the success, the retry or the terminal failure, escalate.
Batches are larger than the backlog. `next_attempt_at` is kept as the ticks left, so
the clock needs no bound. A mail may be out although the call failed; rendering may
fail at any time.

**`Documents`** models vouchers: each call of a render (any state or confirmed only) and
of a download is a process cut at its awaits (item row, brand, object store, document
row); the tenant edits its branding, items move, the store loses objects, calls die
between put and upsert. A PDF is the facts it shows and its own hash. `late` says of a call
that its booking was cancelled before it began.

**`HotelSearch`** models the searches of one process: the controller opens the stream and
relays, the generator consumes, lanes run per supplier over the shared availability cache,
the budget may expire before any turn, the client may leave. A step is a turn of the
event loop; what it makes ready is consumed first. **`SearchKeys`** has the
cache key and the way of a search's rooms to the supplier; **`StreamingList`** the UI
kit's reducer and what its component renders of the state.

**`TenantDirectory`**, **`TenantPools`**, **`TenantMigrations`** model the resolver (calls
join or start openings, an opening evicts the least recently used pool, the api shuts
down) and the runs of provisioners and fan-outs of several releases, statement by
statement; they share `dbName`. `MCTenantDatabases` composes the two.

**`Sessions`** models the session service over its store, cut between the read of a record
and the write that follows; **`Gateway`** composes it with the four stages of a request and
the machine keys, whose credentials may be dated before or after the server's clock; **`TwoFactor`** models one-time codes over 256-valued bytes with their
replay store, and recovery codes. Hashes are injective; the truncated code of a step
is not (two steps may share one).

**`SandboxReplay`** models fingerprint, sanitizer, store and replay over requests of named
fields; **`Deployments`** what an api and a worker become in one environment.

**`MC*`** modules hold constants and symmetry for TLC, and where a composition or the inputs
of pure functions are needed, those. `MCHotelSearch` follows the streams of `HotelSearch` with
`StreamingList`; `MCRates` (rates and prices) and `MCOffers` (tokens, rechecks, views) hold inputs of
`MCAlgorithms`, which adds those of `SandboxReplay` and `Deployments`, with the reference definitions they
are compared with. `MCTenantDatabases`, `MCAccess`, `MCSales` (`OfferBooking`, `MCAlgorithms`), `MCSuppliers`
(`SupplierTransport`, `MCHotelSearch`), `MCWorker` (`Outbox`, `VoucherDelivery`) and `MCRequests` (`MCAccess`,
`MCDocuments`) put side by side parts that share little or nothing: `moves` (`focus` of the databases) says which
of them a behaviour moves, and the others stand still. **`*Proofs`** modules hold the theorems.

| Code | Module: definitions |
|---|---|
| `runner.ts` create / transition / mark / escalate / recordPollAttempt | `BookingRunner`: one operator each; `OfferBooking`: `Create` |
| `booking.service.ts` bookHotel | `OfferBooking`: `LookUp`, `Gate`, `Claim`, `Create`, `Book`; `BookingLifecycle`: `Book*` |
| `booking.service.ts` cancelBooking, settleSupplierCancelled | `BookingLifecycle`: `Cancel*` |
| `pending.ts` | `BookingLifecycle`: `Due`, `Poll*` |
| `check.service.ts`, `offers.service.ts`, `offer-store.ts` | `OfferBooking`: `Check*`, `IssueOffer`, `Gate`, `Claim` |
| `rules.ts` selectRule; `resolve.ts` resolvePrice; `money.ts` allocate | `Pricing`: `SelectRule`, `ResolvePrice`; `Money`: `Allocate` |
| `adapter.ts`, `mapping.ts`, `errors.ts` of TBO; `booking.ts` resolvePenaltyAt | `TboAdapter`: `Search`, `Check`, `Book`, `Retrieve`, `Cancel`, `MapCancellationPolicy`; `Booking`: `ResolvePenaltyAt` |
| `offers.service.ts`, `signing.ts`; `check.service.ts` on data | `OfferTokens`: `BuildRecord`, `VerifyOfferToken`, `RequireBookableOffer`; `CheckOffer`, `Successors` |
| `booking.service.ts` previews; `voucher-content.ts`; `policyTimelineModel.ts` | `PolicyViews`: `PreviewCancellation`; `PolicyLines`; `ComputePolicyTimeline`, `PolicyTimeline` |
| `events.ts` dispatch, republishUnpublished | `Outbox`: `Publish`, `InlineStamp`; `Sweep*` |
| `transport.ts` CircuitBreaker, resilient send | `SupplierTransport`: `AssertCanCall`, `Settle`; `Send`, `BackOff`, `EndLoop`, `WakeUp` |
| `delivery.ts` claimNewEvents, processDue | `VoucherDelivery`: `Claim*`; `DueLoad`, `Deliver`, `Settle*`, `Escalate`; `BookingLifecycle`: `VoucherGivesUp` |
| `documents-service.ts`, `voucher-data.ts`; `voucher.controller.ts` | `Documents`: `LoadItem`, `LoadBrand`, `PutObject`, `RecordDocument`; `Scope`, `FindRow`, `Fetch` |
| `search.controller.ts`; `search.service.ts`; `availability-cache.ts` | `HotelSearch`: `Refuse`, `OpenStream`, `Disconnect`, `TearDown`; `Accounts*`, `Consume`, `Complete`, `BudgetExpires`, `IssueOffer`; `CacheHit`, `CacheMiss`, `Store` |
| `cache-keys.ts`; `streaming.ts`, `StreamingList.tsx` | `SearchKeys`: `KeyOf`; `StreamingList`: `StreamingListReducer`, `Render` |
| `resolver.ts` getTenantDb, open, evictOverflow, close | `TenantPools`: `Hit`, `Join`, `StartOpening`; `OpenPool*`, `OpenFails`; `EvictionEnds`; `Close*` |
| `provisioning.ts`; `apply.ts`; `fanout.ts` | `TenantMigrations`: `LookUpTenant`, `CreateDatabase*`, `RecordDbName`; `ReadStatus`, `ApplyFile`, `FindApplied`, `FileFails`; `StartFanOut` to `EndFanOut` |
| `session-service.ts`; `gateway/stages.ts`, `machine-auth.ts` | `Sessions`: `Verify*`, `Rotate*`, `Revoke*`; `Gateway`: `ResolveTenant`, `Authenticate*`, `Entitle`, `Limit`, `Respond` |
| `totp.ts`, `recovery-codes.ts` | `TwoFactor`: `Present`, `RefuseReplay`, `Accept`; `Consume` |
| `fingerprint.ts`, `sanitize.ts`, `transport.ts` of sandbox-replay | `SandboxReplay`: `FingerprintRequest`; `SanitizeRecording`; `Record`, `Replay` |
| `config.ts` of api and worker; `supplier-registry/src/index.ts` | `Deployments`: `LoadApiConfig`, `LoadWorkerConfig`; `Registry`, `CredentialsFor`, `Hop` |

## 3. Runs

Each module names its mutants next to the definition they corrupt (a dropped guard, a
missing reset, a forgotten stamp); for every property of a passing run `PROJECT.json`
names one that the run then refutes.

| Run | Instance | Shows |
|---|---|---|
| `lifecycle` | 2 cancel requests, 2 workers, 1 death, clock to 3, symmetry | ledger and state agree; the promise to finance is kept; an answer to the buyer is true; a supplier-side cancellation always has someone to act on it; a confirmed item is charged as of the request |
| `liveness` | 1 request, 1 worker, 1 death, clock to 6 | every wait ends in a settlement or in the manual queue; an item stranded before the supplier's answer surfaces |
| `sales` | inputs of eleven pure parts, below; 2 offers, 2 references, 2 agencies, 2 book requests, 2 checks, lifetime 1, window 0, symmetry | fee, revalidation, merged fee and rates of the adapter; rule and price; token, recheck and views of an offer; replay; start-up; one bookable successor, one attempt, claims accounted for |
| `suppliers` | a read and a booking, threshold 2, cooldown and budget 2, lag 1, clock to 8, live and replay; 2 searches, 2 suppliers, 1 cache, 2 nationalities, all pairs of small searches by key | the holder of the probe slot frees it, a second probe joins only one that has outlived the cooldown, the count is the streak; suppliers are told of once and the list shows it, what arrived is returned, no foreign rates, opened streams end |
| `worker` | 3 events (one the sink never takes), 1 worker, batch of 2, 2 faults; 2 confirmations (one unaddressed), 2 workers, 3 attempts, 1 death, 1 lost reply | repeats follow a lost stamp, every event arrives; failures surface, delivery ends |
| `tenant_db` | 3 callers, 1 pool, 2 tenants and a stranger; 2 provisioners, 1 fan-out, 3 releases, 1 fault | no pool leaks; files once and in order; reports true; provisioning ends |
| `requests` | 2 callers over 3 sessions, 4 routes, 3 hosts, 1 key; 2 verifications over 4 steps; 2 recovery codes; 1 booking, 2 agencies, 2 languages, 2 renders or downloads, 1 brand edit, 2 faults | handlers serve callers in scope only; sessions, steps and codes are used once; the deleted stay deleted; a row names an object its hash pins; a caller gets the voucher it asked for |
| `stale_penalty` | 1 request, 1 worker, clock to 3 | refuted: section 5 |
| `tampering`, `rotated_token`, `rotation` | the inputs of the pure parts | refuted: section 5 |
| `cancelled_voucher` | the booking of `requests`, without edits and faults | refuted: section 5 |

### Bounds

- `lifecycle`: `ApiHorizon` 2 keeps the api's steps early, so every one of their
  interleavings with each other and with two pollers is explored, while `MaxTime` 3 leaves
  an instant on which an item can exceed the pending age. Two requests are enough for
  every race over the request instant, since a third meets the same row as the second.
  `MaxCrashes` 1: one death leaves the other processes racing; any number of deaths is
  covered by the proofs of types, ledger and promise.
- `liveness`: `MaxTime` 6 is the api's horizon plus the pending age plus the longest
  delay: the latest instant at which an escalation can fall due, so no wait is cut off by the end of the clock.
- `sales`, pure parts: fees of up to 3 supplier rows in any order at each of 5 instants; rows of
  equal, earlier and later deadlines need three. Records of up to 3 rooms. The rule selection
  compares two rules at a time, so pairs cover every shape of a rule and triples the order in which
  winners replace each other. Prices: nets to 11 under every value type, tax mode, split and
  conversion. Discounts of 200% make the clamp, a net of `MaxSafeInteger` (20000 here) the overflows
  happen; a split of one half makes both shares tie. Tokens over every column altered, by six
  presenters; rechecks with net, policy, rate and rules each moved or not; views in currencies of 0,
  2 and 3 digits, and one whose digits differ between the tables; recordings with a secret in query,
  header and body, rotated or not; environments with each block whole, absent or short of one
  variable.
- `sales`, offers: a violation of `OneBookableSuccessor` or `OneBookAttempt` needs a root and one
  successor, hence two offers; lifetime 1, window 0 and clock 1 reach both expiry and a stale check.
- `suppliers`, calls: clock 8 with cooldown 2 allows three half-open phases after a trip. A budget
  that equals the cooldown is the code's default for a booking and a cancellation (30 s both); with
  a lag of 1 a probe then outlives the cooldown and is joined by a second. A check (15 s) and a
  retrieve (20 s) end within it, and are alone. The theorem is about any budget and lag.
- `suppliers`, searches: two lanes are the least for an answer beside a failure or a late one, two
  searches for a shared cache; one enables both suppliers, the other none or one. A lane may hang
  for ever, so the budget is the only end; it may expire before any turn.
- `worker`, outbox: three events and batches of two make the order and the limit matter: the event
  that always fails can stand at the head of a full batch. Two faults let an event be taken by the
  sink and lost, twice. The sweep races the dispatches; races between sweeps of several workers are
  covered by the proofs, not by this run.
- `worker`, vouchers: three attempts give two different backoffs; mails are counted to two, because
  a third changes no property.
- `requests`, who may act: three sessions allow two rotations of one login. Two steps share a code,
  and one step of drift reaches both sides. Credentials are dated from the first instant to one past
  the skew ahead of the clock.
- `requests`, vouchers: two calls race; an edit lets a row and an object differ; two faults, an
  object be lost after a death. A booking may be cancelled before, in or after a call.
- `tenant_db`: one cached pool makes every second opening evict; three callers make one join an
  opening while another is evicted. Three releases: the same, one file more, and one edited.

Deadlock is not checked (`CHECK_DEADLOCK FALSE`): bookings settle, clocks reach their
bound and requests are answered; a state without a next step is a legitimate end.

### Fairness

Sweeps, clocks and event loops are fair, people and suppliers are not. BullMQ repeats the sweep job in every worker
(`worker/src/index.ts`, `upsertJobScheduler` with `every`), and each await of a pass ends: by
an answer, an error or its deadline. Hence WF of the worker's step (`PollStep`,
`SweepStep`, `PassStep`) and of the clocks. In a search the event loop consumes what is ready (`Turn`), the query
for the suppliers answers (`Accounts`) and the timer fires (`BudgetExpires`); a lane owes nothing. In `tenant_db` a
run takes its next statement and a run that died or failed is started again, with the faults
bounded. Nothing is assumed of api handlers, of the supplier or of
the sink: they may stop for ever. Deaths, lost replies and faults are bounded, without which
no delivery is owed. `EveryEventArrives` is owed only while fewer events than the
sweep's limit always fail.

## 4. Proofs

Checked by TLAPS for every value of the constants that satisfies the modules' named
assumptions (`*Assumption`): numbers of workers, requests, offers, events, sessions,
tenants, releases and files, prices, policies, delays and bounds are arbitrary. TLC
evaluates the assumptions on every run. The ones that say more than a type: delays,
budgets and limits are natural numbers and not zero where the code divides or counts to
them; markers (`None`, `Nobody`, `NotApplied`) are none of the values they stand beside;
a release ships its files one after the other (`ReleasesAssumption`); the control plane
is no tenant, and a run either provisions or fans out (`DistinctAssumption`); the callers
of the resolver are finitely many at a time (`CallersAssumption`), and so are the suppliers
(`SuppliersAssumption`); the recorder's lists know the fields of the conversation: clocks are volatile,
cookies redacted, lengths not replayed (`ListsAssumption`).

**Cancellation policy.** `PenaltyIsAmount`: the resolved fee is an amount.
`LoopFindsLatestRule`: on a valid policy (rules in the order of their instants) the rule
`resolvePenaltyAt` ends on is the latest in force, and there is none before the first.

**Booking lifecycle.** The argument rests on the runner: `NextIsRunnerStep` shows that
each step of any process is one operation of the runner on the item, or leaves row
and books alone. Types are kept by the operations (`RunnerStepTyped`) and by the local steps
of each handler (`SupplierTyped`, `BookTyped`, `CancelTyped`, `PollTyped`), together
`TypeInductive`. Postings are the arithmetic of the templates (`PostingArithmetic`), so a
transition takes the books of one state to the books of the next (`TransitionBooks`,
`RunnerStepBooks`). From these: `TypeCorrect`; `LedgerCorrect`, the inductive invariant
being `TypeOK /\ LedgerMatchesState` (types are needed because posting is arithmetic on
balances); and `KeepsPromise`, the refinement of `BookingPromise`: initial states map to
initial states and each step to a step of the promise or a stutter.

Cancellation rests on `Settled`, an invariant about what each party has in hand. An item that
has left the booker only moves forward, from pending confirmation over confirmed to cancelled, and a
request once recorded stays until the cancellation (`Forward`). So a conflict that a
settlement meets is a step of the item, of which there are two: three attempts suffice
(`CancelSettled`). What a poller loaded is still a prefix of what the item became
(`PollSettled`); until `bookHotel` acts on its answer the item is its own
(`BookerSettled`); and a cancellation at the supplier came from a handler that is still at work, left a
request on the row, or reported an error (`SupplierSettled`). Each kind of step keeps the four
parts (`SupplierKeepsSettled`, `BookKeepsSettled` and so on). Theorems: `CancelAnswersTrue`,
`DivergenceOwned` and, with the ledger, `RequestedPenaltyCharged`, an action
property: only a settlement takes a confirmed item to cancelled, and the instant it
charges by is the row's.

**Offers.** `IInv` adds to the four properties that the root of a lineage exists
(`RootsExist`, so a newly searched offer starts a lineage nobody is in), that a request
past its claim holds a claimed offer (`ClaimHeld`) and that no two hold the same
(`ClaimExclusive`). `OneBookableSuccessor` is inductive with `RootsExist` because
superseding invalidates the old row in the transaction that inserts the new one;
with the claims it yields `OneBookAttempt`. Theorems: `OffersTyped`,
`OneSuccessorOnly`, `OneAttemptOnly`, `AnswersAreOwn`, `NoClaimIsLost`.

**Outbox.** `IInv` adds that the sink's answer precedes the stamp (`ReceivedInv`), and
that what a worker delivered without a loss is stamped or in its hand, while what is in
its batch it has not delivered yet, or only with a loss (`RepeatInv`). The query's
`published_at IS NULL` makes the latter inductive. Theorems: `OutboxTyped`,
`StampIsEvidence`, `RepeatsHaveACause`, `FirstStampWins`.

**Transport.** `IInv` adds what the phase of a send says of its attempts, its deadline and
the clock (`SendInv`), that the probe slot, the half-open state and the set of probing
sends agree (`SlotInv`), and that probes of earlier half-open phases were admitted before the breaker
opened again, and so a cooldown before the next probe (`ProbeInv`). Theorems:
`TransportTyped`, `BreakerNeverWedges`, `SecondProbeIsLate` and, of the two together, `ProbesSound`;
`BookingsDialedOnce`, `BreakerCountsStreaks`, `SendsEndInTime`. `SecondProbeIsLate` relates no constants to each other: of two sends
that probe a live supplier together, one was admitted a cooldown ago or longer. That there is
one probe where every call ends within the cooldown follows from it.

**Search** (in `SupplierProofs`, with the transport). `SearchInv` is a predicate of each search: its record and
its frames. While suppliers race, the client was told of exactly those no longer pending, once each,
and the counters are the numbers of result and failure frames (`Racing`); pending suppliers are
enumerated once each when the budget ends (`EnumeratesOnce`, about `SetToSeq`); a lane that
delivered in time is still pending and settled or was sent, and the budget's turn comes only when no
settled lane is pending (`ArrivedOK`); what stands in the cache stands under the nationality it was
priced for, and so does what a search was given (`CacheOwn`, `RatesOwn`). Hence `SuppliersToldOnce`,
`ArrivedAreReturned` and `RatesAreOwn`.

What the streaming list shows is `useStreamingSearch` folded over the frames, which the run looks at
in each state. `Shaped` says what a stream is: the suppliers asked, what became of each, and an end that
carries the totals; or one frame that says that the search failed. Along its prefixes (`ListUnfolds`) the
list tells what was streamed so far (`Tells`: `StartTells`, `ReportTells`, `EndIsTold`), so it shows
every supplier in its state and every offer (`ListTells`), and nothing of a search that failed
(`FailureShown`). With `Racing`: `SearchesToldWhole`.

Two searches have one key if and only if they ask the same, up to the order of rooms and of
children's ages: a sorted list has as many of each room as the list had and is the only such
(`KeysTellWhatIsAsked`, for any stays, targets, parties and nationalities). Guests that match the
occupancy of a search match the rate of any that shares its key, heads and children counted
(`AnyGuestsFitTheRate`). With `NoForeignRates`: `RatesFitTheParty`.

**Vouchers.** `IInv` adds that a pass about to record a success has mailed. Theorems:
`DeliveryTyped`, `SentWasMailed`, `NoSilentFailure`, `SettledRowsStay`.

**Documents.** `IInv` says what a call knows at each await (`CallHolds`), that a row is about its
own object and an object about its own key (`RowHolds`), and the reason `RowPinsItsObject` holds:
of the renders between put and record on one undisturbed key there is one, and it finds its
bytes there (`PutHolds`). Theorems: `DocumentsTyped`, `RowPins`, `ServedRight`.

**Sessions and gateway.** A hash that has left the store never returns: deletes and touches shrink the
set of live hashes, and an issue takes a new one (`StoreOK`, `StoreStep`). Hence a rotation that deleted its
record is the only one that did, and the hash has no heir yet (`RotateOK`); a token that was dead
when a request came is read as absent (`CallOK`); and what a request has passed so far stays
so while it waits for the next stage (`RequestOK`, `InScope`). Theorems:
`RotationHasOneHeir`, the session part of `SingleUse`; `RevocationWins`; `OnlyServedInScope`.

**Second factor** (in `AccessProofs`, with the two above). While no two verifications have overlapped, one at most
is under way and what it read is still in the store (`InTurn`), so what it accepts is above every
step accepted before (`CodesInv`): `AcceptedStepsRise`. An unused code of the user's own
authenticator is matched with its own step, since the window holds no earlier step of the same digits,
and the store never holds a step above the highest accepted (`HonestInv`): `HonestCodesAreLetIn`. What
the server checks with is read back from the text of the enrollment, and is the enrolled secret
by `Base32RoundTrip`, for secrets of any length: fed what the encoder has given out so far,
the decoder holds all bytes but the last one, and of that one the bits that the encoder does not
still keep (`Follows`); a byte more leaves it so in each of the five states of the encoder
(`FollowsGoesOn`, the bits in `BitsAtNone` to `BitsAtFour`), and the padding of the last symbol completes it. That
`Regroup` goes on with a digit where it was is `RegroupGoesOn`, from the recursion of the fold. The secrets are
sequences of bytes (`SecretsAssumption`). The marked recovery codes are those spent,
each once (`RecoveryInv`): `RecoveryCodesServeOnce`. With `RotationHasOneHeir` they give `WhatServesOnce`,
which is `SingleUse` of sessions and second factor under way together; the run moves one at a time.

**Tenant databases.** The theorems are about `PoolsInit /\ MigrationsInit` and all interleavings of the
two parts, of which `tenant_db` explores one at a time. `PoolsInv`: the recency list names the tenants
with a cached pool, each once and within the limit (`RecencyOK`); a cached pool is connected to what
`db_name` says, which is written once (`CachedOK`, `RowsOK`); an opening is the one others
join (`OpeningOK`); and every open pool is cached or in the hand of an eviction
(`ShutdownOK`). So open pools inject into cached tenants and evictions, which bounds them:
`PoolsAreInHand`. `MigrationsInv`: what is recorded in a database is a prefix of its files and says what
was committed (`RecordedOK`), and is only ever added to (`Extends`); a run has left behind it only files that are
recorded as it ships them (`TodoOK`), so the first it has yet to apply is the next of the
database; a database reported ok in apply mode is up to date (`Truth`); and a listed tenant is in the
queue, in hand or reported on (`Phase`). Theorems: `FilesOnceInOrder`, `FanOutTellsTheTruth`.

**Pure algorithms** (in `OfferProofs`, with the offers). What TLC asks of each input of a small set is
proved of every input of the right type: `Listed`, `Askable`, `Answered`, `Detailed`, `Presentable`,
`Viewable` and `Recheckable` say what that type is (lists of any length, amounts and dates any
integers, fractions with a denominator, `Unset` none of the values it stands beside), and hold of every input of
the run. What they say beyond types: the answer to a revalidation is a success in the currency
asked for; rooms of a booking are in one currency; a row was not checked after the token
is presented; an amount that people are shown is not negative, in a currency whose digits Intl prints;
a new net of the supplier can be priced; and the secret of a recorded conversation travels under a name
of its own (`Sayable`).

The library's induction takes an operator, so induction is by the least element of a set of
numbers (`Induct`, `SubsetInduct`); with it, the recursion by which the community modules fold over a
finite set is defined (`RecursionOnSubsets`), and a sum takes any element out and is the same in any
order (`SumInAnyOrder`, `SumTakesOut`, `SumOfZeros`). What follows:

- `EveryPriceAddsUp`: a division rounds to the nearest (`RoundsToNearest`), and an allocation over two
  weights gives the rest to the largest remainder (`AllocatesTwo`), so components, net, markup and tax add up
  (`TaxIsAShare`, `ComponentsAddUp`).
- `MostSpecificWins`: the loop of `selectRule` holds the best of the rules it has seen
  (`LoopHoldsTheBest`), since to take over is an order (`TakesOverOrders`); a scope weighs more than
  all below it together (`HighestDecides`).
- `EveryFeeIsTheSuppliers`, `WhatIsAcceptedIsAsPriced`: rows can be put in the order of their dates
  (`RowsCanBeOrdered`), so the policy exists and its last rule begun is the row in force
  (`OneRowInForce`, `FeeOfThePolicy`).
- `MergedFeesAddUp`: the instants of several policies have one ascending order (`AscendingOrders`), and at
  each the merged fee is the sum (`FewInstants`, `MergedFee`).
- `NoRateIsDropped`: no two rooms of an answer are one (`RoomsDiffer`), an offer has the best board its
  spelling names (`BoardOfOffer`), stands behind as many as precede its room (`PlaceInOrder`), and the
  counts of what is skipped add up to the rest (`CountsAddUp`).
- `TokensVouch`: what is read from a row is what was signed if and only if no signed column was touched
  (`OnlyWhatWasSigned`), and a lookup by id finds it among other rows (`VerifyAmong`); what is not is
  refused, by `offer_not_found` alone where the stored amounts are numbers.
- `UnchangedKeepsTheOffer`: the offer a check starts from is the record that was issued
  (`OfferIsTheRecord`); a check has five outcomes (`CheckSays`); one told unchanged is bookable at what it
  was shown (`UnchangedIsKept`), a successor is good for what the supplier answered and the offer it replaces
  books nothing (`SuccessorIsGood`, `SuccessorReplaces`), at the same price unless the token rotated and the
  rules changed (`SameRulesSamePrice`); and what can be priced has a successor (`SomeSuccessor`).
- `ViewsTellTheFee`: the segments of the portals' timeline cover time without overlap
  (`TimelineOfThePolicy`), a printed decimal is worth its amount (`PrintsItsWorth`), and a deadline within a
  printed minute has begun when that minute has (`BegunByTheMinute`).
- `ReplaysAsRecorded`: two calls of a conversation have one fingerprint if and only if they are to one
  path, about one hotel and with one secret or a secret that is covered, so a call is never answered for
  another, and is answered at all whenever its secret was not rotated or is covered (`SameCall`, from `QueryOf` and
  `BodyOf`); what is left of a conversation is its login and the last answer about rooms
  (`FilesOfConversation`), and a file tells of its answer all but what is redacted (`FileTells`).
- `ProcessesAgree`: by cases on the blocks of variables (`BlockParts`, `ProcessHonest`).

Where a proof did not go through, the property said more than the code keeps, on inputs that TLC was
not given. `DeploymentsAgree` now sets aside an `OFFER_SIGNING_KEY` that is set and empty;
`PriceAddsUp` states inclusive VAT so that it holds at 100 % too; `MergedFeeIsTheSum` knows both spellings
of a cancelled booking; `TokenVouchesForThePrice` states what is genuine of the row, not of how it was damaged;
`UnchangedIsAsOffered` counts an echo for another property among the refusals; `NoRateVanishes` says
of which rate a search fails, and not merely that it may. The cases of
`CheckOffer` overlapped and are now tried in order, as the code does.

The theorems that no run names (a stamp is evidence, sent means mailed, a booking is
dialed once, answers by the deadline, own answers, settled rows, one heir, own rates, suppliers told
of once, keys) need no instance of their own: the proofs cover them, and the runs were given to
what they do not.

**Model-checked only.** Every safety invariant and action property that a passing run checks is stated
by a theorem. What stays with TLC is liveness (`WaitsEnd`, `StrandedItemsSurface`, `DeliveryEnds`,
`EveryEventArrives`, `SearchesEnd`, `ProvisioningEnds`), since TLAPS does not handle fairness and
ENABLED here.

## 5. What the runs refute

`stale_penalty`: the poller decides the penalty of a pending booking from the row loaded
before the supplier hop (`pending.ts:269`); a cancel request recorded meanwhile is
on the row, yet no fee is charged. Migration 0004, line 18, says penalties use the
policy at the instant of the request. `ConfirmedPenaltyIsTheRequested` says where it does hold.

`tampering`: a stored net beyond the safe integers is read before any signature is verified, and
the reading throws a plain Error (`offer-store.ts:110-115`): 500, where `offers.service.ts:12-15` promises one opaque
`offer_not_found` for whatever was tampered, at rest too. `TokenVouchesForThePrice` demands that
code for everything else, and a refusal here.

`rotated_token`: the supplier answers a check with the net and policy of the offer and another
token, and a markup rule has changed since the search. The successor is priced with the new rules
and told as "unchanged" (`check.service.ts:251`), against lines 9-10 and 169-171, "same price, new token".
`UnchangedIsAsOffered` sets this case aside and no other of those told unchanged.

`rotation`: a credential under a name that only the key pattern knows (`AuthToken` in a JSON body)
is redacted in the file but enters the fingerprint, and so does any credential of a form-encoded
body. After its rotation the recording is not found, against `transport.ts:46-50` and 173-178.
`ReplayTellsWhatWasRecorded` says nothing of whether these are answered, only that it is never by
another's answer. TBO's adapter sends its credential in a header, which is not hashed.

`cancelled_voucher`: a voucher is rendered while the booking is confirmed, the booking is
cancelled, and a download then serves the stored object without a look at the state
(`documents-service.ts:131`), against `voucher.controller.ts:75` and 83. `ServedAsAsked` demands that at least
nothing is rendered afresh for it.

Observed while modelling, without a run of its own:

- Transport. A success of a call admitted before the trip closes an open breaker with no
  cooldown and no probe (`transport.ts:199` against 154-156).
- Vouchers. Two racing sweeps may mail one voucher twice (`delivery.ts:157`); only its record
  is exclusive. The header (line 14) says they deliver once. The policy lines print the
  supplier's net penalties in a template that is described as net-free.
- Offers. A check answers "unchanged" although its stamp matched no row (`check.service.ts:144`).
  A moved rate that no FX snapshot covers any more is superseded by nothing: the check fails
  (240) and the offer stays bookable where an earlier check stamped it; no property demands more. Offered guests are compared with the occupancy by count, not by age.
- Pricing. `resolvePrice` multiplies minor units by the stored rate (`resolve.ts:237`) and
  takes the product for minor units of the sell currency. The rate is documented as decimal
  units per unit, so between currencies of two and three decimals (USD, KWD) the price
  is ten times too small or too large.
- Views. TBO's mapping (`mapping.ts:54-62`) knows sixteen currencies without minor units, the documents
  three (`format.ts:18-29`): a fee in UGX or CLP is printed 100 times too small on a voucher. The preview's
  refund is null in another currency once a rule is in force, though not before the first rule.
- Search. Reversed dates pass the controller's schema, so that the stream opens and ends in
  `search.failed` (`search.service.ts:157`). The suppliers of a tenant are awaited outside the
  budget. Lanes "still pending at completion" (`streaming.ts:73`) do not occur, as the engine
  reports each outstanding lane as failed first. `ArrivedIsReturned` rests on the
  controller not awaiting the socket's drain. The availability key leaves out currency and
  locale, and sorts rooms while a booking sends guests in its own order
  (`cache-keys.ts:17-20`, `adapter.ts:202`).
- TBO. A cancellation is a Cancel and a retrieve; when the retrieve fails the item stays confirmed
  with no request recorded. One unknown ChargeType ends a search; an unknown MealType skips a rate.
- Tenants. A caller may be handed a pool that another opening has just ended
  (`resolver.ts:110`). The `applied` of a fan-out lists files a concurrent run applied. A tenant that an
  older release provisions after a fan-out listed the tenants is passed over.
- Documents. Two renders around an edit of the brand may leave the row of one and the
  object of the other, the exception of `RowPinsItsObject`.
- Replay. Equal fingerprints overwrite each other: a polled call replays its last answer.
- Start-up. A worker with an object store and no mail does not start beside an api that does. An empty NODE_ENV
  is production to the registry and an error to the configuration. `mail.ts:46` drops the
  credentials if only one of user and password is set.
- TOTP. Overlapping verifications both read the replay store before either writes
  (`totp.ts:236-242`), so one code may pass twice; no route uses it yet.
- Runner and outbox. A request that overtakes another with the same clientReference
  and offer is refused `offer_invalidated` rather than replayed, so the duplicate branch of
  `createHotelBooking` never replays the same offer (`OfferBooking`). The stamp of
  `dispatch` (`events.ts:100`) is outside its `try`, so a database error there rejects an
  operation that has committed; `InlineStops` takes that step.
  `recordPollAttempt` (`runner.ts:519`) is guarded on `escalated_at` only and rewrites the
  schedule of an item that was settled meanwhile, which its comment excludes; the row is
  settled, so nothing follows from it. For some buffers (353 basis points is one)
  `1 + bufferBps / 10_000` is not the decimal it stands for, and a product that ties may
  round the other way; `Pricing` computes with the exact factor.

## 6. Limits

One tenant but in `tenant_db` and the sessions and requests of `requests`; one item per `BookingLifecycle`, one booking per `Documents`;
one supplier account per `SupplierTransport`; one process per `HotelSearch` and
`TenantPools`. Clocks of processes and database agree, but for machine credentials, which
have a skew, and authenticators. Postgres is taken at
its word: a transaction is atomic, a guarded UPDATE sees the row it changes, unique keys
hold. Hashes and signatures are injective. Amounts are integers, in one currency outside
`Pricing`, `PolicyViews` and `OfferTokens`.

The composite runs move one part of a behaviour at a time: the parts share nothing, or one column
that is written once (`tenant_db`); the pure parts are asked apart from each other. `BookingLifecycle`, `OfferBooking`, `Outbox` and
`VoucherDelivery` are not composed: their product is beyond TLC at the bounds that make
their hazards happen, and what they share (creation, one event per operation,
`escalate`) is modelled on both sides. The escalation of a failed voucher is a step of
`BookingLifecycle` that may happen at any time after a confirmation.

Not modelled: the static content cache of the search, which has no caller; the rate limiter,
which admits everything at this commit; typesetting of PDFs and mails; queues, probes, logging and metrics;
design tokens and the portals, which are stubs; the scanner that keeps secrets out of the
repository (`guard.ts`); passwords (one library call); fiscal and connector packages, which
are placeholders.

What a property leaves out is said in its comment: `FailureSurfaces` holds while no process
dies, `ProbesApart` of a live supplier, `SingleUse` for verifications of codes
that do not overlap, `RowPinsItsObject` up to renders that race around an edit; and the three
properties beside `tampering`, `rotated_token` and `rotation` up to what those runs refute.

Observers (`root`, `invalidatedBy`, `told`, `gave`, `lost`, `streak`, `probing`, `ran`) appear in
no guard that the code does not have.

## 7. Plan

1. A composition of `BookingLifecycle` with the attempts of `VoucherDelivery`, at bounds of
   its own, and with the reasons of an escalation, of which the first alone is kept.

Rules of the house: one action per handler step; a property is added with the mutant it
catches; what a theorem needs is a named assumption or a named lemma; no RECURSIVE
operator in a module that is proved about.
