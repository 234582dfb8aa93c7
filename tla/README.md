# TLA+ verification of the restaurant back end and its companion programs

This directory holds a formal model of `src/restaurant_api`, the back end of a restaurant
(till, floor board, kitchen, queue, members, campaigns, stock, clock, menu, daily report),
and of the two smaller programs beside it, `src/devswarm` and `src/tigerline`. The modules
are written from the code; TLC checks them on small instances, and TLAPS proves the main
safety properties of the till, the floor events, the ledgers, the campaigns, the front of
the house, DevSwarm and Tigerline for instances of any size.

Contents: [inventory](#1-inventory), [modules](#2-modules), [runs](#3-runs-and-bounds),
[fairness](#4-fairness), [proofs](#5-proofs), [findings](#6-findings),
[abstractions](#7-abstractions), [what is not modelled](#8-not-modelled), [plan](#9-plan).

## 1. Inventory

The repository is four programs. `restaurant_api` (FastAPI, SQLAlchemy, PostgreSQL, static
tablet pages) is the one with shared state and concurrent actors. `devswarm` is a LangGraph
loop of five LLM agents. `tigerline` is a sequential pipeline that classifies odds, sizes a
bet and settles it, with an SQLite file. `tigerline-web` and `sports-intelligence-desk` are
pages.

How the parts of `restaurant_api` interact: a request enters a router, which calls a
service function with a database session from `api/deps.get_db`. Services only `flush()`;
`get_db` commits when the handler returns and rolls back when it raises. Services call each
other inside that transaction (closing an order accrues points, which may qualify a
referral; a spin may create a member, who is given a welcome bonus and a referrer). A
mutation of the floor or the kitchen also inserts an `order_events` row and buffers a copy,
which `get_db` pushes to the sockets of the store after the commit. Nightly jobs work on
the same tables. There is no other shared state: concurrency is concurrency of
transactions, at PostgreSQL's READ COMMITTED, plus the sockets.

| Component | State | Operations | What is hard | What makes it correct |
|---|---|---|---|---|
| Table sessions (`table_service`) | table, status | open, close, cancel, transfer, floor plan, table CRUD | checks on a table before a rival seating is visible | one open seating per table; an ended one stays ended; it ends with its bill settled |
| POS bill (`pos_order_service`, `table_order_service`) | order, lines, discounts, payments | get or create, add / update / void line, combo, discount, service charge, quote, split payment, checkout, merge | no row locks; decisions on a stale bill; automatic rules whose hour passes; rounding | one open bill per seating; never below what was collected; closed when exactly covered; frozen afterwards; stock reversed once |
| Discounts (`discount_resolver`, `discount_rule_service`) | rules | resolve, rank | stacking order, two rounding modes, amounts beyond the bill | the quoted price is the price charged |
| Counter and cash drawer (`pos_order_service`, `cash_drawer_service`) | orders, payments, drawers | takeaway, online order, call, collect, void, open and close the drawer | check-then-write; two readings of one clock | a shift counts the cash that was taken in it; an order is charged once |
| Orders, stock and cost forms (`orders_service`, `stock_service`, `events_service`) | rows, stock movements | order ingest, purchase, count, waste, staff meal, tasting | retries with a key that no index backs | a call that is repeated is recorded once |
| Floor events (`event_hub`, `routers/tables`, page) | event log, queues, cursors | record, publish, subscribe, replay, stream, refetch, reconnect | numbers out of commit order, bounded queues, crash between commit and publish, refetches that fail or overtake each other | no phantom event; a board whose newest refetch was shown catches up |
| Kitchen (`kitchen_service`) | line status and stamps | list, start, ready, serve, cancel | two cooks on one line; a line voided meanwhile | stamps without gaps; the newest event tells the status |
| Reservations and queue (`reservation_service`) | bookings, entries, numbers, pre-orders | book, join, call, seat, pre-order | unlocked entry: seated twice, two pre-orders | counted numbers rise; a pre-order reaches its own table |
| Wallet and points (`stored_value`, `customers`, `ugc`, `referral`, `membership`, `points_expire`) | ledger and cached total per account | top up, spend, redeem, reward, accrue, gift, expire | some writers lock the row, some do not | total backed by ledger; one-shot grants; nothing spent twice |
| Members' records (`customers`, `referral`, `campaigns`) | members, codes, referrals, gifts | create, patch, delete, first spin, code on first use | look-ups without a lock, three unique indexes | a code a member was told brings it the friends who come with it |
| Campaigns (`campaigns_service`, `campaign_expiry`) | prizes, spins, vouchers | spin, redeem, patch, statistics, expire | quotas under a lock, lowered meanwhile; expiry on what was read before | stock and quotas respected; a voucher ends once |
| Clock (`clock_service`) | shifts | in, out, classify | check-then-insert; midnight and holidays | in once; the hours add up |
| Menu (`menu_service`) | items, options, combos, translations | create, patch, translate, delete, order | edits between the statements of an order | an order takes what the menu offered |
| Daily report (`daily_pnl_service`) | none of its own | compute | rows that change after the day | a day's report changes with its own rows only |
| Jobs (`jobs/`) | none of their own | nightly sweeps | run beside the till | one instance each |
| Authentication, audit, LINE, calculators, pages | none, append-only or pure | – | – | – |
| DevSwarm | swarm state | plan, design, code, review, test | two bounded loops that share the coder, a budget | what is delivered was reviewed and tested; it ends and says why |
| Tigerline | matches, plans, results | analyze, review, stats, exposure | three transactions per analysis; quarter lines; caps in a row | a plan has its classification; half stakes; caps |

`PROJECT.json` lists the components with their sources and status, and every hazard at the
line where it bites.

## 2. Modules

```
DiscountResolver  money (pure)      LaborHours  hours (pure)    Tigerline  bets (pure)
   |        \                            |                          |
TableBill    DailyPnl                Attendance                 TigerBook
   -> refines Bill

FrontOfHouse = Reservations + Kitchen
StoreDay     = Counter + Intake + Attendance + Menu + Members + DailyPnl   (Turns)
Campaigns    -> refines VoucherBook
EventStream     Loyalty     DevSwarm
MCTableBill MCFrontOfHouse MCStoreDay MCCampaigns MCDevSwarm MCTigerBook: the instances
TableBill_proofs FrontOfHouse_proofs Campaigns_proofs Loyalty_proofs EventStream_proofs
StoreDay_proofs Commands_proofs (DevSwarm and TigerBook), over Sums: the theorems
```

### The till

**DiscountResolver** is `resolve_discounts`, `amount_due` and the matching and ranking of
rules as operators over integers: cents, and ratios in hundredths. The running subtotal is
kept exact as a fraction, as `Decimal` keeps it, and rounded per row.

**TableBill** is the dine-in core. Its state is the three tables `table_sessions` (status,
table), `orders` (status, session, service rate, discount rows, sum of payments) and
`order_lines` (status, order, parent, total, and how often the stock consumption was
reversed), and `req`, what each transaction has read. A request is a handful of steps, one
for each point where another transaction can come in between:

| Step | Code |
|---|---|
| `Call…` | the first reads and refusals: `_load_open_session`, `_load_session`, `_load_line`, the order by id |
| `FindOrder`, `InsertOrder`, `AdoptOrder` | `_get_or_create_session_order`: query, INSERT in a savepoint that waits on the partial unique index, query again after an `IntegrityError` |
| `ReadLineOrder`, `LoadOrder` | `_guard_order_open`; `_load_order_with_relations` |
| one action per endpoint (`AddLine` … `VoidOrder`) | the decision on what was read, and all its writes, at the commit |
| `Rollback` | a refusal, a failed statement or a lost connection |

The rules that make this faithful are those of the ORM and the database. A row once read is
not refreshed, so decisions use the view in `req`. Only changed columns are written, so a
late commit does not restore the others. A DELETE that finds no row warns and the rest of
the handler stands; an UPDATE that finds none fails the request. An uncommitted INSERT
occupies its unique-index slot, and a second INSERT waits for it. The other modules of
`restaurant_api` follow the same rules.

**Bill** is the abstract specification: the price and the collected amount of a bill, with
no lines, sessions or requests. `TableBill` maps its rows to it (`TheBills`: status, amount
due from the committed rows, sum of payments) and states `ImplementsBill`.

### Floor events, wallet, campaigns

**EventStream** has the event log in commit order, the requests with their buffers, the
sockets (subscribed before the replay is read, then live) and the pages. A page never
renders an event: a frame moves the cursor up and, unless a modal is over the board, has
the floor plan fetched again. A refetch is `refresh()` with its await: it is asked for (by
the debounce timer, the poll, a closed modal, or the page's start), the server reads the floor
(`ReadFloor`), and the answer is rendered (`Render`) or the catch leaves the board as it is
(`FailRefetch`). Several may be under way, read and answered in any order, and each answer
that arrives is rendered, be it older than the board. What a board shows is the
length of the log when the answer rendered last was read. Modals are opened, closed with a
refetch (`CloseModal`) or hidden without one (`HideModal`, the sheets of the login and the
menu). `overlapped`, `cut`, `seen`, `since`, `hidden` (a frame came under a modal since the
newest refetch began) and `newest` (whether that refetch is under way, shown or lost) are
history.

**Loyalty** has one member's two cached totals, their ledgers, the sources of one-shot
rewards and the row locks. `Lock` is `SELECT … FOR UPDATE`; accrual and gifts read without.

**Campaigns** has the campaign row and its prizes with their row locks, the spins, the
vouchers and the day. A client's `spin` takes the campaign lock, counts the member's
spins, locks the prizes, draws any segment that still may come up and writes its count
back; a `redeem` locks its voucher only and rests on the unique index of one redemption
a day; the manager's patches read without a lock, so their UPDATE waits for those that
hold one, and `stats` is three statements. `JobRead`, `JobUpdate` and `JobCommit` are
the nightly job, which works on the vouchers it read before. **VoucherBook** is the
abstract book: a voucher is issued, then either redeemed once, in its window and as the
member's only one that day, or expired after its window. `VouchersEndOnce` is
`Book!Spec` under the mapping at the end of `Campaigns`.

### The front of the house

**Reservations** has the bookings, the walk-in queue, the seatings and the pre-orders. Each
request reads a row without a lock, decides, and writes column by column at its commit
(`CallQueue` and `PatchQueue`, `CallJoin` and `JoinQueue`, `CallSeat` and `SeatQueueEntry` …).
A party gets the ticket that the host wrote, any label of up to 16 characters (`Written`), or,
if there is none, a number one above the count of the day's parties. A written ticket is not
checked: it may look like a counted one, and the promise is about the counted ones
(`NumbersRise`). **Kitchen** has the order lines with their status and stamps, the events that
were committed about them and the cooks' transactions in two statements, the UPDATE that takes
the row lock and the INSERT that draws the event's number. **FrontOfHouse** composes them: a
line sold at a table is routed as it is added, one that was pre-ordered is not.

### The rest of a store's day

Six modules of one shape, a look before a write without a lock. **Turns** says when two
requests overlapped; each module records in a history variable which requests had ended
when one began. So a property can say "unless the two overlapped", which is the promise such
a handler can keep, and a check that was dropped still shows, as it then fails for requests
that follow one another.

- **Counter**: `takeout_sale`, online orders until they are collected or voided, and the
  drawer, which counts the payments between two readings of the clock.
- **Intake**: the ingest of orders and the five forms, with the look for the key of an
  earlier call, the look for a number, the recipe and the stock movements. The number of
  an invoice is looked for among those of the same supplier's tax id: without a tax id, or
  with a key, there is no look, and the number may be recorded again, as the tests of the
  router rely on.
- **Attendance** over **LaborHours**: clock-in and clock-out, and the classifier that
  splits a shift at midnight in Taipei into regular, overtime and holiday hours, in the
  rounding of the code. The adapter's holiday is the UTC date of the clock-in, as in the
  code.
- **Menu**: its rows under create, patch, translate, delete and the offers (groups,
  combo components, categories), and `add_line`, which reads them in three statements.
- **Members**: members with handles and codes, referrals and gifts; the five operations
  above with the indexes behind them. A code is minted twice when two requests find
  none.
- **DailyPnl**: the rows a day's report reads, and the report as an operator, in exact
  fractions that are rounded where the code rounds.

**StoreDay** composes the six. They share no tables but the report's inputs, and the report
is about other hours than the minutes of a race, so a behaviour is about one of them
(`shift`); requests are interchangeable and begin in the order of a queue.

### The two programs beside the back end

**DevSwarm** is one run of the command: the graph with its conditional edges, the state each
node returns, the retries of a model call, the coder's tool loop, the files and pytest, the
label and the exit code. What a model answers is any answer the parsers tell apart.

**Tigerline** has the pure parts: rules of the classifier, the two-stage harness, stake
bands, the main bet, its settlement and the three caps on the exposure. Lines are in units
of the precision that a file's decimals have, `Quarter` of them to a quarter of a goal; a
bet carries its own line, and `Settle` takes a line on the goals from the file, as
`review.py:132` does. **TigerBook** is the SQLite file under `analyze` (three saves,
interrupted anywhere), `review` and `stats`. Its history variable `resaved` has the matches
whose file was saved again since their last plan.

### Modules for checking and proving

The `MC…` modules give the constants their values. The `…_proofs` modules hold the theorems
about the module they are named after, and **Sums** the lemmas on sums and enumerations that
four of them cite. A module that is only composed states what it requires of its constants
as an operator (`CounterAssumption` …), which `StoreDay` and `FrontOfHouse` assume.

Operators whose comment starts with "Slip:" are not part of any specification. Each is a
plausible mistake in the code next to it; replacing the original by it must break the
property that `PROJECT.json` pairs it with (`mutants`), which shows that the property
depends on that code.

## 3. Runs and bounds

| Run | Instance | States | Shows |
|---|---|---|---|
| `BillTill` | 1 request at a time, 2 tables, 2 seatings, 2 orders, 2 lines, prices 5 and 10, a 50% discount, a 10% charge, two rules | 247k | the money promises and the refinement of `Bill` |
| `BillRaces` | 2 requests, 2 tables, 2 seatings, 3 orders, 1 line | 222k | what holds however requests interleave |
| `BillLive` | 2 requests, no symmetry | 52k | every request ends |
| `EventRaces` | 2 writers, 1 tablet, queue 1, replay 1, 2 events, 2 refetches under way, 2 drops or crashes | 1.3M | the board's promises |
| `LoyaltyRaces` | 2 transactions, every operation, 1 reward source, 4 ledger rows | 2.0M | balanced ledgers, one-shot grants |
| `CampaignRaces` | 2 clients, 1 desk, the nightly job, 1 member, 1 prize, 2 midnights, 2 spins, 3 edits | 2.0M | quotas, counters, and the refinement of `VoucherBook` |
| `FrontOfHouse` | 2 hosts and 2 guests, any two of them at once, 2 cooks; 1 booking, 2 parties, tables, seatings, orders and lines; 4 events | 247k | stamps, numbers, pre-orders and what the kitchen tells |
| `StoreDay` | 5 requests, 2 at once (4 at the clock, 3 at forms, menu and desk); 12 readings of the clock; a report of two days | 1.1M | the look-before-write handlers and the report |
| `DevSwarm` | 7 command lines, calls of 0 or 1 coin, 2 retries, 2 turns of the tool loop, the hop limit of the code | 741k | what is delivered, why a run ends, that it ends |
| `TigerBook` | 2 matches, 8 files, 3 scores, 3 analyses in 2 seconds, up to 3 plans together | 1.7M | plans and their classification, settlement, caps |
| `EventLost`, `PointsSpentTwice` | the smallest that shows it | – | the findings of section 6 |

*The till's properties come in two groups.* `OneOpenOrder`, `OneSeating`, `NeverReopened`,
`ClosedOrderFreesTable` and `TypeOK` hold with any number of overlapping requests.
`NeverBelowPaid`, `SettledExactly`, `SettledBillFrozen`, `StockReversedOnce`,
`EndedSeatingHasNoOpenBill` and `Bill` are promises the handlers keep one request at a
time, and `BillTill` checks them with one client; overlapping requests break them, since
no row is locked (`PaidWhileDiscounted` is the instance that a comment in the code denies).
`BillTill` leaves out close_session and cancel_session, which end a seating whatever its
bill (`SeatingLeftOpen`), and amount rules (`RuleBelowZero`). `SettledExactly` and
`ClosedOrderFreesTable` are stated for stores that do not call the order API's close_order
on a seating's bill: it takes no money and leaves the seating alone, by design.

*The other properties.* `StampsInOrder` (the stamps of bookings, queue entries and lines),
`QueueKept` (counted numbers rise, a pre-order reaches its own table, one bill per table),
`ShiftCountsItsCash`, `RetriesSettle` and `ClockInTurn` are conjunctions of the named parts in
the modules they come from. The properties of `StoreDay` hold for requests that do not overlap,
or say exactly what an overlap may do: two clerks who collect one order at once both take its
price; two tries of one call at once are both recorded; two clock-ins at once leave two open
rows. These exempted races are what the hazards of the list name as excused: no property denies
them, as the code does not. Where a unique index stands behind the look (`Members`, SKUs of
`Menu`), they hold without the exception. `WithinQuota` and `DayStands` are action properties.
The type invariants (`TypeOK` in each module) are listed in the run of the till only; the other
modules' were checked while the modules were built and can be added to any cfg.

`LiveBoardFresh` and `BoardCatchesUp` are about a page whose newest refetch was not lost, that
is, neither failed nor overtaken by an older answer rendered after it, and over which no frame
came under a modal since. In those cases the code leaves the board stale until the next frame
or closed modal, and so the properties do not deny it (`BoardStale.cfg` shows the case that a
comment denies). `SettledAsTwoHalves` is about bets at lines on the quarter grid, for their own
line and side, and excuses a match whose file was saved again after its plan
(`PlanResettled.cfg`).

*Why the bounds suffice.* Each check of a handler reads one bill, one table, one member
or one row, and each conflict is between a decision and a write that overtakes it, so
two overlapping requests (each free to call again, or followed by others) reach the
races the runs are about.

- *Till*: two orders of one seating, and two seatings of one table, are the smallest
  conflicts of the indexes, and the third order leaves room for a bill after a void or a
  merge. Two lines give a combo with its component, or two dishes; prices 5 and 10 with
  a half discount leave half a cent to round, and cross the minimum of the better rule.
- *Events*: a queue and a replay of one make both overflow with two events, which are also
  the fewest whose numbers can commit in the other order; of two refetches under way one
  overtakes the other; the two drops are a lost connection and a crash, in any order.
- *Loyalty*: four ledger rows allow earn, redeem, gift and expiry together.
- *Campaigns*: two spins are enough for a limit of one and a quota of one to be raced
  and to be lowered in between; two midnights let a voucher begin, end and be swept. A
  member with two vouchers is the only conflict of the redemption index.
- *FrontOfHouse*: two hosts race for one entry, two parties for one table, and two guests
  for one number or one pre-order; every check is of one row, so the two requests of a race
  are enough at once (`AtOnce`). The shifts (`Shifts`: bookings; the queue and its numbers;
  the queue and the tables; the kitchen) keep the areas from multiplying each other's
  states, as they share rows only where a line is sold or pre-ordered, which every shift
  may do.
- *StoreDay*: a sequence that an overlap could hide needs a request after the pair, and
  the retry of a retry one more; a till shift needs its opening, two payments and its
  closing, and a fifth request to open the next. Instants 7 and 24 are the two sides of
  midnight UTC within one day of Taipei, and the next day.
- *DevSwarm*: the seven command lines have more reviews than repairs and the reverse,
  limits of 0, a budget that ends the run in either loop, and limits beyond the hop
  limit. A cost of one coin tells apart below, at and above a budget.
- *TigerBook*: the files reach every scenario that leads to a bet and one without, and two
  of them differ in the line on the goals only, one on the quarter grid and one an eighth off
  it (`Quarter` is 2); two seconds are the smallest number that tells "the same second" from
  "later".

Bounds named in the modules: `MaxRows`, `MaxSeq`, `MaxDrops`, `MaxAsked`, `AtOnce`,
`MaxEntries`, `MaxDay`, `MaxSpins`, `MaxEdits`, `MaxTime`, `MaxForms`, `MaxPunches`,
`MaxVisits`, `Busy`, `Instants`, `MaxRuns`, `MaxPicks`, the id sets (an id is used once), and
`RoomForOrder` (a request starts only while an id is left for its order). `MaxRetries`,
`MaxSteps` and `HopLimit` are limits of the code itself.

Deadlock checking is off in every run: the systems stop legitimately when no client calls or
the command is done, and each instance runs out of ids.

## 4. Fairness

`BillLive`: weak fairness of each client's own steps up to its commit or refusal: the event
loop runs a request that can run. Strong fairness of `InsertOrder`: PostgreSQL wakes the
waiter of a unique index when the transaction it waits for ends, and the waiter does not
lose the slot for ever to newcomers that roll back. No fairness makes a client call, and a
`Rollback` before the commit point is not forced.

`EventRaces`: weak fairness of a request's end, of publish, of reconnecting (the page's
timer), replay, delivery and the debounced refetch; a refetch that was asked for is read by
the server and then answered or failed. The five-second poll has none, so `BoardCatchesUp`
does not lean on it. Nothing opens or closes a modal, and nothing forces a crash or a drop,
which `MaxDrops` bounds.

`DevSwarm`: weak fairness of the whole next-state relation. The command is one process that
runs its next node; a model call is given up after `request_timeout_sec`, and pytest after
`sandbox_timeout_sec`, so no step waits for ever.

The other runs state safety only.

## 5. Proofs

Each `…_proofs` module proves about the module it is named after that an invariant `Inv`
holds of every behaviour of `Spec` (`Invariance`: `InitInv`, `StepInv` with one lemma per
action, then one temporal step), and from it what the runs check:

| Module | Theorem | Property |
|---|---|---|
| `TableBill_proofs` | `TypeCorrect` | `TypeOK`: in particular what is written stays natural, e.g. checkout never books a negative payment |
| | `OneBillPerSeating` | `OneOpenOrder` |
| | `OneSeatingPerTable` | `OneSeating` |
| | `EndedStaysEnded` | `NeverReopened` (an action property) |
| | `PaidBillFreesTable` | `ClosedOrderFreesTable` |
| | `EndedSeatingsAreSettled` | `EndedSeatingHasNoOpenBill`, for requests that do not overlap, without `close_session` and `cancel_session` |
| | `SettledBillsAreFrozen` | `SettledBillFrozen` (an action property), for requests that do not overlap |
| | `StockIsReversedOnce` | `StockReversedOnce`, for requests that do not overlap |
| | `BillsSettleExactly` | `SettledExactly`, for requests that do not overlap, finitely many lines |
| | `BillsCoverTheirPayments` | `NeverBelowPaid`, for the same, in a store whose discounts are plain (`PlainStore`) |
| | `PlainBillsStayCovered` | the same for each bill whose discounts are plain, whatever the store's (no run lists it) |
| | `CoveredBillsImplementBill` | `ImplementsBill`, for requests that do not overlap, of behaviours in which `NeverBelowPaid` holds |
| | `TillKeepsItsPromise` | `ImplementsBill`, for the same without the condition, in a `PlainStore` |
| | `DiscountRowsAreKnown` | one automatic row at most, the others manual, for the same (no run lists it) |
| `EventStream_proofs` | `NeverAPhantom` | `NoPhantom` |
| | `NeverAGap` | `GapFree` |
| | `AlwaysAFreshBoard` | `LiveBoardFresh` |
| `Loyalty_proofs` | `AccountsAlwaysBacked` | `AccountsBacked` |
| | `GrantsAlwaysOnce` | `GrantedOnce` |
| `Campaigns_proofs` | `AwardsAlwaysBacked` | `AwardedBacked` |
| | `StatsAlwaysInOrder` | `StatsInOrder` |
| | `SpinsStayWithinQuota` | `WithinQuota` (an action property) |
| | `VouchersAlwaysEndOnce` | `VouchersEndOnce`: `Campaigns` implements `VoucherBook` |
| `FrontOfHouse_proofs` | `StampsAlwaysInOrder` | `StampsInOrder` |
| | `QueueAlwaysKept` | `QueueKept` |
| | `NewestEventAlwaysTells` | `NewestEventTells` |
| `Commands_proofs` | `TypeCorrect` | `TypeOK` of `DevSwarm` (no run lists it) |
| | `AlwaysReviewedThenTested` | `ReviewedThenTested` |
| | `CoderAlwaysTold` | `CoderTold` |
| | `LabelAlwaysTellsWhy` | `LabelTellsWhy` |
| | `StepsRunOut` | the safety part of `EveryRunEnds`: every step uses up some of what a run has left to do (no run lists it) |
| | `PlansAlwaysExplained` | `PlanExplained` |
| | `ReviewsSettleAsTwoHalves` | `SettledAsTwoHalves` |
| | `ExposureAlwaysWithinCaps` | `ExposureWithinCaps` |
| `StoreDay_proofs` | `ShiftAlwaysCountsItsCash` | `ShiftCountsItsCash` |
| | `AlwaysChargedInTurn` | `ChargedInTurn` |
| | `RetriesAlwaysSettle` | `RetriesSettle` |
| | `ClockAlwaysInTurn` | `ClockInTurn`, for punches at ticks that the rounding of a length leaves exact |
| | `FriendsAlwaysFollow` | `FriendsFollowCodes` |
| | `EditsAlwaysMerge` | `EditsMerge` |
| | `AlwaysAsOffered` | `AsOffered` |
| | `DayAlwaysStands` | `DayStands` (an action property) |
| | `ClockedInOnce`, `HoursAreThoseOfTheShift` | its two halves for any punches, the hours within the rounding (no run lists them) |

Each rests on the assumption that its module states on its constants, and, where the table
says so, on what its `ASSUME` adds, and on nothing else
(ids are not `None`, amounts and bounds are naturals, kinds of requests do not overlap; sets
of requests, members, lines or tablets may be infinite). The bounds of the runs
(`MaxSeq`, `MaxEntries`, `MaxSpins` …) are constants, so the theorems hold for each of their
values. Every `Inv` was checked by TLC on the constants of its module's run first.

**TableBill.** `OneOpenOrder` is not inductive: an order that is inserted but not
committed is not a row yet, and its commit would break the property unless the slot was
kept free. The invariant is

    Inv == TypeOK /\ KnownOrders /\ SlotHeld /\ OneOpenOrder

`SlotHeld`: the session of an uncommitted order has no open order, and no other request has
an uncommitted one there or uses the same id; it is what the index gives to `InsertOrder`
(lemma `InsertInv`) and what a commit consumes. `KnownOrders`: the order of a live line and
the orders that requests point to exist, so that no write puts an order that was never
inserted into being. `WriteStatus` says once what any of the sixteen commits may do to
statuses (make the request's own order open, otherwise only leave `open`), and `WriteInv`
and `EndedStaysEnded` both follow from it. Reads are split into those that keep the slot
(`HarmlessInv`) and `InsertInv`. `OneSeating` needs the types only (`WriteSessions`).

The other five theorems rest on what one commit does to one row, however old the view it
decided on: `OrderStep`, `LineStep` and `SessionStep`, proved of each of the sixteen
commits. With `Rooted` (a request on a bill and the order it found are of the same seating,
which exists) `PaidBillFreesTable` follows for requests in any number: the commit that
closes the order closes the seating the order is of. The second group of promises fails when
requests overlap (two runs of section 6 show it), so these theorems assume `Serial`: there
is one client, with any number of rows, prices and calls. Their invariant is

    Steady == Inv /\ Rooted /\ UpToDate

`UpToDate`: whatever the request has read (the seating, the order, its rate and rows, its
lines, the source of a merge) is what the rows still hold, step by step of its handler, so
that the commit decides on the truth (`OwnOrder`, `MergedOrder`). `BillsSettleExactly` also
needs that the amount due is a number whatever rows are on the bill: `DiscountTotalType`,
by induction over the rows that are still to be applied.

`NeverBelowPaid` is where the code's guard has a hole: `_guard_not_below_paid` stands behind
the handlers that make a bill cheaper, while `add_line`, `merge_sessions` and `quote` go
without. For the first two this is sound only if a dearer bill asks for no less. It does
where the bill is `Plain`: at most one ratio row, no comp beside it, and an automatic row
only as the first.

- *Arithmetic.* A share rounded half up grows no faster than the whole (`HalfUpGrows`), so
  each row of a plain bill keeps the order of two bills (`DearerLeavesMore`, by induction
  over the rows), and so does the amount with its charge (`DearerAsksMore`). An automatic row
  alone never takes more than the bill where the threshold of an amount rule covers its
  amount (`SaneRules`, `AutoAlone`).
- *Handlers.* `BillStep` says of every commit what it makes of the bill the request found
  (`Found`): guarded, dearer (lines added or merged), promoted (the automatic row of a bill
  without payments), paid, closed or voided; there is one lemma for each group of handlers, and
  `UpToDate` says that what was found is what is committed. No other bill changes
  (`BillChanges`), or a merge takes it away. `PlainBillsStayCovered` follows commit by commit
  (`CoveredStep`), and a store of which all bills are plain is one whose rows are the ones
  `DiscountRowsAreKnown` leaves (`KnownRowsPlain`).
- *Refinement.* `WriteIsBill` maps every commit to a step of `Bill` or to none: the two bills
  of a merge are `Bill`'s `Fold`, as the lines of both are disjoint (`MergeIsFold`), the others
  are about the request's own order (`OwnIsBill`). That each price is a number that `Bill`
  allows is where `NeverBelowPaid` is needed, and so `CoveredBillsImplementBill` has it as a
  condition, for any discounts.

TLC checked `Rooted` on the races of
`BillRaces.cfg`, and `Rooted` and `UpToDate` on the constants of `BillTill.cfg` with
`transfer_session`, `close_session`, `cancel_session` and `close_order` added to the
requests (4,428,749 states); what `DiscountRowsAreKnown` and `PlainBillsCovered` say also with
percent, amount and comp rows, two to a bill, beside ratio and amount rules (307,883 states,
in some of which `NeverBelowPaid` is false).

**EventStream.** `Inv` says of each page what it may rely on. `Sound`: all it was or will be
sent is in the log, and its cursor is the number of a logged event. `Fresh`: of a connected
page with nothing to come, no refetch due and no frame hidden, the *newest* refetch has, or is
still to read, what was committed since it subscribed (`Covers`), *or it is still to be
published*. An answer read earlier and rendered in between changes nothing of that; rendered
after the newest, it makes that one lost (`EndStep`, over `Without` on the refetches that stay
under way). `AlwaysAFreshBoard` follows, as no floor plan is longer than the log (`Past`).
`CaughtUp`, as long as requests do not overlap: the events a page is still owed (committed, not
seen, not cut) are ahead of its cursor, and on a live socket they are in the replay, after it
in the queue, or unpublished, in this order. That a commit keeps `CaughtUp` rests on the
numbers: what a request that is alone has buffered is above all that is in the log
(`OneByOne`), which is just what overlapping requests lose and `EventLost.cfg` shows.
`PutAllIsPuts` shows that `PutAll`, which is written in closed form, is what putting the events
one at a time does to the queue.

**Loyalty.** `Entitled`: a transaction that has the customer's row lock has read the newest
totals; a reward that has its source's lock has a source that is pending, and what was
rewarded is not; what an expiry found is still to be reversed, and the scheduler runs one
(`OneExpiry`). With these each write adds to a cached total what it adds to its ledger. The
sums over the ledger are those of `Sums`.

**Campaigns.** The wins, the vouchers and the counters are tied pairwise (`VouchersBacked`,
`AwardsCounted`), and `Entitled` says what a request may rely on while it holds its locks: a
spin's member has one left, the prize it drew is as it read it, with quota left; a
redemption's voucher is active, in its window, and not among those the nightly job found
(`FoundAreLate`). `StatsInOrder` needs that none of the counts ever falls (`Rising`). For
the refinement, each action is shown to be the issue, the redemption or the expiry of
vouchers of the book, or a stutter.

**FrontOfHouse.** For the kitchen: a patch was allowed on what its cook read, and the stamps it
follows are set *still*, whoever patches in between, unless the line was voided
(`PatchesFollow`); only one patch at a time is past its UPDATE of a row (`RowsHeld`), so events
are numbered line by line in the order of the commits (`EventsRise`). For the door:
`RequestsFollow` is the same for bookings and the queue. `NumbersBounded` says that no number
exceeds that of the parties that joined, which a join under way that counted fewer still
satisfies, and `NumbersAbove` that a number is above those of the parties that were counted for
it, written tickets (which count as 0) among them. `PreordersOwned`, `RowsUsed` and
`OneOpenOrder` keep pre-orders to their parties. The proofs go through the two modules that it
composes.

**DevSwarm.** The two loops share the Coder: `PassesCounted` bounds its passes by the larger
of the limits, `SentForReason` says that who sent it back left the flags its brief is chosen
by, `TestedLast` that QA starts on approved files only, and `EndTold` that the end finds what
the last edge said, unless the heal limit is below the review limit. `ToDo` is what a run has left,
as a number of four digits: nodes that the graph may start, pytest in the QA node, turns of the
tool loop, attempts of the call. Every step makes a digit fall, and only those behind it begin
anew (`StepsRunOut`), so the length of a run is bounded by what it begins with.
`Commands_proofs` extends both programs, which share no state; that is why the definitions of
the one are `Init`, `Next` and `Spec` and those of the other `TigerInit`, `TigerNext` and
`TigerSpec`.

**TigerBook.** `BookInv` follows an analysis from save to save: before its third save its
match has a classification of the scenario that the plan will have (`CommandInv`), and rows
are never taken away, so every plan stays explained (`PlansInv`). The plan that a review
settles exists because the book is finite (`LatestIsAPlan`), and its bet is one of the main
bets of some file (`Bets`). Unless the match was saved again, that file is the one the review
takes its line from (`SavedInv`, `LatestIsOfFile`), and `ReviewsInv` keeps this with the result;
so the line settled at is the bet's own. `TwoHalves` is the arithmetic of the quarter line, for
any goals and any whole number of quarters (`WholeQuarters`, `Multiples`), and `BetsSettle` puts
both markets and sides under it. For the exposure,
`CappedWithin` says of one cut of any length, by induction on the picks, that no pick grows
and that the picks of one key stay within the cap; a later cut takes from none of them more
than an earlier one left, so the earlier caps still hold (`StillWithin`).

**StoreDay.** The composition adds nothing but the choice of the part, so each promise has an
invariant of its own part (`TillInv`, `FormsInv`, `ClockInv`, `DeskInv`, `CardInv`), which the
other parts leave alone. What the handlers have in common is a look before a write without a
lock. The invariants say of it that *what a request did not find when it looked, none of those
that had ended before it began has written still* (`CollectsUnpaid`, `NotThere` in
`FormsLooked`, `PunchesFollow`, `VisitsFollow`): a row that appears later belongs to a request
the other overlapped.

- *Counter*: `ReadsLater` and `ClockReached` tie the two readings of a drawer's closing, and
  the instant of a payment, to the order in which the requests began and ended;
  `CountsSoFar` is what the sum of the cash has when it is read. From them a payment counted
  by two shifts of one register was made while an opening and a closing overlapped.
- *Intake*: `FormsWritten` says that the ledger is what the rows moved. `KeysOnce` makes the
  key of a call injective on the rows when no two tries overlapped; then the movements named
  by the call are those named by the row, one to one, and every sum is the same
  (`CallsCountedOnce`).
- *Attendance*: `HoursAreThoseOfTheShift` is for punches at any instant. The code rounds each
  of the four buckets to hundredths of an hour, half up, so their sum may exceed the length
  of the shift by half a hundredth, which is a tick, each (`Rounded`). `HoursAddUp` says that
  it does not, and so is true of punches at whole hundredths only: `PunchesWhole`, which
  `ClockAlwaysInTurn` assumes and the run's instants satisfy.
- *Members*: here a unique index stands behind the look. `CodesStand` keeps a told code with
  its member, the index makes that member the only one with it, and so whom a spin finds under
  its code is whom the code was told of before the spin began (`ComesFrom`). A request that
  found its member without a code knows that nobody was told one earlier, unless two requests
  for it ran together.
- *Menu*: `EditFollows` compares the row that an edit loaded with the row it will write: they
  have the same hours, and every language loaded is still there, or another request has
  written such a change since (`Overtaken`), and then the two overlapped. `OrderFollows` says
  of an order under way that what it has read was offered at some instant of its run, and
  misses nothing that was offered at all of them.
- *DailyPnl*: shifts begin and costs occur at instants (`BooksInv`), so the window that the
  report selects rows by is the day itself (`WithinADay`). Every figure is then a function of
  the day's rows and of the staff (`ReportOfTheRows`): each is a sum over a function from
  rows to amounts, and equal functions have equal sums.

**Sums** has the lemmas that several of these need about `SumFunctionOnSet`, `SumFunction`
and `SetToSeqs` of the community modules: adding or changing a term, disjoint unions,
monotonicity, an injective renaming; and on the sum of the totals of a set of charges
(`SumOfTotals`, `TotalsGrow`). The library's induction theorems take an operator as a
parameter and cannot be used here; so `UpwardInduction` and `SubsetInduction` are stated for
*sets* of numbers and of subsets instead, and `SumsExist` finds the recursive function of the
fold among those on a finite set. Induction over data is within reach in this form;
`FoldsExist` says of any typed step that its fold over a finite set exists, and
`LargestExists` that finitely many numbers have a largest.

Only model-checked: the liveness properties `EveryRequestEnds`, `BoardCatchesUp` and
`EveryRunEnds` (ENABLED and fairness are out of the prover's reach; of the last, `StepsRunOut`
leaves to TLC that a run that is not over can take a step); `OneOpenDrawer` of
`StoreDay`'s till, which no run lists; and what the pure arithmetic of `LaborHours` and the
report returns. Every other property of a passing run is stated by a theorem.

`NeverBelowPaid` and the refinement of `Bill` are proved without a condition for plain stores
only, and `BillTill`, which mixes a manual half with automatic ratios, is not one: there TLC
checks them for its rows and prices. They cannot be theorems for all constants, even for one
client, since the code does not keep them:

- Two ratio rows are each rounded on its own: 50% off and then a 98% employee discount leave
  0.01 of 0.52 to pay, and nothing of 0.53.
- A comp takes what a ratio row left, rounded up again: after 50% off, 0.15 leaves 0.075, of
  which a comp takes 0.08. The line that made 0.15 of 0.10 makes the bill ask for -0.01.
- An automatic row that comes after others is not guarded (`RuleBelowZero`): a quote takes it
  from a bill that a comp or an amount has brought to nothing.

## 6. Findings

Two are runs that must fail; `PROJECT.json` quotes the lines.

1. **An event can be lost** (`EventLost`). `seq` is taken at flush. When a later number
   commits first and the tablet's socket breaks before the earlier one is pushed, the
   cursor has passed it. `LiveBoardFresh` shows why the board survives most of this: the
   page refetches on every frame. (It is also why the page must not drop frames below
   its cursor, which the socket's docstring says it does: `ReceivedIfNewer` breaks
   `LiveBoardFresh`.)
2. **Redeemed points come back** (`PointsSpentTwice`). The accrual of a closed order
   adds to an unlocked read of the total, over a redemption that committed meanwhile. No
   job recomputes the totals, although two comments say so.

Nine more have a configuration that reproduces them beside the runs:
`tlc -config <name>.cfg <module>` finds the property violated.

| Configuration | Module, property | What it shows |
|---|---|---|
| `PaidWhileDiscounted` | `MCTableBill`, `NeverBelowPaid` | A payment and a discount overlap: each passes its check on the bill without the other, and the bill ends below what was collected, which `_guard_not_below_paid` says never happens |
| `SeatingLeftOpen` | `MCTableBill`, `EndedSeatingHasNoOpenBill` | `close_session` and `cancel_session` do not look at the order, while the enum's comment says a closed seating has its bill settled; the order stays open where no bill endpoint reaches it |
| `RuleBelowZero` | `MCTableBill`, `NeverBelowPaid` | An automatic amount rule is matched against the gross bill and applied in full after the manual discounts, without a guard; checkout then refuses the bill |
| `VoucherStaysActive` | `MCCampaigns`, `RefusedIsMarked` | A voucher found expired is marked "so the wallet reflects reality" (`campaigns_service.py:587`), and the exception after it rolls the mark back; the wallet shows it as active until the nightly job |
| `BoardStale` | `EventStream`, `ModalsResync` | A frame under a modal asks for no refetch, since "closeModal() re-syncs the board on exit" (`pos_static/index.html:1191`); the sheets of the login and the menu are hidden without `closeModal`, and the board stays as it was |
| `LineOffBoard` | `MCFrontOfHouse`, `BoardShowsWork` | The kitchen page lists the first 200 lines that were ever routed, served ones included, and filters them itself; a later line does not appear |
| `PreorderNotCooked` | `MCFrontOfHouse`, `PreorderCooked` | A pre-ordered line has no station "until the party is seated" (`reservation_service.py:489`), and nothing routes it then |
| `PlanResettled` | `MCTigerBook`, `SettledAsPlanned` | An analysis that is cut short after it saved the match leaves the older plan the latest: a review settles its bet on the goals at the line of the newer file (`review.py:132`), while `cli.py:139` says that a match is settled "against its saved plan" and `review.py:3` that "the original MatchInput" is used |
| `HolidayUnpaid` | `MCStoreDay`, `HolidayPaid` | The holiday of a shift is the UTC date of its clock-in (`clock_service.py:116`): a shift that begins before eight in the morning of a holiday goes by the day before |

Met on the way and not shown by a configuration:

- *Till.* In `_get_or_create_session_order` the winner may be missing because its order
  was closed, not only because it rolled back. A percent row and a comp row can remove a
  cent more than the bill. `takeout_sale` refuses no negative total, as `checkout_cash`
  does. A table can be deleted while a seating on it is being opened.
- *Events.* `event_hub.py:80` says that an evicted event is recovered through the
  cursor, which has moved past it (the refetch is what saves the board); the rest of a
  replay that was cut at the limit is never requested. A refetch that fails, and an older
  answer that is rendered last, leave a live board stale until the next frame, without a
  retry. The floor plan is read in two SELECTs.
- *Wallet.* The expiry reverses a row in full in the ledger but takes at most the
  balance from the total, so the two differ by design (`PointsBacked` says in which
  direction). Two closings of orders may lock a referral and two members in different
  orders; PostgreSQL ends one of them.
- *Drawer.* The unique index of open drawers does not cover a NULL register, so two
  drawers may be open for the unnamed one, and both count the same cash
  (`OneOpenDrawer`, which no run lists).
- *Campaigns.* Two patches of the window, each checked against the row it loaded, can
  leave an end before the start.
- *Clock.* Docstrings count "the first 8 hours" of a shift; the classifier counts per
  calendar day.
- *Members.* A second request for a member's code overwrites the code the first was
  told, and that code then brings nothing, silently. When the LINE id and the phone of a
  spin belong to two members the look-up raises. A patch edits a deleted member. A
  member made at the counter gets no welcome bonus; one who was deleted and spins again
  gets it again, as a new row.
- *Menu.* The quantity of a combo's components is not multiplied by the quantity of the
  line; components may be deleted or sold out; deleting a category leaves its id on the
  items.
- *Forms.* A tasting of a dish takes one serving from the stock, whatever quantity the
  form says; a dish whose recipe is missing is refused before the look for an earlier
  call; a purchase with a key, or without a tax
  id, never looks at its invoice number.
- *Report.* A day's wages are those of the employees' records as they are now: a raise
  or a deletion rewrites past days (`DayStands` excepts exactly this). `profit_calc`'s
  docstring gives another order of subtraction than the code has.
- *DevSwarm.* `hermes._classify` must mirror the graph's precedence, says its comment;
  with fewer repairs than reviews the label differs from what ended the run, and a run
  halted by its budget may be labelled as out of repairs (`LabelTellsWhy` is stated for
  the other case). Nobody is told when the graph raises.
- *Reservations.* A ticket that a host writes is not compared with any other and may equal a
  number that was or will be counted.
- *Tigerline.* A line off the quarter grid is accepted (`models.py:112` asks for a
  positive decimal only); a bet ahead by more than nothing and less than a quarter is
  then settled as a loss (`review.py:105`). Two analyses of a match within one second
  raise an integrity error after the match was replaced. `stats` counts a review under
  any one of its match's classifications. Repeated reviews repeat the rule suggestions.
  With a tiny bankroll the rounding of amounts passes the cap of 4% of a single bet. The
  exposure caps of the docstring differ from those of the YAML file, and no command
  calls the optimizer.

## 7. Abstractions

Everywhere: one store and one tenant; authentication, audit rows and wording are left out.

*TableBill.* Prices, modifiers and combo choices are the constant `Amounts`. A table-QR
cart is one `add_line` per item, in transactions of their own; `get_bill` is
`get_session_order`. A handler's flushes and its commit are one step, as no other
transaction sees anything in between; the two session loads of a merge, and the query
and load of its source order, are one step each. A tie between rules is left open. A
windowed rule may be in force or not at any call. A client that disconnects is a
`Rollback`.

*EventStream.* One process. Taking a frame from the queue, sending and
receiving it is one step. An answer carries the floor as of one instant: the plan is read in
two SELECTs, tables and then seatings, and the events of the model are about the second. The
other screens of the page and its store selector are left out.

*Loyalty.* One member; points and amounts from small sets. A gift stands for one marker
(welcome, birthday of a year, win-back). A reward is a UGC approval or a qualified
referral: both lock a one-shot source and then the member. Which earned rows are due for
expiry is any non-empty subset of those without a marker. Tiers, lifetime value and LINE
messages are left out.

*Campaigns.* One campaign. The weights of segments are left out: any that may come up
does. A transaction begins and ends on one day, as requests take milliseconds
(`BegunToday`). The member's record is in `Members`, the wallet page is not modelled.

*FrontOfHouse.* A seating stays open and an order may end at any time: the till is
`TableBill`. A cook's request is its read, its UPDATE and its INSERT. Which party a host
seats where is any choice.

*StoreDay.* Counter: a payment is counted or not, and amounts, lines and invoices are
left out; no two readings of the clock are alike. Intake: a form's rows and movements
appear together; costs are left out. Attendance: instants in half-hundredths of an hour,
so that the rounding of the code is exact. Menu: an item's price, SKU, hours, category
and languages; texts and pictures are left out. Members: the phone stands for the e-mail
too. DailyPnl: an order ends with its amounts; payment fees and the page are left out.

*DevSwarm.* Prompts, file contents and commands are left out: a kind of file is there or
not, and a model's answer is what the parser makes of it. Costs are counted in coins, no
further than the budget tells apart (`Dear`).

*Tigerline.* Lines and goals in units of the files' precision (`Quarter`), shares in
thousandths, confidence in hundredths. The corridor, scores and suggestions of a review are
left out.

## 8. Not modelled

- The calculators that no other component rests on (a threshold and a check digit),
  authentication, permissions and audit, LINE (network output), the HTTP shell,
  migrations, pages other than the floor and kitchen boards, the web desks and scripts:
  they hold no state that two actors share. Tables and indexes of the schema are part of
  the modules that use them.
- Of the modelled parts: table CRUD, the several lines of a cart in one transaction,
  listings and read-only pages, CRUD of discount rules, submission of UGC, creation of
  campaigns, leave requests, recommendations, other reports. A cart in one transaction
  and a deleted table are in the list of hazards above or in `PROJECT.json`.
- Several worker processes (the project deploys one).
- Tigerline's corridor, scorecard, line movement, closing-line value, consensus,
  precision engine and reports: pure functions of one input, of which the tests pin the
  tables.

## 9. Plan

Done: the inventory; the till with its proofs; events; ledgers; campaigns with their
abstract book; kitchen and queue; counter, forms, clock, menu, members and report;
DevSwarm; Tigerline.

1. *Till*: the cart as one transaction; `update_table` and `delete_table` against
   openings.
2. *EventStream*: several worker processes.
