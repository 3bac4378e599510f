# Verification of the rental backend

TLA+ models, TLC runs and TLAPS proofs of the NestJS/PostgreSQL backend in this
repository. The aim is the behaviour that tests reach poorly: transactions that
wait for one another, payment notifications that arrive late or twice, holds
that expire while someone works with them. `PROJECT.json` lists, for machines,
what this file says for readers: components, runs, mutants, the map from
definitions to source lines, findings, hazards and theorems.

    tlc -workers 4 -config ReservationsLifecycle.cfg MCReservations.tla
    tlapm ReservationsProofs.tla

## 1. The system

| Component | State it keeps | Operations | What makes it correct |
| --- | --- | --- | --- |
| Booking lifecycle (`bookings/booking-state.service.ts`, trigger of migration `202609290001`) | `Booking.status` | `assert` | staff moves follow the table; terminal statuses are final for every writer |
| Stay intervals (`common/date-interval.ts`) | none | `parseStay`, `overlaps`, `eachNight` | `[checkIn, checkOut)`: a check-out day is free for a check-in |
| Availability, holds, bookings, blocks (`availability/`, `bookings/`, `admin.service.ts`, exclusion constraint of migration `202608270001`) | rows of `Booking`, `Hold`, `AvailabilityBlock`; the advisory lock of each unit | `createHold`, `create`, `createBooking`, `transition`, `block`, `unblock`, `unavailableNights` | no two occupying bookings share a night; no claim is granted over another; a live hold stands; guests sleep in rooms no one else may take |
| VNPAY payments and the ledger (`payments/vnpay.service.ts`, `AdminService.payment`) | rows of `Payment` and `PaymentWebhookEvent`; `paidAmount`, `remainingAmount`, `status` of the booking | `createPaymentUrl`, `handleIpn`, `payment`, `transition` | no room without the deposit, no departure with a debt; money reported is recorded once; the ledger is the sum of the paid rows |
| Pricing and quotes (`pricing/`) | `PriceQuote` rows, unit and rate data | `quote` | what is booked was quoted, and at the price in force |
| Authentication and sessions (`auth/`, `common/guards/`) | `User.tokenVersion`, `RefreshToken` rows | `login`, `register`, `refresh`, `canActivate` | a change of the account ends its sessions |
| Staff roles (`admin.service.ts` 541-656) | `Role`, `UserRole` | `createStaff`, `access`, `role` | no one grants what they do not have |
| SEO paths (`seo/`) | `SeoPage.path`, `SeoRedirect`, `SeoSlugHistory` | `updatePath`, `resolve` | an old address leads to its page |
| Rental domain contracts (`domain/rental/`, CHECKs and unique indexes of migration `202609290001`) | none (pure, not called by any service yet); the columns and tables for it exist | `holdTransitions`, `bookingTransitions`, `paymentTransitions`, `refundTransitions`, `paymentAmounts`, `cancellationDecision`, deadlines | no room without the money chosen, however attempts fail; refunds never beyond what was captured and decided; closed is closed; the database accepts what the functions compute |
| Catalogue, structured data, health, configuration | none, or read-only | | |
| AI-DLC tooling (`.codex/`, `.agents/`, `aidlc/`) | the workspace of a development workflow | | not part of the backend: vendored whole, never imported |

How they interact. Everything is one Node process (or several) over one
PostgreSQL database; components share no memory, only rows. The controllers
validate a request and call one service method. The reservation operations run
as SERIALIZABLE transactions that take `pg_advisory_xact_lock` of their unit;
the payment notification and the link batch run at the default READ COMMITTED
and take no advisory lock, yet write the same booking rows. VNPAY calls back, in
any order, more than once. An exception filter answers a serialization failure
with 409; nothing in the process retries.

The hard behaviours, and where they bite, are the `hazards` of `PROJECT.json`.

## 2. Modules

    BookingLifecycle  StayIntervals            shared operators: statuses, intervals
            |    \      /   |    \
            |   Reservations   Inventory       Reservations implements Inventory
            |        |                          (INSTANCE ... WITH granted <- Granted)
            |  BookingContract                 what nights and money owe each other,
            |        |                          booking by booking: Reservations and
      VnpayPayments -+                          VnpayPayments both implement it
                 Checkout (StayIntervals)      quote to booking, independent of nights
      Accounts, SeoPaths                       independent components
      RentalContracts --- RentalBooking        the planned lifecycle and a caller of it

Each component has an `MC...` module (symmetry, small data) and its `.cfg`
files, but for the two abstract ones, Inventory and BookingContract, which the
runs of the modules that implement them check as properties. Its theorems are in
a `...Proofs` module; those of the two abstract modules are in `PromisesProofs`. `FiniteSums` holds the lemmas about
sums that the proofs of VnpayPayments, RentalBooking and Checkout share, and
the least-subset argument SeoPaths uses too. No
module reaches a RECURSIVE operator.

**Inventory** is the abstract specification: identities claim a stay of a unit.
`Grant` needs free nights, `Reinstate` (a late payment notification) only needs
that no *booking* is there, `Release` frees any set of claims. It has no clock,
statuses, locks or transactions.

**BookingContract** is what the two halves of the code rely on each other for. An
`account` per booking has its status, whether it asks for a deposit, how far it
is paid (`level`: less than the deposit, the deposit, the total), and how many
captures may still come; `taken` says whether other bookings occupy its nights.
`Make` and `Move` are the reservations' half (`create`, `createBooking`,
`transition`), `Receive`, `Ask`, `GiveUp` and `Capture` the payments' half
(`payment`, `createPaymentUrl`, `handleIpn`); a step changes one account, and
nights may come and go with any step, but never those of a booking that occupies
them. It has no rows, locks, sums or amounts.

| | in Reservations | in VnpayPayments |
| --- | --- | --- |
| `level` | a field of the row, raised by `Payment` and `HandleIpn` | `Level(b)`, computed from the ledger |
| `attempts` | a counter, at most `MaxAttempts` | links whose success is not recorded, and requests that have not yet made theirs (`Unsettled`, `Asking`) |
| `taken` | some other booking of the unit occupies a night (`Taken`) | a flag that `NightsChange` flips |
| `Move` | an action with its lock, snapshot and checks | `Transition`, one step |
| `Capture` | `HandleIpn`, one step | `Receive`, `Open`, `Sum`, `CommitCapture` |

**Reservations** is the code. `rows` are the three tables; `tx[t]` is an open
SERIALIZABLE transaction of session `t`.

| Code | Action |
| --- | --- |
| `lockUnit`, the first statement of every insertion: PostgreSQL takes the snapshot *before* it waits for the lock | `BeginInsert` records what the snapshot shows over the stay (`busyUntil`) and the holds the sweep may touch |
| `transition` to an occupying status: reads the booking, checks its guards, then asks for the lock | `BeginTransition` |
| the lock is granted, the sweep selects, `assertAvailable` passes on the snapshot at the present time | `Check` |
| insert or update, commit | `Commit`: rows written must be as the snapshot had them, the exclusion constraint holds, and the transaction is not `doomed` |
| a conflict of snapshots (`40001`), unavailable nights, timeout, crash | `Abort`; nothing retries |
| `transition` to any other status, `unblock` | `Transition`, `Unblock`: no lock, one row |
| `payment`, `createPaymentUrl` (and its failure), `handleIpn` as seen by the nights | `Payment`, `CreatePaymentUrl`, `DropLink`, `HandleIpn` |
| time | `Tick` |

`CommitOf` is serializable snapshot isolation reduced to what these operations
can conflict on: two of them that check and claim overlapping stays of one unit
read what the other writes, so the first to commit dooms the other. An actual
database may abort more; `Abort` is always enabled, so that is covered.

`StartLevel` is what a new booking of a unit has covered before it is paid: staff
may set a deposit rate of 0, and then no deposit is ever asked
(`createPaymentUrl` throws).

**VnpayPayments** has one ledger per booking. `handleIpn` runs READ COMMITTED
and is `Receive` (reads outside the transaction), `Open` (event and payment row,
whose lock it keeps), `Sum`, `CommitCapture` or `CommitDecline`; `Duplicate` and
`Rollback` are its other ends. `createPaymentUrl` is `RequestLink`,
`CancelLinks`, `CreateLink`, `DropLink`. `Receipt` and `Transition` are
SERIALIZABLE and write the booking row, so they are single steps. VNPAY and the
guest are `Capture` and `Decline`: a link that has been replaced can still be
paid, and `sent` is never emptied, so any notification may come again at any
time. Invalid signatures and amounts change nothing and are left out.

**Checkout** keeps the arithmetic of `quote` with its roundings (cents; raw
amounts in ten-thousandths of a cent; rates with the four decimals the DTOs
accept, discounts with the two of their column) and the three steps of a booking: `Price`,
`Accept` (the comparison with the quote), `Begin` and `Book` (the transaction),
with `EditUnit`, `EditProperty` and `Tick` between any two.

**Accounts** has each statement of `login`, `register` and `refresh` as a step
(`Login`, `Register`, `ReadToken`, `ReadUser`, `ReadRoles`, `Issue`, `Revoke`),
the guards (`Authorize`), and the staff operations (`CreateStaff`, `Access` and
`Commit` for the snapshot and the commit of `access`, `CreateRole`). `Abandon`
is an error or a crash between any two.

**SeoPaths** has `updatePath` (SERIALIZABLE, one step) and the two statements of
`resolve` (`Resolve`, `LookUp`).

**RentalContracts** is `states.ts`, `money.ts` and `policies.ts` as operators,
with the CHECKs of the migration beside them (`BookingPaymentContract`,
`BookingCancellationPolicy`, ...): the two languages the rules are written in.
**RentalBooking** is one stay under these contracts. No service calls them, so
there is no handler to translate; it is a caller that does whatever they let it
do. Each action is a transaction, its guard is that the functions it calls do not
throw and that the unique indexes accept the row, and amounts, actors, causes and
order are open: `Convert` and `CloseHold`, `OpenAttempt` and `MoveAttempt`,
`Apply` and `Decline` for a capture, `Confirm`, `Expire` and `Move`, which
cancels too, `Decide` for the `BookingCancellation` row, `Oblige` and
`MoveRefund`.

Much is left to the service to be written, and the model leaves it open: the index
on live attempts counts those of VNPAY only, so a manual one may be live beside
one; nothing bounds the amount of an attempt; money may be applied, in part, to a
booking that is closed; a booking may be cancelled without a decision on its
money, and the decision may come before, or without, the cancellation. What the
model does ask of the service is in its header: it passes the functions the rows
as they are, the present time, the amount paid and the refunds that stand; it
goes through them for every deadline, confirmation, application and refund; and
it applies money in the step that makes the attempt PAID. A property of
RentalBooking is one that functions, CHECKs and indexes enforce together over
such a service. Transactions that cross are not among them: the documents leave
the accounting across rows to the adapters to come.

History variables (`reinstated`, `raced`, `inForce`, `ceiling`, `owner`,
`reused`, `crossed`) are read by properties only, and no guard depends on them.

## 3. Runs

| Run | Instance | What it shows |
| --- | --- | --- |
| `reservations_lifecycle` | 1 unit, 1 night, 2 rows, 2 sessions, holds of 1 tick, 1 payment link per booking, six target statuses | no overbooking; guests in clear rooms; the inductive invariant; terminal statuses final; the code implements Inventory and BookingContract (763 000 states) |
| `reservations_claims` | 2 units, stays of 1 and 2 nights, 3 rows, 2 sessions, no notifications | no two claims conflict; the calendar agrees with the check; the sweep of all units never ends a live hold (1.3 million states) |
| `payments_ledger` | 1 booking, 2 links, 1 receipt, 2 handlers, deposit 2 of 3 | captures cover the deposit; deposit before room; nothing owed on leaving; the ledger drifts only where two writers crossed; a status leaves the table only by a capture, to CONFIRMED; a success answered "already confirmed" is on its payment; the code implements BookingContract (434 000 states) |
| `payments_recorded` | 1 booking, 2 links, 1 handler, fairness | every success VNPAY reports is recorded, unless the booking is closed or its nights are gone |
| `checkout_prices` | 1 unit, three sets of terms, a daily rate with a minimum stay, two promotions, 1 request at a time | amounts add up to the cent; what is booked was quoted, and was the price during the request (153 000 states) |
| `accounts_grants` | 3 users, 3 roles, 2 permissions, 3 sessions, 2 sign-ins and 1 staff request at a time, at most 6 rows of these at once | accepted tokens are current; no permission appears; owners are fixed; no refresh, crashed or crossed by another, takes the last good refresh token of its user (1.18 million states) |
| `seo_moves` | 3 pages (1 published), 5 addresses, 2 visitors, moves to any address no page has | every old address of a page leads to it, but for pages that shared an address or came back to one; visitors find the page (38 000 states) |
| `rental_contracts` | 1 stay of 3 đồng, deposit or all of it first, 2 attempts, 2 captures of 1 or 3, instants 0 to 2, at most 2 refunds | the database accepts every row the functions compute; rooms are funded; refunds stay covered; terminal states final (444 000 states) |
| `reservations_notification`, `payments_history`, `accounts_revoked`, `seo_reuse` | as small as the counterexample allows | see section 4 |

Why these bounds are enough to be interesting. Every conflict the reservation
properties speak of is between two rows, so two rows and two sessions produce
it; the third row lets the sweep of one unit meet a hold of another while both
sessions write. One night is enough for the life of a booking; clipping, and
stays that overlap in part, need the two-night stays of `reservations_claims`.
A clock of one tick, with holds that last one, covers a hold before and at its
deadline. In the ledger, two handlers, two links and a receipt are the smallest
instance where a link is replaced and paid late while another payment commits
between a sum and its commit; deposit 2 of total 3 makes a payment that covers
the deposit, one that does not, and one that clears the debt. The prices and
rates of `MCCheckout` leave fractions of a cent at each rounding. Two sign-ins and three
sessions are what two refreshes with one token, one of them crashed, need; three
accounts are what a grant through a third person needs. `MaxRows` keeps the two
apart: no explored behaviour has all of both. A stay of 3 đồng has an odd half, so the
deposit rounds; check-in at 2 with tiers at 2 and 1 puts a cancellation in and on
the edge of each tier. Two attempts and two captures are a late or second
payment beside the one that counted, or a manual one beside one of VNPAY.
`FewRefunds` and `RefundsLast` follow refunds from one kind of booking, after all
other steps: no step of a refund reads anything but captures and the decision, no
other step reads a refund, and the same captures and decisions are reached there.
`Alike` lets one closed attempt and one actor stand for those nothing tells
apart, and `ClockMatters` stops the clock where nothing reads it. Two pages that
share an address, and a third that must not notice, are three pages.

`Operations` and `Targets` bound which operations an instance explores. Deadlock
checking is off where the system may rightly stop: all keys used, all bookings
terminal.

Symmetry is declared only for safety runs; `payments_recorded` has none.

**Fairness.** Only `payments_recorded` assumes any (`FairSpec`). VNPAY repeats a
notification until it is answered with a final code, so a success that can be
taken up is taken up again (strong fairness of `Receive`, for the handler is
busy with other notifications in between). PostgreSQL queues row locks and
either answers or fails a statement, so a handler that can answer does; a
handler may fail at any statement (`Rollback` has no fairness), but not every
attempt fails at the same one (strong fairness of each `Attempt`). Nothing is
assumed of guests or staff, and no other property needs fairness. That a crash
does not happen on *every* attempt is the one assumption the code does not itself
ensure; without it no retry protocol records anything.

Each property has a mutant in `PROJECT.json`: a definition with a plausible bug
(`..._Dropped`, `..._ReadCommitted`, ...) with which the run finds it violated.

## 4. Where code and documents disagree

| Run | What TLC shows | What the document says |
| --- | --- | --- |
| `reservations_notification` | A booking whose payment failed lets its nights go; a hold or a block takes them; the notification of a second attempt confirms the booking over it: `handleIpn` neither locks nor checks. The exclusion constraint stops this against bookings only. Check-in does look again, which is why `GuestNightsAreClear` holds. | `docs/ARCHITECTURE.md`:7, booking mutations lock before they check |
| `payments_history` | A failure read before, and written after, a success for the same link turns a PAID row into FAILED. | `docs/ARCHITECTURE.md`:13, "Payment rows are immutable history" |
| `accounts_revoked` | A sign-in that read the account before staff changed it inserts its refresh token after `access` has revoked the others. Its access token is refused, but the refresh token is good. | `docs/ADMIN_API_TEST_RESULTS.md`:39, "Changing role revokes old token and refresh" |
| `seo_reuse` | A page that moves back to an address it had is hidden behind the redirect it left there. | `README.md`:3, "sitemap filtering, redirects" |

The models contain four more behaviours worth a reader's attention, which no
run singles out: `handleIpn` may move CHECKED_IN or CHECKED_OUT back to
CONFIRMED (the second disjunct of `OffTableOnlyByCapture`); `create` compares
the total of the quote but not its deposit, so a guest may be asked for another
deposit than quoted (hence the condition in `BookedAsQuoted`), and does not look
again whether the unit is on sale (`Begin`); two refreshes with one token may
both succeed (`ReadToken`, `Issue`, `Revoke`).

## 5. Proofs

The runs check small instances; the theorems hold for every value of the
constants that satisfies the named ASSUMEs. Sets need to be finite only where
amounts of their rows are added up (the payments of VnpayPayments, the captures
of RentalBooking) or redirects are counted (the paths of SeoPaths).

**Sums.** `FiniteSums` proves what a ledger needs of `SumFunctionOnSet`: it
splits, is monotone, and depends on the amounts only. The library's induction
theorems take an operator as a parameter, which the provers cannot instantiate,
so each lemma is by a least counterexample: strict inclusion is well founded on
the subsets of a finite set (`MinimalSubset`), and removing one element of a
least subset a lemma fails for gives a smaller one. `SumByKeys` is the one for
rows that belong to others: if the rows of each key sum to at most what the key
has, all rows together sum to at most what the keys have.

**Reservations.** `NoOverbooking` and `GuestNightsAreClear` are not inductive:
from an arbitrary state, a checked transaction might commit over a claim it
never saw. `Discipline` adds what open transactions know:

 * `TransactionsReadTheirTarget`: a transition carries the booking it read;
 * `SweepsTakeExpiredHolds`: a checked transaction sweeps only holds past their time;
 * `ReinstatedOccupy`: a claim put back by a notification is a booking that occupies;
 * `SnapshotsCover`: a transaction that is not doomed has seen every claim that
   now takes its stay, excused ones apart, and once it is checked all it saw has
   expired. This is the heart: commits of others either doom it or do not
   overlap; the passing of time only removes claims; cancellations only remove
   claims; a notification adds only an excused one;
 * `ConflictsAreExcused`: claims meet only where one is excused.

`DisciplineHolds` proves it inductive, action by action (`ReservationsProofs`),
after `ReservationsTypeCorrect`. `NeverOverbooked` and `GuestsAreClear` follow.
They speak of intervals that overlap, as the code does. What a guest is owed is a
night: `SharedNights` proves that two stays overlap exactly when `EachNight` gives
them a night in common, and with it `NightsAreSoldOnce` (of the bookings that
occupy a unit at most one has a given night) and `GuestsSleepAlone` (a guest who
has checked in shares no night with another booking, a live hold or a block).
The same module proves from it the action properties `LiveHoldsAreKept`
and `TerminalStatusesStay`, and `ReservationsImplementInventory`: initial states
map to initial states, and each step to a grant, a reinstatement, a release (of
several holds when the clock moves) or a stutter. `LockedOperationsNeverConflict`
is `NoConflictingClaims` under `MaxAttempts = 0`: with no payment link there is no
notification, and nothing is excused. `CalendarsAgree` needs types only: a night
is in the clipped part of a stay exactly when it is in the window and the stay
overlaps that one night (`ClippedNights`).

**Inventory.** `NoDoubleBooking` and `LockedClaimsNeverConflict`: the promise
itself is enough. With the refinement they hold of the code.

**Nights and money: the contract.** Reservations takes a payment as one step and
VnpayPayments takes the nights as a flag. That neither hides a behaviour of the
whole is an argument in four parts.

 1. Each implements BookingContract, under its own reading of an account:
    `ReservationsMeetContract` and `PaymentsMeetContract`, `Spec => MeetsContract`,
    with one lemma per action (`...Meets` in `VnpayPaymentsProofs`).
 2. Each reckons with all that the contract lets the *other* half do:
    `PaymentsAreReckonedWith` (every `Settle` step that keeps types is a
    `Payment`, `HandleIpn`, `CreatePaymentUrl` or `DropLink` of Reservations) and
    `ReservationsAreReckonedWith` (every `Move` to a status in `Targets` is a
    `Transition`, and every lawful change of the nights of a booking a
    `NightsChange`). So nothing the other component really does is missing from
    either model.
 3. The contract by itself is enough for what crosses the boundary
    (`PromisesProofs`): `ContractPaysAsFar` (confirmed and in the room only with
    the deposit paid, gone only with the total paid), `ContractAsksForDeposits`
    and `ContractIsNeverUndone`. Each is also proved of both models, under the
    model's own reading of an account: `RoomsArePaidFor`, `LinksAreForDeposits`
    and `BookingsAreNeverUndone`, in `ReservationsProofs` and in
    `VnpayPaymentsProofs`. The prover does not carry a theorem through an
    INSTANCE, so these are proofs of their own: in Reservations from the contract
    steps of 1 (`AccountsAreTyped`, `ContractStep`), in VnpayPayments from `CInv`
    and `NoDepositNoLink`, that no link exists where no deposit is asked.
 4. A booking starts as both take it to: `BookingsOpenInFull` of Checkout, the
    whole total open and a deposit of at most the total.

On the side of the reservations the heart of 1 is again `Discipline`: what a
transition read before it waited for the lock is still so of the row it writes
(mutant `Commit_StaleRead`). On the side of the payments, implementing `Capture`
means that a notification uses up exactly one capture that was asked for. That
is not inductive by itself, and `CInv` strengthens the ledger invariants with

 * `BalanceFollows`: what remains is what the amount paid leaves of the total;
 * `HandledOnce`: a handler past `Open` alone holds its payment's row, and its
   notification is not among the committed events; two handlers of one payment wait for each
   other at that row, and a committed event refuses a repetition (mutant
   `Open_Unrecorded`);
 * `NightsKept`: no booking that occupies has its nights taken.

`ContractInvariance` proves it. Where the two models read the contract narrowly: a
count of captures is bounded by `MaxAttempts` in Reservations and by the links
and requests in VnpayPayments, so 2 speaks of steps within those bounds; all
bookings of VnpayPayments exist from the start, and their nights change one
booking at a time. Making a booking there is its initial state.

**VnpayPayments.** `CaptureCovers` speaks of sums of rows that other sessions
write. Two facts make it inductive. The amount of a link is computed before the
link exists and applied any time after, yet it still covers: receipts only grow,
and until the first capture nothing else moves the balance (`AmountsCover`,
`EarlyLedger`). And a sum taken by an open transaction still equals the paid
rows unless another writer committed in between, which is what `raced` records
(`SumsAgree`): sums go stale only by crossing. `CapturesCover`, `DepositFirst`,
`ClearedFirst`, `LedgerKept` and `StatusesMoveByTable` follow.

`AnswersTrue` adds who may write a payment that has a recorded success. A batch
for a new link cancels only rows it found PENDING and holds from then on, and a
notification that closes a payment holds its row, so neither overtakes the other
(mutant `CancelLinks_Unlocked`: the batch does not wait, and cancels a link that
has just been paid). A refusal read before the success and written after it does
overtake; that booking is `raced`, and it is the finding of `payments_history`.
`OnlyClosedOrTakenRefuse` is what safety can say of `CapturesAreRecorded`: a
success that has been summed is refused by the database only if the booking is
closed for good or its nights went to someone else, so once VNPAY's repetition is
taken up, nothing in the ledger itself keeps the money from being recorded.

**Checkout.** `Agreement` follows one request: from `Price` on, its amounts are
among those in force, and from `Accept` on, its quote agrees with them.
`BookingsMatchQuotes` and `PricesAreInForce` are its consequences at `Book`.
`EveryQuoteAddsUp` is arithmetic of one price (`PricesAddUp`): the price of the
nights is a sum of amounts that are not negative; a discount is cut off at it, so
the total is not negative; a rate of at most 100 %, whatever its decimals, keeps
the deposit below it, and rounding keeps order. `BookingsOpenInFull` carries this to the rows the two
booking operations write. It assumes what the DTO validators enforce of rates and
fees, and that daily rates and promotions, which no operation writes and no
CHECK bounds, are not negative (`AmountsAssumption`).

**Accounts.** `Sound` rests on the account version: whatever a sign-in, a
session or an `access` read before a change carries a version the account no
longer has. `TokensAreCurrent` (an accepted token carries exactly the
permissions of the account now), `GrantsAreConfined`, `OwnersStay`,
`AccountsTypeCorrect`. `RefreshesLeaveOne` has an invariant of its own,
`Lasting`: as long as an account has a good token, one of its good tokens is
pending to be revoked by no one. A refresh issues the successor, which no one has
read yet, before it revokes the token it read; a crash in between leaves two, two
refreshes that crossed revoke the same old one, and what `access` does not revoke
was issued after its snapshot, so there too the last one stays.

**SeoPaths.** `SeoTypeCorrect`, `AddressesAreFound` and `OldAddressesKeepLeading`.
The last is about every page that neither shared an address with another nor came
back to one of its own (`reused` is the others; `seo_reuse` shows what becomes of
them), while all pages may move anywhere. It rests on a rank of the addresses of
such pages that every redirect among them lowers and that never exceeds the number
of addresses left (`Trails`): a move to an address that does not redirect adds one
to both, and a move to one that does touches only pages that are `reused` from
then on. A visitor's walk is a recursive function of the number of redirects; that
it exists, and that every step of it stays on the trail, is proved by the least
number for which it fails (`SmallestNumber`).

**RentalBooking.** `IInv` says which rows stand behind which: applied money came
from an attempt that is PAID, and a refund belongs to a capture and, if it returns
what a cancellation granted, to the decision. `RefundsStayCovered` splits the refunds of a capture, and of the decision, into those that succeeded
and those reserved; the guard of `outstanding` bounds the new one by the rest of
each. `NoMoreBackThanTaken` adds the captures up (`SumByKeys`): all refunds of a
stay come to no more than was taken for it, which no one capture shows.
`RowsAreAccepted` is that TypeScript and SQL state the same rules: the same
half, the same tiers at their edges, the same rounding. `EarlierNoticeReturnsMore`
is that these tiers are in order and never return more than was paid. `TablesAgree`
compares `bookingTransitions` with the table the running code obeys: between the
statuses both know they allow the same moves, but for `EXPIRED`, which only the
planned lifecycle reaches. `RoomsAreFunded` and `TerminalStatesStay` complete the list.

Assumptions: the `...Assumption`s on constants (days are integers, absent values
are not rows); that Serializable transactions behave as `CommitOf` says; that a
repeated notification names its payment truthfully (its signature was checked).

Every invariant and action property of the passing runs is a theorem. Checked by
TLC only: `CapturesAreRecorded`, for liveness is beyond TLAPS; its safety half is
`OnlyClosedOrTakenRefuse`. What remains an argument of this file, for no module
holds both models at once, is that parts 1, 2 and 4 of the contract together
cover the whole.

## 6. Not modelled

 * `domain/rental/authorization.ts`: a table of who may read what, without state.
   Nor, of the planned lifecycle, what has a table and no code yet: the attempts
   to execute one refund (`RefundAttempt`), `IdempotencyRecord`, the fingerprint
   of an event, and the disposition REVIEW_REQUIRED, which no function returns.
 * `auth.me`, `updateProfile`: no other operation reads what they write.
 * `seo-validation.service.ts`, `structured-data.service.ts`, catalogue and
   location controllers: they read only.
 * `payments.controller.ts`: in no Nest module, so unreachable.
 * Bootstrap, configuration, filters, health, seed: no concurrent state. Their
   one effect, that a serialization failure is a 409 nobody retries, is `Abort`.
 * `.codex/`, `.agents/` and `aidlc/`: a distribution of a workflow for coding
   agents, vendored in whole. It is more than 150 000 of the repository's 158 000
   lines of code; the backend neither imports nor runs it, and none of its state
   is the backend's. The share of the whole repository the models map is small
   for that reason alone; of the backend (`src/`, without its tests) the map
   names 44 % of the lines.
 * The text of requests: dates, amounts, codes and paths are small sets after
   validation. Signatures of notifications, and `verifyReturn`, which writes
   nothing.

## 7. Plan

Done, in this order: Inventory, Reservations, their refinement and proofs;
VnpayPayments; SeoPaths; Checkout; Accounts, with their proofs; FiniteSums and
the proofs of VnpayPayments; the refreshes of Accounts; RentalContracts and
RentalBooking, with their proofs; the calendar, the arithmetic of quotes and the
chains of redirects; BookingContract, implemented by Reservations and
VnpayPayments, with the proofs that each reckons with the other and keeps what the
contract promises; the answers to VNPAY; nights sold once; refunds summed over all
captures.

 1. When a service first calls `domain/rental/`, its handlers as a module that
    refines RentalBooking: what is proved here then holds of it. One attempt at a
    time, and a decision that stays true, are theirs to ensure, and to prove.
 2. Liveness of Reservations: a session that waits for the lock of a unit gets
    it or ends.
 3. A composition of Accounts with the staff operations of Reservations, if a
    property is found that neither component states alone.
