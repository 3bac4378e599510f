----------------------------- MODULE Reservations -----------------------------
(***************************************************************************)
(* Every operation that takes or frees nights of a unit, at the grain of   *)
(* its database transactions: the public holds and bookings                *)
(* (BookingsService), the staff bookings, transitions, blocks and receipts *)
(* (AdminService) and what a payment notification does to the booking      *)
(* (VnpayService), over AvailabilityService and the constraints of the     *)
(* migrations.                                                             *)
(*                                                                         *)
(* PostgreSQL, modelled from how the code uses it:                         *)
(*  - a SERIALIZABLE transaction reads the snapshot its first statement    *)
(*    took. In createHold, create, createBooking and block that statement  *)
(*    is the one that WAITS for the advisory lock, and transition reads    *)
(*    the booking before it asks for the lock, so what is checked under    *)
(*    the lock may be older than the lock ("snap");                        *)
(*  - of two concurrent serializable transactions that each read what the  *)
(*    other writes, the second to commit is aborted ("doomed"), and one    *)
(*    that updates a row changed since its snapshot is aborted. It may     *)
(*    also abort for no reason of its own, a crash or a timeout included;  *)
(*  - READ COMMITTED transactions take no part in that detection.          *)
(***************************************************************************)
EXTENDS BookingLifecycle, StayIntervals, FiniteSets

CONSTANTS
  Units,         \* rental units
  Rows,          \* primary keys, shared by bookings, holds and blocks
  Tx,            \* database sessions that can run a locking operation
  NoRow,         \* the value of a key with no row
  Idle,          \* the state of a session with no open transaction
  Operations,    \* bound: the locking operations that are requested
  Targets,       \* bound: the statuses that transitions ask for
  StartLevel,    \* what a new booking of a unit has covered before it is paid
  HoldTicks,     \* the life of a hold (15 minutes) in ticks of the clock
  TicksPerDay,   \* the day of the hotel calendar in ticks
  MaxClock,      \* bound: the last tick of a behaviour
  MaxAttempts    \* bound: payment links requested for one booking

ASSUME ReservationsAssumption ==
  /\ HoldTicks \in Nat \ {0} /\ TicksPerDay \in Nat \ {0}
  /\ MaxClock \in Nat /\ MaxAttempts \in Nat
  /\ Operations \subseteq
       {"createHold", "create", "createBooking", "block", "transition"}
  /\ Targets \subseteq Status
  /\ StartLevel \in [Units -> 0..2]

VARIABLES
  clock,         \* server time
  rows,          \* the bookings, holds and blocks, by key
  tx,            \* the open transactions of the locking operations
  reinstated     \* history: occupying bookings a notification put back

vars == <<clock, rows, tx, reinstated>>

(* "level" is what has been paid: 0 less than the deposit, 1 the deposit   *)
(* and not the total, 2 the total; a unit may ask no deposit, or be free.  *)
(* "attempts" counts the payment links that are requested or made and that *)
(* VNPAY has not settled, cancelled ones included.                         *)
BookingRow == [kind: {"booking"}, unit: Units, stay: Stay, status: Status,
               level: 0..2, attempts: 0..MaxAttempts]
HoldRow    == [kind: {"hold"}, unit: Units, stay: Stay,
               status: {"ACTIVE", "EXPIRED"}, expiresAt: Nat]
BlockRow   == [kind: {"block"}, unit: Units, stay: Stay]
Row        == BookingRow \cup HoldRow \cup BlockRow

ASSUME NoRowAssumption == NoRow \notin Row /\ NoRow \notin Rows

(* An open transaction: "waiting" for the advisory lock of its unit, or    *)
(* "checked" under it. A transition has a target key, the row it read      *)
(* there and a new status; the other operations insert a row and have      *)
(* none of them. Of the snapshot only what is asked of it later is kept:   *)
(* until when each row it shows over the stay takes it ("busyUntil"), and  *)
(* the keys of the ACTIVE holds that the operation may sweep.              *)
OpenTx == [phase: {"waiting", "checked"}, op: Operations, unit: Units,
           stay: Stay, target: Rows \cup {NoRow}, read: Row \cup {NoRow},
           to: Status, busyUntil: SUBSET Nat, holds: SUBSET Rows,
           doomed: BOOLEAN]

ASSUME IdleAssumption == Idle \notin OpenTx

-----------------------------------------------------------------------------
IsBooking(r) == r # NoRow /\ r.kind = "booking"

Occupying(r) == IsBooking(r) /\ r.status \in OCCUPYING

LiveHold(r, now) ==
  r # NoRow /\ r.kind = "hold" /\ r.status = "ACTIVE" /\ r.expiresAt > now

Block(r) == r # NoRow /\ r.kind = "block"

(* The rows assertAvailable and the calendar count as taking their nights. *)
Claims(r, now) == Occupying(r) \/ LiveHold(r, now) \/ Block(r)

(* Mutant: assertAvailable forgets the blocks.                             *)
Blockers_WithoutBlocks(unit, stay, exclude) ==
  {i \in Rows \ {exclude} : /\ Claims(rows[i], clock) /\ rows[i].unit = unit
                            /\ ~ Block(rows[i])
                            /\ Overlaps(rows[i].stay, stay)}

(* The rows that take nights of a stay: what assertAvailable looks for,    *)
(* one key left out.                                                       *)
Blockers(unit, stay, exclude) ==
  {i \in Rows \ {exclude} : /\ Claims(rows[i], clock) /\ rows[i].unit = unit
                            /\ Overlaps(rows[i].stay, stay)}

(* A row takes its nights for good, or until it expires if it is a hold.   *)
Forever == MaxClock + HoldTicks + 1

Until(r) == IF r.kind = "hold" THEN r.expiresAt ELSE Forever

(* Mutant: the exclusion constraint is dropped.                            *)
NoOccupyingOverlap_Dropped(i, unit, stay) == TRUE

(* Booking_no_occupying_overlap, over the committed rows.                  *)
NoOccupyingOverlap(i, unit, stay) ==
  \A j \in Rows \ {i} :
    Occupying(rows[j]) /\ rows[j].unit = unit => ~ Overlaps(rows[j].stay, stay)

(* Mutant: the interval of a row is not clipped to the window.             *)
UnavailableNights_Unclipped(unit, window) ==
  UNION {EachNight(rows[i].stay) : i \in Blockers(unit, window, NoRow)}

(* unavailableNights: the nights of a window the public calendar shows as  *)
(* taken.                                                                  *)
UnavailableNights(unit, window) ==
  UNION {EachNight(Clip(rows[i].stay, window)) :
           i \in {j \in Rows : /\ Claims(rows[j], clock)
                               /\ rows[j].unit = unit
                               /\ Overlaps(rows[j].stay, window)}}

(* The guards of AdminService.transition on the booking it read.           *)
Today == clock \div TicksPerDay

TransitionAllowed(r, to) ==
  /\ MayMove(r.status, to)
  /\ to \in {"CONFIRMED", "CHECKED_IN"} => r.level >= 1
  /\ to = "CHECKED_OUT" => r.level = 2
  /\ to = "CHECKED_IN" => r.stay[1] <= Today

(* The ACTIVE holds an operation may mark EXPIRED: createHold those of     *)
(* every unit, create those of its unit, the staff operations none.        *)
SweptBy(op, unit) ==
  {i \in Rows : /\ op \in {"createHold", "create"}
                /\ rows[i] # NoRow /\ rows[i].kind = "hold"
                /\ rows[i].status = "ACTIVE"
                /\ op = "create" => rows[i].unit = unit}

LockFree(unit) ==
  \A t \in Tx : tx[t] # Idle /\ tx[t].phase = "checked" => tx[t].unit # unit

-----------------------------------------------------------------------------
Init ==
  /\ clock = 0
  /\ rows = [i \in Rows |-> NoRow]
  /\ tx = [t \in Tx |-> Idle]
  /\ reinstated = {}

(* The snapshot of an operation on a stay.                                 *)
Begin(t, op, unit, stay, target, to) ==
  /\ tx[t] = Idle
  /\ op \in Operations
  /\ tx' = [tx EXCEPT ![t] =
              [phase |-> "waiting", op |-> op, unit |-> unit, stay |-> stay,
               target |-> target, to |-> to,
               read |-> IF target = NoRow THEN NoRow ELSE rows[target],
               busyUntil |-> {Until(rows[i]) : i \in Blockers(unit, stay, target)},
               holds |-> SweptBy(op, unit), doomed |-> FALSE]]
  /\ UNCHANGED <<clock, rows, reinstated>>

(* The first statement of an operation that inserts a row: the snapshot is *)
(* taken, then the session waits for the lock of the unit.                 *)
BeginInsert(t, op, unit, stay) ==
  /\ op # "transition"
  /\ Begin(t, op, unit, stay, NoRow, "PENDING_PAYMENT")

(* A transition to an occupying status reads the booking and checks its    *)
(* guards before it asks for the lock.                                     *)
BeginTransition(t, b, to) ==
  /\ IsBooking(rows[b]) /\ to \in Targets \cap OCCUPYING
  /\ TransitionAllowed(rows[b], to)
  /\ Begin(t, "transition", rows[b].unit, rows[b].stay, b, to)

(* Mutant: the sweep forgets to compare expiresAt with the clock.          *)
Swept_All(x) == x.holds

(* The expired holds a checked operation marks EXPIRED.                    *)
Swept(x) == {i \in x.holds : rows[i].expiresAt <= clock}

(* lockUnit returns and assertAvailable passes, on the snapshot and the    *)
(* present time.                                                           *)
Check(t) ==
  /\ tx[t] # Idle /\ tx[t].phase = "waiting"
  /\ LockFree(tx[t].unit)
  /\ \A end \in tx[t].busyUntil : end <= clock
  /\ tx' = [tx EXCEPT ![t].phase = "checked", ![t].holds = Swept(tx[t])]
  /\ UNCHANGED <<clock, rows, reinstated>>

(* The row an operation inserts.                                           *)
NewRow(x) ==
  CASE x.op = "createHold" ->
         [kind |-> "hold", unit |-> x.unit, stay |-> x.stay,
          status |-> "ACTIVE", expiresAt |-> clock + HoldTicks]
    [] x.op = "block" -> [kind |-> "block", unit |-> x.unit, stay |-> x.stay]
    [] OTHER ->
         [kind |-> "booking", unit |-> x.unit, stay |-> x.stay,
          status |-> "PENDING_PAYMENT", level |-> StartLevel[x.unit], attempts |-> 0]

Written(x) ==
  IF x.op = "transition" THEN [rows[x.target] EXCEPT !.status = x.to]
  ELSE NewRow(x)

(* The table after the sweep.                                              *)
Expired(S) ==
  [j \in Rows |-> IF j \in S THEN [rows[j] EXCEPT !.status = "EXPIRED"] ELSE rows[j]]

(* Mutant: the operations run at the default isolation level.              *)
CommitOf_ReadCommitted(t) == [tx EXCEPT ![t] = Idle]

(* What the commit of t leaves of the other sessions: the ones whose stay  *)
(* it claimed read a snapshot without that claim, and x read theirs.       *)
CommitOf(t) ==
  [s \in Tx |->
     IF s = t THEN Idle
     ELSE IF tx[s] # Idle /\ tx[s].unit = tx[t].unit
             /\ Overlaps(tx[s].stay, tx[t].stay)
          THEN [tx[s] EXCEPT !.doomed = TRUE]
          ELSE tx[s]]

(* Mutant: the transition runs at the default isolation level, and does not*)
(* read the booking again.                                                 *)
Commit_StaleRead(t, i) ==
  LET x == tx[t] IN
  /\ x # Idle /\ x.phase = "checked" /\ ~ x.doomed
  /\ x.op = "transition" \/ rows[i] = NoRow
  /\ x.op = "transition" => i = x.target
  /\ \A j \in x.holds : rows[j].status = "ACTIVE"
  /\ x.op \notin {"createHold", "block"} => NoOccupyingOverlap(i, x.unit, x.stay)
  /\ rows' = [Expired(x.holds) EXCEPT ![i] = Written(x)]
  /\ tx' = CommitOf(t)
  /\ UNCHANGED <<clock, reinstated>>

(* The write and the commit. i is the key written: a fresh one or the      *)
(* target. Rows updated must be as the snapshot had them; the exclusion    *)
(* constraint applies to bookings.                                         *)
Commit(t, i) ==
  LET x == tx[t] IN
  /\ x # Idle /\ x.phase = "checked" /\ ~ x.doomed
  /\ rows[i] = x.read
  /\ x.op = "transition" => i = x.target
  /\ \A j \in x.holds : rows[j].status = "ACTIVE"
  /\ x.op \notin {"createHold", "block"} => NoOccupyingOverlap(i, x.unit, x.stay)
  /\ rows' = [Expired(x.holds) EXCEPT ![i] = Written(x)]
  /\ tx' = CommitOf(t)
  /\ UNCHANGED <<clock, reinstated>>

(* Unavailable, a serialization failure, a constraint, a timeout, a crash. *)
Abort(t) ==
  /\ tx[t] # Idle
  /\ tx' = [tx EXCEPT ![t] = Idle]
  /\ UNCHANGED <<clock, rows, reinstated>>

(* A transition to any other status takes no lock; it reads and writes one *)
(* row, so a concurrent change of the row aborts it.                       *)
Transition(b, to) ==
  /\ IsBooking(rows[b]) /\ to \in Targets \ OCCUPYING
  /\ TransitionAllowed(rows[b], to)
  /\ rows' = [rows EXCEPT ![b].status = to]
  /\ reinstated' = reinstated \ {b}
  /\ UNCHANGED <<clock, tx>>

(* unblock deletes the row, in a READ COMMITTED transaction without lock.  *)
Unblock(b) ==
  /\ Block(rows[b])
  /\ rows' = [rows EXCEPT ![b] = NoRow]
  /\ UNCHANGED <<clock, tx, reinstated>>

(* Mutant: the receipt is not checked against the amount outstanding.      *)
Payment_Unchecked(b, level) ==
  /\ Occupying(rows[b])
  /\ rows' = [rows EXCEPT ![b].level = @ + level]
  /\ UNCHANGED <<clock, tx, reinstated>>

(* AdminService.payment: a receipt of up to the amount outstanding.        *)
Payment(b, level) ==
  /\ Occupying(rows[b]) /\ level \in (rows[b].level + 1) .. 2
  /\ rows' = [rows EXCEPT ![b].level = level]
  /\ UNCHANGED <<clock, tx, reinstated>>

(* createPaymentUrl reads a booking that awaits payment: the lesser of its *)
(* deposit and its balance is not nothing.                                 *)
CreatePaymentUrl(b) ==
  /\ IsBooking(rows[b]) /\ rows[b].status \in {"PENDING_PAYMENT", "PAYMENT_FAILED"}
  /\ StartLevel[rows[b].unit] = 0 /\ rows[b].level < 2
  /\ rows[b].attempts < MaxAttempts
  /\ rows' = [rows EXCEPT ![b].attempts = @ + 1]
  /\ UNCHANGED <<clock, tx, reinstated>>

(* The request fails before its link is made.                              *)
DropLink(b) ==
  /\ IsBooking(rows[b]) /\ rows[b].attempts > 0
  /\ rows' = [rows EXCEPT ![b].attempts = @ - 1]
  /\ UNCHANGED <<clock, tx, reinstated>>

(* handleIpn on a captured payment: the booking becomes CONFIRMED from     *)
(* whatever it is, unless the trigger or the exclusion constraint refuses. *)
(* The sum it writes covers the deposit (VnpayPayments!CaptureCovers) but  *)
(* may have missed a receipt, hence any level from 1.                      *)
HandleIpn(b, level) ==
  /\ IsBooking(rows[b]) /\ rows[b].attempts > 0
  /\ TerminalGuard(rows[b].status, "CONFIRMED")
  /\ NoOccupyingOverlap(b, rows[b].unit, rows[b].stay)
  /\ rows' = [rows EXCEPT ![b].status = "CONFIRMED", ![b].level = level,
                          ![b].attempts = @ - 1]
  /\ reinstated' = IF Occupying(rows[b]) THEN reinstated ELSE reinstated \cup {b}
  /\ UNCHANGED <<clock, tx>>

Tick ==
  /\ clock < MaxClock
  /\ clock' = clock + 1
  /\ UNCHANGED <<rows, tx, reinstated>>

Next ==
  \/ \E t \in Tx, op \in Operations, u \in Units, s \in Stay :
       BeginInsert(t, op, u, s)
  \/ \E t \in Tx, b \in Rows, to \in Status : BeginTransition(t, b, to)
  \/ \E t \in Tx : Check(t)
  \/ \E t \in Tx, i \in Rows : Commit(t, i)
  \/ \E t \in Tx : Abort(t)
  \/ \E b \in Rows, to \in Status : Transition(b, to)
  \/ \E b \in Rows : Unblock(b)
  \/ \E b \in Rows, level \in 1..2 : Payment(b, level)
  \/ \E b \in Rows : CreatePaymentUrl(b) \/ DropLink(b)
  \/ \E b \in Rows, level \in 1..2 : HandleIpn(b, level)
  \/ Tick

Spec == Init /\ [][Next]_vars

-----------------------------------------------------------------------------
TypeOK ==
  /\ clock \in 0..MaxClock
  /\ rows \in [Rows -> Row \cup {NoRow}]
  /\ tx \in [Tx -> OpenTx \cup {Idle}]
  /\ reinstated \subseteq Rows

(* The claims of Inventory behind the rows.                                *)
Granted ==
  [i \in Rows |->
     IF Claims(rows[i], clock)
     THEN [kind |-> rows[i].kind, unit |-> rows[i].unit, stay |-> rows[i].stay,
           reinstated |-> i \in reinstated]
     ELSE NoRow]

Abstract == INSTANCE Inventory WITH Holders <- Rows, Free <- NoRow, granted <- Granted

ASSUME NoClaimAssumption == NoRow \notin Abstract!Claim

(* The transactions, locks and snapshots implement atomic claims: a claim  *)
(* checked against a stale snapshot is never committed over another one    *)
(* that a locked operation made.                                           *)
ImplementsInventory == Abstract!Spec

(* The bookings of BookingContract, and whose nights others occupy.        *)
AccountOf(r) ==
  IF IsBooking(r)
  THEN [status |-> r.status, deposit |-> StartLevel[r.unit] = 0,
        level |-> r.level, attempts |-> r.attempts]
  ELSE NoRow

Accounts == [i \in Rows |-> AccountOf(rows[i])]

Taken ==
  [i \in Rows |-> IsBooking(rows[i])
                   /\ ~ NoOccupyingOverlap(i, rows[i].unit, rows[i].stay)]

Contract == INSTANCE BookingContract
              WITH Bookings <- Rows, None <- NoRow, account <- Accounts, taken <- Taken

ASSUME NoAccountAssumption == NoRow \notin Contract!Account

(* What VnpayPayments relies on: between the read of a booking and the     *)
(* commit of its transition nothing moves it, no one is taken to a room    *)
(* that is not paid for, and the nights of a booking that occupies its     *)
(* unit are never given away.                                              *)
MeetsContract == Contract!Spec

(* No two occupying bookings share a night of a unit, though a             *)
(* notification confirms a booking without the lock and without a check.   *)
NoOverbooking ==
  \A i, j \in Rows :
    i # j /\ Occupying(rows[i]) /\ Occupying(rows[j]) /\ rows[i].unit = rows[j].unit
    => ~ Overlaps(rows[i].stay, rows[j].stay)

(* A guest who has checked in has nights that no live hold and no block    *)
(* takes, even when a payment notification put the booking back first:     *)
(* check-in takes the lock and checks again.                               *)
GuestNightsAreClear ==
  \A i, j \in Rows :
    /\ IsBooking(rows[i]) /\ rows[i].status = "CHECKED_IN"
    /\ LiveHold(rows[j], clock) \/ Block(rows[j])
    /\ rows[i].unit = rows[j].unit
    => ~ Overlaps(rows[i].stay, rows[j].stay)

(* The public calendar and the check at booking time agree: the nights of  *)
(* a window it shows as taken are those no one could book alone, and a     *)
(* stay would be accepted now exactly when all its nights show as free.    *)
CalendarAgrees ==
  \A u \in Units, s \in Stay :
    /\ UnavailableNights(u, s) =
         {n \in EachNight(s) : Blockers(u, <<n, n + 1>>, NoRow) # {}}
    /\ UnavailableNights(u, s) = {} <=> Blockers(u, s, NoRow) = {}

(* A live hold stands until its time runs out: no operation on this or     *)
(* another unit expires it early, whatever snapshot and clock it worked    *)
(* with, and nothing extends it.                                           *)
LiveHoldsStand ==
  [][\A i \in Rows : LiveHold(rows[i], clock) => rows'[i] = rows[i]]_rows

(* A booking that reached a terminal status keeps it, though a payment     *)
(* notification for it may still arrive.                                   *)
TerminalIsFinal ==
  [][\A b \in Rows : IsBooking(rows[b]) /\ rows[b].status \in Frozen
       => rows'[b].status = rows[b].status]_rows

(* No claim of any kind is over another: what the documented discipline of *)
(* lock, check and write would give.                                       *)
NoConflictingClaims ==
  \A i, j \in Rows :
    /\ i # j /\ Claims(rows[i], clock) /\ Claims(rows[j], clock)
    /\ rows[i].unit = rows[j].unit
    => ~ Overlaps(rows[i].stay, rows[j].stay)

-----------------------------------------------------------------------------
(* Why it works: the parts of an inductive invariant.                      *)

(* A reinstated claim is excused until check-in has checked it again.      *)
Excused(i) == i \in reinstated /\ rows[i].status # "CHECKED_IN"

(* A transition has read the booking it locks and checks, an insertion     *)
(* nothing.                                                                *)
TransactionsReadTheirTarget ==
  \A t \in Tx : tx[t] # Idle =>
    /\ tx[t].op = "transition" =>
         /\ tx[t].target \in Rows /\ tx[t].to \in OCCUPYING
         /\ IsBooking(tx[t].read) /\ MayMove(tx[t].read.status, tx[t].to)
         /\ tx[t].to \in {"CONFIRMED", "CHECKED_IN"} => tx[t].read.level >= 1
         /\ tx[t].read.unit = tx[t].unit /\ tx[t].read.stay = tx[t].stay
    /\ tx[t].op # "transition" => tx[t].target = NoRow /\ tx[t].read = NoRow

SweepsTakeExpiredHolds ==
  \A t \in Tx : tx[t] # Idle =>
    \A j \in tx[t].holds :
      /\ rows[j] # NoRow /\ rows[j].kind = "hold"
      /\ tx[t].phase = "checked" => rows[j].expiresAt <= clock

ReinstatedOccupy == \A i \in reinstated : Occupying(rows[i])

(* An open transaction that could still commit has seen everything that    *)
(* now takes its stay, but for excused claims: what was committed since    *)
(* its snapshot would have doomed it. One that is checked saw only holds   *)
(* that have expired.                                                      *)
SnapshotsCover ==
  \A t \in Tx : tx[t] # Idle =>
    /\ ~ tx[t].doomed =>
         \A i \in Blockers(tx[t].unit, tx[t].stay, tx[t].target) :
           ~ Excused(i) => \E end \in tx[t].busyUntil : Until(rows[i]) <= end
    /\ tx[t].phase = "checked" => \A end \in tx[t].busyUntil : end <= clock

(* So claims meet only where a notification put one of them back, and a    *)
(* check-in has not looked since.                                          *)
ConflictsAreExcused ==
  \A i, j \in Rows :
    /\ i # j /\ Claims(rows[i], clock) /\ Claims(rows[j], clock)
    /\ rows[i].unit = rows[j].unit /\ Overlaps(rows[i].stay, rows[j].stay)
    => Excused(i) \/ Excused(j)

(* The invariant the proofs carry: no step of any operation, interleaved   *)
(* with any others, leaves it.                                             *)
Discipline ==
  /\ TypeOK
  /\ TransactionsReadTheirTarget
  /\ SweepsTakeExpiredHolds
  /\ ReinstatedOccupy
  /\ SnapshotsCover
  /\ ConflictsAreExcused
  /\ NoOverbooking
=============================================================================
