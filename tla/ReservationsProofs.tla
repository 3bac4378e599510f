-------------------------- MODULE ReservationsProofs --------------------------
(***************************************************************************)
(* Reservations keeps its promises for every number of units, keys,        *)
(* sessions and days. The invariant that carries the proofs is Discipline; *)
(* what each step may do to live holds, to terminal bookings and to the    *)
(* claims of Inventory, which Reservations implements, follows from it.    *)
(***************************************************************************)
EXTENDS Reservations, TLAPS

USE DEF vars

-----------------------------------------------------------------------------
(* Types.                                                                  *)

(* What the kinds of rows have in common, and what tells them apart.       *)
LEMMA RowShape ==
  ASSUME NEW r \in Row
  PROVE  /\ r # NoRow /\ r.unit \in Units /\ r.stay \in Stay
         /\ r.kind \in {"booking", "hold", "block"}
         /\ r.kind = "booking" => r \in BookingRow
         /\ r.kind = "hold" => r \in HoldRow
         /\ r.kind = "block" => r \in BlockRow
  BY NoRowAssumption DEF Row, BookingRow, HoldRow, BlockRow

LEMMA LifecycleTypes ==
  /\ OCCUPYING \subseteq Status /\ "PENDING_PAYMENT" \in OCCUPYING
  /\ "CONFIRMED" \in OCCUPYING /\ "CHECKED_IN" \in OCCUPYING
  BY DEF OCCUPYING, Status

LEMMA UntilIsNat ==
  ASSUME TypeOK, NEW i \in Rows, rows[i] # NoRow
  PROVE  Until(rows[i]) \in Nat
  BY RowShape, ReservationsAssumption DEF TypeOK, Until, Forever, HoldRow

(* Each step of the database keeps the rows rows.                          *)
LEMMA NewRowType ==
  ASSUME NEW x \in OpenTx, x.op # "transition", clock \in Nat
  PROVE  NewRow(x) \in Row
<1>1. CASE x.op = "createHold"
  BY <1>1, ReservationsAssumption DEF NewRow, Row, HoldRow, OpenTx
<1>2. CASE x.op = "block"
  BY <1>2 DEF NewRow, Row, BlockRow, OpenTx
<1>3. CASE x.op \notin {"createHold", "block"}
  <2>1. NewRow(x) = [kind |-> "booking", unit |-> x.unit, stay |-> x.stay,
                     status |-> "PENDING_PAYMENT", level |-> StartLevel[x.unit],
                     attempts |-> 0]
    BY <1>3 DEF NewRow
  <2>2. QED
    BY <2>1, LifecycleTypes, ReservationsAssumption DEF Row, BookingRow, OpenTx
<1>4. QED
  BY <1>1, <1>2, <1>3

(* The parts of Discipline that typing needs.                              *)
Shape == TypeOK /\ TransactionsReadTheirTarget /\ SweepsTakeExpiredHolds

LEMMA CommitShape ==
  ASSUME Shape, NEW t \in Tx, NEW i \in Rows, Commit(t, i)
  PROVE  Shape'
<1> USE DEF Shape
<1> DEFINE x == tx[t]
<1>1. /\ x \in OpenTx /\ x # Idle
      /\ rows[i] = x.read
      /\ x.op = "transition" => i = x.target
      /\ rows' = [Expired(x.holds) EXCEPT ![i] = Written(x)]
      /\ tx' = CommitOf(t) /\ clock' = clock /\ reinstated' = reinstated
  BY DEF Commit, TypeOK
<1>2. /\ Written(x) \in Row
      /\ rows[i] # NoRow => rows[i].kind # "hold"
  <2>1. CASE x.op = "transition"
    <3>1. rows[i] \in BookingRow /\ x.to \in Status /\ i = x.target
      BY <1>1, <2>1, RowShape, LifecycleTypes
         DEF TypeOK, TransactionsReadTheirTarget, IsBooking
    <3>2. Written(x) = [rows[i] EXCEPT !.status = x.to]
      BY <2>1, <3>1 DEF Written
    <3>3. QED
      BY <3>1, <3>2 DEF Row, BookingRow
  <2>2. CASE x.op # "transition"
    BY <1>1, <2>2, NewRowType DEF TypeOK, TransactionsReadTheirTarget, Written
  <2>3. QED
    BY <2>1, <2>2
<1>3. ASSUME NEW j \in Rows
      PROVE  /\ rows'[j] \in Row \cup {NoRow}
             /\ rows[j] # NoRow /\ rows[j].kind = "hold" =>
                  /\ rows'[j] # NoRow /\ rows'[j].kind = "hold"
                  /\ rows'[j].expiresAt = rows[j].expiresAt
  <2>1. CASE j = i
    <3>1. rows'[i] = Written(x)
      BY <1>1 DEF Expired
    <3>2. QED
      BY <1>2, <2>1, <3>1
  <2>2. CASE j # i /\ j \in x.holds
    <3>1. rows[j] \in HoldRow /\ rows'[j] = [rows[j] EXCEPT !.status = "EXPIRED"]
      BY <1>1, <2>2, RowShape DEF TypeOK, SweepsTakeExpiredHolds, Expired
    <3>2. /\ rows'[j] \in HoldRow /\ rows'[j].kind = "hold"
          /\ rows'[j].expiresAt = rows[j].expiresAt
      BY <3>1 DEF HoldRow
    <3>3. QED
      BY <3>2, NoRowAssumption DEF Row
  <2>3. CASE j # i /\ j \notin x.holds
    BY <1>1, <2>3 DEF TypeOK, Expired
  <2>4. QED
    BY <2>1, <2>2, <2>3
<1>4. ASSUME NEW s \in Tx
      PROVE  /\ tx'[s] \in OpenTx \cup {Idle}
             /\ tx'[s] # Idle => /\ tx[s] # Idle
                                 /\ tx'[s] = tx[s] \/ tx'[s] = [tx[s] EXCEPT !.doomed = TRUE]
  <2>1. tx'[s] \in {Idle, tx[s]} \/ (tx[s] # Idle /\ tx'[s] = [tx[s] EXCEPT !.doomed = TRUE])
    BY <1>1 DEF CommitOf
  <2>2. QED
    BY <2>1 DEF TypeOK, OpenTx
<1>5. TypeOK'
  BY <1>1, <1>3, <1>4 DEF TypeOK, CommitOf, Expired
<1>6. ASSUME NEW s \in Tx, tx'[s] # Idle
      PROVE  /\ tx[s] # Idle /\ tx'[s].op = tx[s].op /\ tx'[s].target = tx[s].target
             /\ tx'[s].to = tx[s].to /\ tx'[s].read = tx[s].read
             /\ tx'[s].unit = tx[s].unit /\ tx'[s].stay = tx[s].stay
             /\ tx'[s].holds = tx[s].holds /\ tx'[s].phase = tx[s].phase
             /\ tx'[s].busyUntil = tx[s].busyUntil
  BY <1>4, <1>6 DEF TypeOK, OpenTx
<1>7. TransactionsReadTheirTarget'
  BY <1>6 DEF TransactionsReadTheirTarget, IsBooking
<1>8. SweepsTakeExpiredHolds'
  <2> SUFFICES ASSUME NEW s \in Tx, tx'[s] # Idle, NEW j \in tx'[s].holds
               PROVE  /\ rows'[j] # NoRow /\ rows'[j].kind = "hold"
                      /\ tx'[s].phase = "checked" => rows'[j].expiresAt <= clock'
    BY DEF SweepsTakeExpiredHolds
  <2>1. /\ j \in Rows /\ j \in tx[s].holds /\ tx[s] # Idle
        /\ tx'[s].phase = tx[s].phase
    BY <1>6 DEF TypeOK, OpenTx
  <2>2. /\ rows[j] # NoRow /\ rows[j].kind = "hold"
        /\ tx[s].phase = "checked" => rows[j].expiresAt <= clock
    BY <2>1 DEF SweepsTakeExpiredHolds
  <2>3. clock' = clock
    BY <1>1
  <2>4. QED
    BY <1>3, <2>1, <2>2, <2>3
<1>9. QED
  BY <1>5, <1>7, <1>8

(* Any other change of a booking leaves it a booking of its stay.          *)
SameStay(r, s) == s \in BookingRow /\ s.unit = r.unit /\ s.stay = r.stay

BookingUpdate(b, s) ==
  /\ IsBooking(rows[b]) /\ SameStay(rows[b], s)
  /\ rows' = [rows EXCEPT ![b] = s]
  /\ UNCHANGED <<clock, tx>>

LEMMA BookingUpdates ==
  ASSUME TypeOK, NEW b \in Rows,
         \/ \E to \in Status : Transition(b, to)
         \/ \E level \in 1..2 : Payment(b, level) \/ HandleIpn(b, level)
         \/ CreatePaymentUrl(b) \/ DropLink(b)
  PROVE  BookingUpdate(b, rows'[b])
<1>1. ASSUME IsBooking(rows[b])
      PROVE  rows[b] \in BookingRow /\ DOMAIN rows = Rows
  BY <1>1, RowShape DEF TypeOK, IsBooking
<1>2. ASSUME NEW to \in Status, Transition(b, to)
      PROVE  BookingUpdate(b, rows'[b])
  BY <1>1, <1>2 DEF Transition, BookingUpdate, SameStay, BookingRow, TypeOK
<1>3. ASSUME NEW level \in 1..2, Payment(b, level)
      PROVE  BookingUpdate(b, rows'[b])
  BY <1>1, <1>3 DEF Payment, Occupying, BookingUpdate, SameStay, BookingRow, TypeOK
<1>4. ASSUME NEW level \in 1..2, HandleIpn(b, level)
      PROVE  BookingUpdate(b, rows'[b])
  <2>1. rows[b].attempts - 1 \in 0..MaxAttempts
    BY <1>1, <1>4, ReservationsAssumption DEF HandleIpn, BookingRow
  <2>2. QED
    BY <1>1, <1>4, <2>1, LifecycleTypes
       DEF HandleIpn, BookingUpdate, SameStay, BookingRow, TypeOK
<1>5. ASSUME CreatePaymentUrl(b)
      PROVE  BookingUpdate(b, rows'[b])
  <2>1. rows[b].attempts + 1 \in 0..MaxAttempts
    BY <1>1, <1>5, ReservationsAssumption DEF CreatePaymentUrl, BookingRow
  <2>2. QED
    BY <1>1, <1>5, <2>1 DEF CreatePaymentUrl, BookingUpdate, SameStay, BookingRow, TypeOK
<1>6. ASSUME DropLink(b)
      PROVE  BookingUpdate(b, rows'[b])
  <2>1. rows[b].attempts - 1 \in 0..MaxAttempts
    BY <1>1, <1>6, ReservationsAssumption DEF DropLink, BookingRow
  <2>2. QED
    BY <1>1, <1>6, <2>1 DEF DropLink, BookingUpdate, SameStay, BookingRow, TypeOK
<1>7. QED
  BY <1>2, <1>3, <1>4, <1>5, <1>6

LEMMA BookingUpdateShape ==
  ASSUME Shape, NEW b \in Rows, BookingUpdate(b, rows'[b]), reinstated' \subseteq Rows
  PROVE  Shape'
<1> USE DEF Shape, BookingUpdate, SameStay
<1>1. rows[b] \in BookingRow /\ rows'[b] \in BookingRow
  BY RowShape DEF TypeOK, IsBooking
<1>2. TypeOK'
  BY <1>1 DEF TypeOK, Row
<1>3. TransactionsReadTheirTarget'
  BY DEF TransactionsReadTheirTarget
<1>4. SweepsTakeExpiredHolds'
  <2> SUFFICES ASSUME NEW s \in Tx, tx[s] # Idle, NEW j \in tx[s].holds
               PROVE  /\ rows'[j] # NoRow /\ rows'[j].kind = "hold"
                      /\ tx[s].phase = "checked" => rows'[j].expiresAt <= clock
    BY DEF SweepsTakeExpiredHolds
  <2>1. j \in Rows /\ j # b
    BY <1>1 DEF TypeOK, OpenTx, SweepsTakeExpiredHolds, BookingRow
  <2>2. QED
    BY <2>1 DEF TypeOK, SweepsTakeExpiredHolds
<1>5. QED
  BY <1>2, <1>3, <1>4

(* The steps of a transaction before its commit.                           *)
LEMMA OpenTxType ==
  ASSUME NEW op \in Operations, NEW unit \in Units, NEW stay \in Stay,
         NEW target \in Rows \cup {NoRow}, NEW to \in Status,
         NEW read \in Row \cup {NoRow},
         NEW busyUntil \in SUBSET Nat, NEW holds \in SUBSET Rows
  PROVE  [phase |-> "waiting", op |-> op, unit |-> unit, stay |-> stay,
          target |-> target, to |-> to, read |-> read, busyUntil |-> busyUntil,
          holds |-> holds, doomed |-> FALSE] \in OpenTx
  BY DEF OpenTx

LEMMA BeginShape ==
  ASSUME Shape, NEW t \in Tx, NEW op \in Operations, NEW unit \in Units, NEW stay \in Stay,
         NEW target \in Rows \cup {NoRow}, NEW to \in Status,
         Begin(t, op, unit, stay, target, to),
         op = "transition" => /\ target \in Rows /\ to \in OCCUPYING
                              /\ IsBooking(rows[target])
                              /\ MayMove(rows[target].status, to)
                              /\ to \in {"CONFIRMED", "CHECKED_IN"} =>
                                   rows[target].level >= 1
                              /\ rows[target].unit = unit /\ rows[target].stay = stay,
         op # "transition" => target = NoRow
  PROVE  Shape'
<1> USE DEF Shape
<1> DEFINE x == [phase |-> "waiting", op |-> op, unit |-> unit, stay |-> stay,
                 target |-> target, to |-> to,
                 read |-> IF target = NoRow THEN NoRow ELSE rows[target],
                 busyUntil |-> {Until(rows[i]) : i \in Blockers(unit, stay, target)},
                 holds |-> SweptBy(op, unit), doomed |-> FALSE]
<1>1. tx' = [tx EXCEPT ![t] = x] /\ UNCHANGED <<clock, rows, reinstated>>
  BY DEF Begin
<1>2. {Until(rows[i]) : i \in Blockers(unit, stay, target)} \in SUBSET Nat
  BY UntilIsNat DEF Blockers, Claims, Occupying, IsBooking, LiveHold, Block
<1>3. SweptBy(op, unit) \in SUBSET Rows
  BY DEF SweptBy
<1>4. (IF target = NoRow THEN NoRow ELSE rows[target]) \in Row \cup {NoRow}
  BY DEF TypeOK
<1>5. x \in OpenTx /\ x # Idle
  <2> HIDE DEF Shape
  <2> DEFINE read == IF target = NoRow THEN NoRow ELSE rows[target]
             busyUntil == {Until(rows[i]) : i \in Blockers(unit, stay, target)}
             holds == SweptBy(op, unit)
  <2>1. read \in Row \cup {NoRow} /\ busyUntil \in SUBSET Nat /\ holds \in SUBSET Rows
    BY <1>2, <1>3, <1>4
  <2> HIDE DEF read, busyUntil, holds
  <2>2. [phase |-> "waiting", op |-> op, unit |-> unit, stay |-> stay,
          target |-> target, to |-> to, read |-> read, busyUntil |-> busyUntil,
          holds |-> holds, doomed |-> FALSE] \in OpenTx
    BY <2>1, OpenTxType
  <2>3. QED
    BY <2>2, IdleAssumption DEF read, busyUntil, holds
<1> HIDE DEF x
<1>6. TypeOK'
  BY <1>1, <1>5 DEF TypeOK
<1>7. ASSUME NEW s \in Tx PROVE tx'[s] = IF s = t THEN x ELSE tx[s]
  BY <1>1 DEF TypeOK
<1>8. TransactionsReadTheirTarget'
  <2>1. /\ x.op = "transition" =>
             /\ x.target \in Rows /\ x.to \in OCCUPYING
             /\ IsBooking(x.read) /\ MayMove(x.read.status, x.to)
             /\ x.to \in {"CONFIRMED", "CHECKED_IN"} => x.read.level >= 1
             /\ x.read.unit = x.unit /\ x.read.stay = x.stay
        /\ x.op # "transition" => x.target = NoRow /\ x.read = NoRow
    BY NoRowAssumption DEF x
  <2>2. QED
    BY <1>7, <2>1 DEF TransactionsReadTheirTarget, IsBooking
<1>9. SweepsTakeExpiredHolds'
  <2>1. x.phase = "waiting" /\ \A j \in x.holds : rows[j] # NoRow /\ rows[j].kind = "hold"
    BY DEF x, SweptBy
  <2>2. QED
    BY <1>1, <1>7, <2>1 DEF SweepsTakeExpiredHolds
<1>10. QED
  BY <1>6, <1>8, <1>9

LEMMA CheckShape ==
  ASSUME Shape, NEW t \in Tx, Check(t)
  PROVE  Shape'
<1> USE DEF Shape
<1> DEFINE x == [tx[t] EXCEPT !.phase = "checked", !.holds = Swept(tx[t])]
<1>1. /\ tx' = [tx EXCEPT ![t] = x] /\ UNCHANGED <<clock, rows, reinstated>>
      /\ tx[t] \in OpenTx /\ tx[t] # Idle
  BY DEF Check, TypeOK
<1>2. /\ x \in OpenTx /\ x # Idle
      /\ x.op = tx[t].op /\ x.target = tx[t].target /\ x.to = tx[t].to
      /\ x.read = tx[t].read /\ x.unit = tx[t].unit /\ x.stay = tx[t].stay
      /\ x.holds = {j \in tx[t].holds : rows[j].expiresAt <= clock}
  <2> HIDE DEF Shape
  <2>1. Swept(tx[t]) = {j \in tx[t].holds : rows[j].expiresAt <= clock}
    BY DEF Swept
  <2>2. Swept(tx[t]) \in SUBSET Rows
    BY <1>1, <2>1 DEF OpenTx
  <2>3. x \in OpenTx
    BY <1>1, <2>2 DEF OpenTx
  <2>4. /\ x.op = tx[t].op /\ x.target = tx[t].target /\ x.to = tx[t].to
        /\ x.read = tx[t].read /\ x.unit = tx[t].unit /\ x.stay = tx[t].stay
        /\ x.holds = Swept(tx[t])
    BY <1>1 DEF OpenTx
  <2>5. QED
    BY <2>1, <2>3, <2>4, IdleAssumption
<1> HIDE DEF x
<1>3. TypeOK'
  BY <1>1, <1>2 DEF TypeOK
<1>4. ASSUME NEW s \in Tx PROVE tx'[s] = IF s = t THEN x ELSE tx[s]
  BY <1>1 DEF TypeOK
<1>5. TransactionsReadTheirTarget'
  BY <1>1, <1>2, <1>4 DEF TransactionsReadTheirTarget, IsBooking
<1>6. SweepsTakeExpiredHolds'
  BY <1>1, <1>2, <1>4 DEF SweepsTakeExpiredHolds
<1>7. QED
  BY <1>3, <1>5, <1>6

LEMMA AbortShape ==
  ASSUME Shape, NEW t \in Tx, Abort(t)
  PROVE  Shape'
<1> USE DEF Shape, Abort
<1>1. ASSUME NEW s \in Tx, tx'[s] # Idle PROVE tx'[s] = tx[s]
  BY <1>1 DEF TypeOK
<1>2. TypeOK'
  BY DEF TypeOK
<1>3. TransactionsReadTheirTarget'
  BY <1>1 DEF TransactionsReadTheirTarget, IsBooking
<1>4. SweepsTakeExpiredHolds'
  BY <1>1 DEF SweepsTakeExpiredHolds
<1>5. QED
  BY <1>2, <1>3, <1>4

LEMMA UnblockShape ==
  ASSUME Shape, NEW b \in Rows, Unblock(b)
  PROVE  Shape'
<1> USE DEF Shape, Unblock
<1>1. TypeOK'
  BY DEF TypeOK
<1>2. TransactionsReadTheirTarget'
  BY DEF TransactionsReadTheirTarget, IsBooking
<1>3. SweepsTakeExpiredHolds'
  <2> SUFFICES ASSUME NEW s \in Tx, tx[s] # Idle, NEW j \in tx[s].holds
               PROVE  rows'[j] = rows[j]
    BY DEF SweepsTakeExpiredHolds
  <2>1. j \in Rows /\ j # b
    BY DEF TypeOK, OpenTx, SweepsTakeExpiredHolds, Block
  <2>2. QED
    BY <2>1 DEF TypeOK
<1>4. QED
  BY <1>1, <1>2, <1>3

LEMMA TickShape ==
  ASSUME Shape, Tick
  PROVE  Shape'
<1> USE DEF Shape, Tick
<1>1. TypeOK'
  BY ReservationsAssumption DEF TypeOK
<1>2. TransactionsReadTheirTarget'
  BY DEF TransactionsReadTheirTarget, IsBooking
<1>3. SweepsTakeExpiredHolds'
  <2> SUFFICES ASSUME NEW s \in Tx, tx[s] # Idle, NEW j \in tx[s].holds,
                      tx[s].phase = "checked"
               PROVE  rows[j].expiresAt <= clock + 1
    BY DEF SweepsTakeExpiredHolds
  <2>1. j \in Rows /\ rows[j] \in HoldRow /\ rows[j].expiresAt <= clock
    BY RowShape DEF TypeOK, OpenTx, SweepsTakeExpiredHolds
  <2>2. QED
    BY <2>1 DEF HoldRow, TypeOK
<1>4. QED
  BY <1>1, <1>2, <1>3

(* The step that keeps the shape of every operation together.              *)
LEMMA ShapeStep ==
  ASSUME Shape, [Next]_vars
  PROVE  Shape'
<1>1. ASSUME NEW t \in Tx, NEW op \in Operations, NEW u \in Units, NEW s \in Stay,
             BeginInsert(t, op, u, s)
      PROVE  Shape'
  BY <1>1, BeginShape, LifecycleTypes DEF BeginInsert
<1>2. ASSUME NEW t \in Tx, NEW b \in Rows, NEW to \in Status, BeginTransition(t, b, to)
      PROVE  Shape'
  <2>1. /\ rows[b].unit \in Units /\ rows[b].stay \in Stay
        /\ to \in OCCUPYING /\ "transition" \in Operations
    BY <1>2, RowShape DEF BeginTransition, Begin, IsBooking, Shape, TypeOK
  <2>2. QED
    BY <1>2, <2>1, BeginShape DEF BeginTransition, TransitionAllowed
<1>3. ASSUME NEW t \in Tx, Check(t) \/ Abort(t) PROVE Shape'
  BY <1>3, CheckShape, AbortShape
<1>4. ASSUME NEW t \in Tx, NEW i \in Rows, Commit(t, i) PROVE Shape'
  BY <1>4, CommitShape
<1>5. ASSUME NEW b \in Rows,
             \/ \E to \in Status : Transition(b, to)
             \/ \E level \in 1..2 : Payment(b, level) \/ HandleIpn(b, level)
             \/ CreatePaymentUrl(b) \/ DropLink(b)
      PROVE  Shape'
  <2>1. reinstated' \subseteq Rows
    BY <1>5 DEF Shape, TypeOK, Transition, Payment, HandleIpn, CreatePaymentUrl, DropLink
  <2>2. QED
    BY <1>5, <2>1, BookingUpdates, BookingUpdateShape DEF Shape
<1>6. ASSUME NEW b \in Rows, Unblock(b) PROVE Shape'
  BY <1>6, UnblockShape
<1>7. CASE Tick
  BY <1>7, TickShape
<1>8. CASE UNCHANGED vars
  BY <1>8 DEF Shape, TypeOK, TransactionsReadTheirTarget, SweepsTakeExpiredHolds, IsBooking
<1>9. QED
  BY <1>1, <1>2, <1>3, <1>4, <1>5, <1>6, <1>7, <1>8 DEF Next

LEMMA ShapeInit == Init => Shape
  BY ReservationsAssumption
     DEF Init, Shape, TypeOK, TransactionsReadTheirTarget, SweepsTakeExpiredHolds

(* Rows, transactions and the clock keep their types in every behaviour:   *)
(* no operation writes a row of the wrong kind through a stale read.       *)
THEOREM ReservationsTypeCorrect == Spec => []TypeOK
<1>1. Shape => TypeOK
  BY DEF Shape
<1>2. QED
  BY <1>1, ShapeInit, ShapeStep, PTL DEF Spec

-----------------------------------------------------------------------------
(* Safety.                                                                 *)

LEMMA OverlapsSymmetric ==
  ASSUME NEW a \in Stay, NEW b \in Stay
  PROVE  Overlaps(a, b) <=> Overlaps(b, a)
  BY DEF Overlaps

(* Steps that add no claim but an excused one.                             *)
Calm ==
  /\ tx' = tx /\ clock' \in Nat /\ clock <= clock'
  /\ \A j \in Rows : Claims(rows'[j], clock') =>
       \/ Excused(j)'
       \/ /\ Claims(rows[j], clock) /\ (Excused(j) => Excused(j)')
          /\ rows'[j].unit = rows[j].unit /\ rows'[j].stay = rows[j].stay
          /\ Until(rows'[j]) = Until(rows[j])

LEMMA CalmSteps ==
  ASSUME Discipline, Calm
  PROVE  SnapshotsCover' /\ ConflictsAreExcused'
<1>1. SnapshotsCover'
  <2> SUFFICES ASSUME NEW t \in Tx, tx[t] # Idle
               PROVE  /\ ~ tx[t].doomed =>
                           \A i \in Blockers(tx[t].unit, tx[t].stay, tx[t].target)' :
                             ~ Excused(i)' =>
                               \E end \in tx[t].busyUntil : Until(rows'[i]) <= end
                      /\ tx[t].phase = "checked" =>
                           \A end \in tx[t].busyUntil : end <= clock'
    BY DEF SnapshotsCover, Calm, Until
  <2>1. ASSUME ~ tx[t].doomed,
               NEW i \in Blockers(tx[t].unit, tx[t].stay, tx[t].target)',
               ~ Excused(i)'
        PROVE  \E end \in tx[t].busyUntil : Until(rows'[i]) <= end
    <3>1. /\ i \in Rows \ {tx[t].target} /\ Claims(rows'[i], clock')
          /\ rows'[i].unit = tx[t].unit /\ Overlaps(rows'[i].stay, tx[t].stay)
      BY DEF Blockers, Calm
    <3>2. /\ Claims(rows[i], clock) /\ ~ Excused(i)
          /\ rows'[i].unit = rows[i].unit /\ rows'[i].stay = rows[i].stay
          /\ Until(rows'[i]) = Until(rows[i])
      BY <2>1, <3>1 DEF Calm
    <3>3. i \in Blockers(tx[t].unit, tx[t].stay, tx[t].target)
      BY <3>1, <3>2 DEF Blockers
    <3>4. QED
      BY <2>1, <3>2, <3>3 DEF Discipline, SnapshotsCover
  <2>2. ASSUME tx[t].phase = "checked", NEW end \in tx[t].busyUntil
        PROVE  end <= clock'
    <3>1. end \in Nat /\ end <= clock /\ clock \in Nat
      BY <2>2 DEF Discipline, SnapshotsCover, TypeOK, OpenTx
    <3>2. QED
      BY <3>1 DEF Calm
  <2>3. QED
    BY <2>1, <2>2
<1>2. ConflictsAreExcused'
  BY DEF Discipline, ConflictsAreExcused, Calm, Excused
<1>3. QED
  BY <1>1, <1>2

(* What a commit writes.                                                   *)
LEMMA CommitEffect ==
  ASSUME Shape, NEW t \in Tx, NEW i \in Rows, Commit(t, i)
  PROVE  /\ rows'[i] \in Row /\ rows'[i].unit = tx[t].unit /\ rows'[i].stay = tx[t].stay
         /\ Occupying(rows'[i]) <=> tx[t].op \notin {"createHold", "block"}
         /\ tx[t].target \in {i, NoRow}
         /\ tx[t].op = "transition" => /\ IsBooking(rows[i]) /\ rows[i].unit = tx[t].unit
                                       /\ rows[i].stay = tx[t].stay
         /\ tx[t].op # "transition" => rows[i] = NoRow
<1> USE DEF Shape
<1> DEFINE x == tx[t]
<1>1. /\ x \in OpenTx /\ x # Idle
      /\ rows[i] = x.read
      /\ x.op = "transition" => i = x.target
      /\ rows' = [Expired(x.holds) EXCEPT ![i] = Written(x)]
      /\ clock \in Nat
  BY DEF Commit, TypeOK
<1>2. rows'[i] = Written(x)
  BY <1>1 DEF Expired
<1>3. CASE x.op = "transition"
  <2>1. /\ rows[i] \in BookingRow /\ IsBooking(rows[i]) /\ i = x.target
        /\ x.to \in Status /\ x.to \in OCCUPYING
        /\ rows[i].unit = x.unit /\ rows[i].stay = x.stay
    BY <1>1, <1>3, RowShape, LifecycleTypes
       DEF TypeOK, TransactionsReadTheirTarget, IsBooking
  <2>2. rows'[i] = [rows[i] EXCEPT !.status = x.to]
    BY <1>2, <1>3, <2>1 DEF Written
  <2>3. /\ rows'[i] \in BookingRow /\ rows'[i].status \in OCCUPYING
        /\ rows'[i].unit = x.unit /\ rows'[i].stay = x.stay
    BY <2>1, <2>2 DEF BookingRow
  <2>4. rows'[i] \in Row /\ Occupying(rows'[i])
    BY <2>3, NoRowAssumption DEF Row, Occupying, IsBooking, BookingRow
  <2>5. QED
    BY <1>3, <2>1, <2>3, <2>4
<1>4. CASE x.op # "transition"
  <2>1. rows[i] = NoRow /\ x.target = NoRow
    BY <1>1, <1>4 DEF TransactionsReadTheirTarget
  <2>2. rows'[i] = NewRow(x) /\ rows'[i] \in Row
    BY <1>1, <1>2, <1>4, NewRowType DEF Written
  <2>3. CASE x.op = "createHold"
    BY <1>4, <2>1, <2>2, <2>3 DEF NewRow, Occupying, IsBooking
  <2>4. CASE x.op = "block"
    BY <1>4, <2>1, <2>2, <2>4 DEF NewRow, Occupying, IsBooking
  <2>5. CASE x.op \notin {"createHold", "block"}
    <3>1. NewRow(x) = [kind |-> "booking", unit |-> x.unit, stay |-> x.stay,
                       status |-> "PENDING_PAYMENT", level |-> StartLevel[x.unit],
                       attempts |-> 0]
      BY <1>4, <2>5 DEF NewRow
    <3>2. Occupying(rows'[i]) /\ rows'[i].unit = x.unit /\ rows'[i].stay = x.stay
      BY <2>2, <3>1, RowShape, LifecycleTypes DEF Occupying, IsBooking
    <3>3. QED
      BY <1>4, <2>1, <2>2, <2>5, <3>2
  <2>6. QED
    BY <2>3, <2>4, <2>5
<1>5. QED
  BY <1>3, <1>4

(* What it leaves of the other rows: their claims, and no new one.         *)
LEMMA CommitKeepsOthers ==
  ASSUME Shape, NEW t \in Tx, NEW i \in Rows, Commit(t, i), NEW j \in Rows \ {i}
  PROVE  \/ rows'[j] = rows[j]
         \/ /\ rows[j] \in HoldRow /\ rows[j].expiresAt <= clock
            /\ ~ Claims(rows[j], clock) /\ ~ Claims(rows'[j], clock)
            /\ rows'[j] # NoRow /\ rows'[j].kind = "hold"
<1> USE DEF Shape
<1>1. /\ tx[t] \in OpenTx /\ tx[t] # Idle /\ tx[t].phase = "checked"
      /\ rows' = [Expired(tx[t].holds) EXCEPT ![i] = Written(tx[t])]
      /\ clock \in Nat
  BY DEF Commit, TypeOK
<1>2. CASE j \notin tx[t].holds
  BY <1>1, <1>2 DEF Expired
<1>3. CASE j \in tx[t].holds
  <2>1. rows[j] \in HoldRow /\ rows[j].expiresAt <= clock
    BY <1>1, <1>3, RowShape DEF SweepsTakeExpiredHolds, TypeOK
  <2>2. rows'[j] = [rows[j] EXCEPT !.status = "EXPIRED"]
    BY <1>1, <1>3 DEF Expired
  <2>3. rows'[j] \in HoldRow /\ rows'[j].status = "EXPIRED"
    BY <2>1, <2>2 DEF HoldRow
  <2>4. rows'[j] # NoRow /\ rows'[j].kind = "hold"
    BY <2>3, NoRowAssumption DEF Row, HoldRow
  <2>5. ~ Claims(rows[j], clock) /\ ~ Claims(rows'[j], clock)
    BY <1>1, <2>1, <2>3, <2>4
       DEF Claims, Occupying, IsBooking, LiveHold, Block, HoldRow
  <2>6. QED
    BY <2>1, <2>4, <2>5
<1>4. QED
  BY <1>2, <1>3

(* A claim that is not excused and meets the stay of a transaction that    *)
(* may commit was in its snapshot, and stopped its check.                  *)
LEMMA CheckIsComplete ==
  ASSUME Discipline, NEW t \in Tx, tx[t] # Idle, tx[t].phase = "checked", ~ tx[t].doomed,
         NEW j \in Rows, j # tx[t].target, Claims(rows[j], clock),
         rows[j].unit = tx[t].unit, Overlaps(rows[j].stay, tx[t].stay)
  PROVE  Excused(j)
<1> SUFFICES ASSUME ~ Excused(j) PROVE FALSE
  OBVIOUS
<1>1. j \in Blockers(tx[t].unit, tx[t].stay, tx[t].target)
  BY DEF Blockers
<1>2. PICK end \in tx[t].busyUntil : Until(rows[j]) <= end
  BY <1>1 DEF Discipline, SnapshotsCover
<1>3. end \in Nat /\ end <= clock /\ clock \in 0..MaxClock /\ tx[t] \in OpenTx
  BY <1>2 DEF Discipline, SnapshotsCover, TypeOK, OpenTx
<1>4. rows[j] # NoRow
  BY DEF Claims, Occupying, IsBooking, LiveHold, Block
<1>5. Until(rows[j]) \in Nat /\ Until(rows[j]) <= clock
  BY <1>2, <1>3, <1>4, UntilIsNat DEF Discipline
<1>6. CASE rows[j].kind = "hold"
  <2>1. rows[j].expiresAt > clock
    BY <1>6 DEF Claims, Occupying, IsBooking, LiveHold, Block
  <2>2. QED
    BY <1>3, <1>5, <1>6, <2>1 DEF Until
<1>7. CASE rows[j].kind # "hold"
  BY <1>3, <1>5, <1>7, ReservationsAssumption DEF Until, Forever
<1>8. QED
  BY <1>6, <1>7

(* A commit dooms the transactions whose stay it took, so the others still *)
(* cover theirs; and what it takes met only excused claims.                *)
LEMMA CommitSafe ==
  ASSUME Discipline, NEW t \in Tx, NEW i \in Rows, Commit(t, i)
  PROVE  SnapshotsCover' /\ ConflictsAreExcused' /\ ReinstatedOccupy' /\ NoOverbooking'
<1>1. Shape
  BY DEF Discipline, Shape
<1>2. /\ tx[t] \in OpenTx /\ tx[t] # Idle /\ tx[t].phase = "checked" /\ ~ tx[t].doomed
      /\ tx[t].op \notin {"createHold", "block"} =>
           NoOccupyingOverlap(i, tx[t].unit, tx[t].stay)
      /\ tx' = CommitOf(t) /\ UNCHANGED <<clock, reinstated>>
      /\ tx[t].stay \in Stay /\ NoRow \notin Rows
  BY NoRowAssumption DEF Commit, Discipline, TypeOK, OpenTx
<1>3. /\ rows'[i] # NoRow /\ rows'[i].unit = tx[t].unit /\ rows'[i].stay = tx[t].stay
      /\ Occupying(rows'[i]) <=> tx[t].op \notin {"createHold", "block"}
      /\ tx[t].target \in {i, NoRow}
      /\ i \in reinstated => Occupying(rows'[i])
  <2>1. i \in reinstated => IsBooking(rows[i])
    BY DEF Discipline, ReinstatedOccupy, Occupying
  <2>2. IsBooking(rows[i]) => tx[t].op = "transition"
    BY <1>1, CommitEffect DEF IsBooking
  <2>3. QED
    BY <1>1, <2>1, <2>2, CommitEffect, RowShape
<1>4. ASSUME NEW j \in Rows \ {i}
      PROVE  /\ Claims(rows'[j], clock) => rows'[j] = rows[j] /\ Claims(rows[j], clock)
             /\ Occupying(rows'[j]) => rows'[j] = rows[j]
             /\ j \in reinstated => rows'[j] = rows[j]
  <2>1. Occupying(rows'[j]) => Claims(rows'[j], clock)
    BY DEF Claims
  <2>2. j \in reinstated => Claims(rows[j], clock)
    BY DEF Claims, Discipline, ReinstatedOccupy
  <2>3. QED
    BY <1>1, <2>1, <2>2, CommitKeepsOthers
<1>5. ASSUME NEW j \in Rows \ {i}, Claims(rows[j], clock), rows[j].unit = tx[t].unit,
             Overlaps(rows[j].stay, tx[t].stay)
      PROVE  Excused(j)
  BY <1>2, <1>3, <1>5, CheckIsComplete
<1>6. SnapshotsCover'
  <2> SUFFICES ASSUME NEW s \in Tx, tx'[s] # Idle
               PROVE  /\ ~ tx'[s].doomed =>
                           \A j \in Blockers(tx[s].unit, tx[s].stay, tx[s].target)' :
                             ~ Excused(j)' =>
                               \E end \in tx[s].busyUntil : Until(rows'[j]) <= end
                      /\ tx[s].phase = "checked" =>
                           \A end \in tx[s].busyUntil : end <= clock
                      /\ /\ tx'[s].unit = tx[s].unit /\ tx'[s].stay = tx[s].stay
                         /\ tx'[s].target = tx[s].target /\ tx'[s].phase = tx[s].phase
                         /\ tx'[s].busyUntil = tx[s].busyUntil
    BY <1>2 DEF SnapshotsCover, Until, Blockers
  <2>1. /\ s # t /\ tx[s] # Idle /\ tx[s] \in OpenTx
        /\ \/ tx'[s] = [tx[s] EXCEPT !.doomed = TRUE]
           \/ /\ tx'[s] = tx[s]
              /\ tx[s].unit # tx[t].unit \/ ~ Overlaps(tx[s].stay, tx[t].stay)
    BY <1>2 DEF CommitOf, Discipline, TypeOK
  <2>2. /\ tx'[s].unit = tx[s].unit /\ tx'[s].stay = tx[s].stay
        /\ tx'[s].target = tx[s].target /\ tx'[s].phase = tx[s].phase
        /\ tx'[s].busyUntil = tx[s].busyUntil
        /\ ~ tx'[s].doomed => /\ ~ tx[s].doomed
                              /\ tx[s].unit # tx[t].unit \/ ~ Overlaps(tx[s].stay, tx[t].stay)
    BY <2>1 DEF OpenTx
  <2>3. ASSUME ~ tx'[s].doomed,
               NEW j \in Blockers(tx[s].unit, tx[s].stay, tx[s].target)',
               ~ Excused(j)'
        PROVE  \E end \in tx[s].busyUntil : Until(rows'[j]) <= end
    <3>1. /\ j \in Rows /\ j # tx[s].target /\ Claims(rows'[j], clock)
          /\ rows'[j].unit = tx[s].unit /\ Overlaps(rows'[j].stay, tx[s].stay)
      BY <1>2, <2>2 DEF Blockers
    <3>2. j # i
      <4>1. tx[s].stay \in Stay
        BY <2>1 DEF OpenTx
      <4>2. QED
        BY <1>2, <1>3, <2>2, <2>3, <3>1, <4>1, OverlapsSymmetric
    <3>3. /\ rows'[j] = rows[j]
          /\ j \in Blockers(tx[s].unit, tx[s].stay, tx[s].target)
      BY <1>4, <3>1, <3>2 DEF Blockers
    <3>4. ~ Excused(j)
      BY <1>2, <2>3, <3>3 DEF Excused
    <3>5. QED
      BY <2>1, <2>2, <2>3, <3>3, <3>4 DEF Discipline, SnapshotsCover
  <2>4. QED
    BY <2>1, <2>2, <2>3 DEF Discipline, SnapshotsCover
<1>7. ConflictsAreExcused'
  <2> SUFFICES ASSUME NEW j \in Rows, NEW k \in Rows, j # k,
                      Claims(rows'[j], clock), Claims(rows'[k], clock),
                      rows'[j].unit = rows'[k].unit, Overlaps(rows'[j].stay, rows'[k].stay)
               PROVE  Excused(j)' \/ Excused(k)'
    BY <1>2 DEF ConflictsAreExcused
  <2>1. CASE j = i
    <3>1. rows'[k] = rows[k] /\ Claims(rows[k], clock) /\ rows[k].stay \in Stay
      BY <1>4, <2>1, RowShape
         DEF Discipline, TypeOK, Claims, Occupying, IsBooking, LiveHold, Block
    <3>2. Excused(k)
      BY <1>2, <1>3, <1>5, <2>1, <3>1, OverlapsSymmetric
    <3>3. QED
      BY <1>2, <3>1, <3>2 DEF Excused
  <2>2. CASE k = i
    <3>1. rows'[j] = rows[j] /\ Claims(rows[j], clock)
      BY <1>4, <2>2
    <3>2. Excused(j)
      BY <1>3, <1>5, <2>2, <3>1
    <3>3. QED
      BY <1>2, <3>1, <3>2 DEF Excused
  <2>3. CASE j # i /\ k # i
    BY <1>2, <1>4, <2>3 DEF Discipline, ConflictsAreExcused, Excused
  <2>4. QED
    BY <2>1, <2>2, <2>3
<1>8. ReinstatedOccupy'
  BY <1>2, <1>3, <1>4 DEF Discipline, ReinstatedOccupy, TypeOK
<1>9. NoOverbooking'
  <2> SUFFICES ASSUME NEW j \in Rows, NEW k \in Rows, j # k,
                      Occupying(rows'[j]), Occupying(rows'[k]),
                      rows'[j].unit = rows'[k].unit
               PROVE  ~ Overlaps(rows'[j].stay, rows'[k].stay)
    BY DEF NoOverbooking
  <2>1. CASE j = i
    <3>1. rows'[k] = rows[k] /\ Occupying(rows[k]) /\ rows[k].stay \in Stay
      BY <1>4, <2>1, RowShape DEF Discipline, TypeOK, Occupying, IsBooking
    <3>2. ~ Overlaps(rows[k].stay, tx[t].stay)
      BY <1>2, <1>3, <2>1, <3>1 DEF NoOccupyingOverlap
    <3>3. QED
      BY <1>2, <1>3, <2>1, <3>1, <3>2, OverlapsSymmetric
  <2>2. CASE k = i
    <3>1. rows'[j] = rows[j] /\ Occupying(rows[j])
      BY <1>4, <2>2
    <3>2. QED
      BY <1>2, <1>3, <2>2, <3>1 DEF NoOccupyingOverlap
  <2>3. CASE j # i /\ k # i
    BY <1>4, <2>3 DEF Discipline, NoOverbooking
  <2>4. QED
    BY <2>1, <2>2, <2>3
<1>10. QED
  BY <1>6, <1>7, <1>8, <1>9

(* Steps that only open, check or drop a transaction.                      *)
LEMMA SessionStepSafe ==
  ASSUME Discipline, UNCHANGED <<clock, rows, reinstated>>, SnapshotsCover'
  PROVE  SnapshotsCover' /\ ConflictsAreExcused' /\ ReinstatedOccupy' /\ NoOverbooking'
  BY DEF Discipline, ConflictsAreExcused, Excused, ReinstatedOccupy, NoOverbooking

LEMMA BeginSafe ==
  ASSUME Discipline, NEW t \in Tx, NEW op, NEW unit, NEW stay, NEW target, NEW to,
         Begin(t, op, unit, stay, target, to)
  PROVE  SnapshotsCover'
<1> DEFINE seen == {Until(rows[i]) : i \in Blockers(unit, stay, target)}
           x == [phase |-> "waiting", op |-> op, unit |-> unit, stay |-> stay,
                 target |-> target, to |-> to,
                 read |-> IF target = NoRow THEN NoRow ELSE rows[target],
                 busyUntil |-> seen, holds |-> SweptBy(op, unit), doomed |-> FALSE]
<1>1. tx' = [tx EXCEPT ![t] = x] /\ UNCHANGED <<clock, rows, reinstated>>
  BY DEF Begin
<1>2. /\ x.unit = unit /\ x.stay = stay /\ x.target = target
      /\ x.busyUntil = seen /\ x.phase = "waiting"
  OBVIOUS
<1> HIDE DEF x
<1>3. ASSUME NEW s \in Tx PROVE tx'[s] = IF s = t THEN x ELSE tx[s]
  BY <1>1 DEF Discipline, TypeOK
<1>4. ASSUME NEW i \in Blockers(unit, stay, target)
      PROVE  Until(rows[i]) \in seen /\ Until(rows[i]) <= Until(rows[i])
  <2>1. rows[i] # NoRow /\ i \in Rows
    BY DEF Blockers, Claims, Occupying, IsBooking, LiveHold, Block
  <2>2. Until(rows[i]) \in Nat
    BY <2>1, UntilIsNat DEF Discipline
  <2>3. QED
    BY <2>2
<1> HIDE DEF seen
<1>5. SnapshotsCover'
  <2> SUFFICES ASSUME NEW s \in Tx, tx'[s] # Idle
               PROVE  /\ ~ tx'[s].doomed =>
                           \A i \in Blockers(tx'[s].unit, tx'[s].stay, tx'[s].target) :
                             ~ Excused(i) =>
                               \E end \in tx'[s].busyUntil : Until(rows[i]) <= end
                      /\ tx'[s].phase = "checked" =>
                           \A end \in tx'[s].busyUntil : end <= clock
    BY <1>1 DEF SnapshotsCover, Blockers, Excused, Until
  <2>1. CASE s = t
    BY <1>2, <1>3, <1>4, <2>1
  <2>2. CASE s # t
    BY <1>3, <2>2 DEF Discipline, SnapshotsCover
  <2>3. QED
    BY <2>1, <2>2
<1>6. QED
  BY <1>5

LEMMA CheckSafe ==
  ASSUME Discipline, NEW t \in Tx, Check(t)
  PROVE  SnapshotsCover'
<1> DEFINE x == [tx[t] EXCEPT !.phase = "checked", !.holds = Swept(tx[t])]
<1>1. /\ tx' = [tx EXCEPT ![t] = x] /\ UNCHANGED <<clock, rows, reinstated>>
      /\ tx[t] \in OpenTx /\ tx[t] # Idle
      /\ \A end \in tx[t].busyUntil : end <= clock
  BY DEF Check, Discipline, TypeOK
<1>2. /\ x.unit = tx[t].unit /\ x.stay = tx[t].stay /\ x.target = tx[t].target
      /\ x.busyUntil = tx[t].busyUntil /\ x.doomed = tx[t].doomed
  BY <1>1 DEF OpenTx
<1> HIDE DEF x
<1>3. ASSUME NEW s \in Tx PROVE tx'[s] = IF s = t THEN x ELSE tx[s]
  BY <1>1 DEF Discipline, TypeOK
<1>4. QED
  <2> SUFFICES ASSUME NEW s \in Tx, tx'[s] # Idle
               PROVE  /\ ~ tx'[s].doomed =>
                           \A i \in Blockers(tx'[s].unit, tx'[s].stay, tx'[s].target) :
                             ~ Excused(i) =>
                               \E end \in tx'[s].busyUntil : Until(rows[i]) <= end
                      /\ tx'[s].phase = "checked" =>
                           \A end \in tx'[s].busyUntil : end <= clock
    BY <1>1 DEF SnapshotsCover, Blockers, Excused, Until
  <2>1. CASE s = t
    BY <1>1, <1>2, <1>3, <2>1 DEF Discipline, SnapshotsCover
  <2>2. CASE s # t
    BY <1>3, <2>2 DEF Discipline, SnapshotsCover
  <2>3. QED
    BY <2>1, <2>2

LEMMA AbortSafe ==
  ASSUME Discipline, NEW t \in Tx, Abort(t)
  PROVE  SnapshotsCover'
<1>1. ASSUME NEW s \in Tx, tx'[s] # Idle PROVE tx'[s] = tx[s] /\ tx[s] # Idle
  BY <1>1 DEF Abort, Discipline, TypeOK
<1>2. UNCHANGED <<clock, rows, reinstated>>
  BY DEF Abort
<1>3. QED
  BY <1>1, <1>2 DEF Discipline, SnapshotsCover, Blockers, Excused, Until

(* A change of a booking is calm: it claims no more than it did, unless a  *)
(* notification reinstated it.                                             *)
LEMMA BookingUpdateSafe ==
  ASSUME Discipline, NEW b \in Rows,
         \/ \E to \in Status : Transition(b, to)
         \/ \E level \in 1..2 : Payment(b, level) \/ HandleIpn(b, level)
         \/ CreatePaymentUrl(b) \/ DropLink(b)
  PROVE  Calm /\ ReinstatedOccupy' /\ NoOverbooking'
<1>1. BookingUpdate(b, rows'[b])
  BY BookingUpdates DEF Discipline
<1>2. /\ rows' = [rows EXCEPT ![b] = rows'[b]] /\ UNCHANGED <<clock, tx>>
      /\ rows'[b].unit = rows[b].unit /\ rows'[b].stay = rows[b].stay
      /\ IsBooking(rows[b]) /\ IsBooking(rows'[b]) /\ clock \in Nat
  BY <1>1, NoRowAssumption
     DEF BookingUpdate, SameStay, IsBooking, Row, BookingRow, Discipline, TypeOK
<1>3. ASSUME NEW j \in Rows, j # b PROVE rows'[j] = rows[j]
  BY <1>2, <1>3 DEF Discipline, TypeOK
<1>4. /\ Claims(rows'[b], clock) <=> Occupying(rows'[b])
      /\ Until(rows'[b]) = Until(rows[b])
  BY <1>2 DEF Claims, IsBooking, Occupying, LiveHold, Block, Until
<1>5. \/ ~ Occupying(rows'[b]) /\ reinstated' = reinstated \ {b}
      \/ /\ Occupying(rows[b]) /\ Occupying(rows'[b]) /\ reinstated' = reinstated
         /\ rows'[b].status # "CHECKED_IN" \/ rows'[b].status = rows[b].status
         /\ NoOccupyingOverlap(b, rows[b].unit, rows[b].stay)
      \/ /\ ~ Occupying(rows[b]) /\ reinstated' = reinstated \cup {b}
         /\ rows'[b].status = "CONFIRMED"
         /\ NoOccupyingOverlap(b, rows[b].unit, rows[b].stay)
      \/ ~ Occupying(rows[b]) /\ ~ Occupying(rows'[b]) /\ reinstated' = reinstated
  <2>1. rows[b] \in BookingRow
    BY <1>2, RowShape DEF Discipline, TypeOK, IsBooking
  <2>2. Occupying(rows[b]) => NoOccupyingOverlap(b, rows[b].unit, rows[b].stay)
    BY DEF Discipline, NoOverbooking, NoOccupyingOverlap
  <2>3. ASSUME NEW to \in Status, Transition(b, to)
        PROVE  ~ Occupying(rows'[b]) /\ reinstated' = reinstated \ {b}
    BY <2>1, <2>3 DEF Transition, Occupying, Discipline, TypeOK, BookingRow
  <2>4. ASSUME rows'[b].status = rows[b].status, reinstated' = reinstated
        PROVE  \/ /\ Occupying(rows[b]) /\ Occupying(rows'[b])
                  /\ rows'[b].status = rows[b].status
                  /\ NoOccupyingOverlap(b, rows[b].unit, rows[b].stay)
               \/ ~ Occupying(rows[b]) /\ ~ Occupying(rows'[b])
    BY <1>2, <2>2, <2>4 DEF Occupying
  <2>5. ASSUME NEW level \in 1..2, Payment(b, level)
        PROVE  rows'[b].status = rows[b].status /\ reinstated' = reinstated
    BY <2>1, <2>5 DEF Payment, BookingRow, Discipline, TypeOK
  <2>6. ASSUME CreatePaymentUrl(b) \/ DropLink(b)
        PROVE  rows'[b].status = rows[b].status /\ reinstated' = reinstated
    BY <2>1, <2>6 DEF CreatePaymentUrl, DropLink, BookingRow, Discipline, TypeOK
  <2>7. ASSUME NEW level \in 1..2, HandleIpn(b, level)
        PROVE  /\ rows'[b].status = "CONFIRMED"
               /\ reinstated' = IF Occupying(rows[b]) THEN reinstated
                                ELSE reinstated \cup {b}
               /\ NoOccupyingOverlap(b, rows[b].unit, rows[b].stay)
               /\ Occupying(rows'[b])
    BY <1>2, <2>1, <2>7, LifecycleTypes
       DEF HandleIpn, BookingRow, Discipline, TypeOK, Occupying
  <2>8. QED
    BY <2>3, <2>4, <2>5, <2>6, <2>7
<1>6. Calm
  <2>1. ASSUME NEW j \in Rows, Claims(rows'[j], clock)
        PROVE  \/ Excused(j)'
               \/ /\ Claims(rows[j], clock) /\ (Excused(j) => Excused(j)')
                  /\ rows'[j].unit = rows[j].unit /\ rows'[j].stay = rows[j].stay
                  /\ Until(rows'[j]) = Until(rows[j])
    <3>1. CASE j = b
      BY <1>2, <1>4, <1>5, <2>1, <3>1 DEF Excused, Claims
    <3>2. CASE j # b
      <4>1. rows'[j] = rows[j] /\ (j \in reinstated => j \in reinstated')
        BY <1>3, <1>5, <3>2
      <4>2. QED
        BY <2>1, <4>1 DEF Excused
    <3>3. QED
      BY <3>1, <3>2
  <2>2. QED
    BY <1>2, <2>1 DEF Calm
<1>7. ReinstatedOccupy'
  <2> SUFFICES ASSUME NEW j \in reinstated' PROVE Occupying(rows'[j])
    BY DEF ReinstatedOccupy
  <2>1. CASE j = b
    BY <1>2, <1>5, <2>1, LifecycleTypes DEF Discipline, ReinstatedOccupy, Occupying
  <2>2. CASE j # b
    BY <1>3, <1>5, <2>2 DEF Discipline, ReinstatedOccupy, TypeOK
  <2>3. QED
    BY <2>1, <2>2
<1>8. NoOverbooking'
  <2>1. Occupying(rows'[b]) => NoOccupyingOverlap(b, rows[b].unit, rows[b].stay)
    BY <1>5
  <2> SUFFICES ASSUME NEW j \in Rows, NEW k \in Rows, j # k,
                      Occupying(rows'[j]), Occupying(rows'[k]),
                      rows'[j].unit = rows'[k].unit
               PROVE  ~ Overlaps(rows'[j].stay, rows'[k].stay)
    BY DEF NoOverbooking
  <2>2. ASSUME NEW l \in Rows, l # b, Occupying(rows'[l])
        PROVE  rows'[l] = rows[l] /\ Occupying(rows[l]) /\ rows[l].stay \in Stay
    BY <1>3, <2>2, RowShape DEF Discipline, TypeOK, Occupying, IsBooking
  <2>3. rows[b].stay \in Stay
    BY <1>2, RowShape DEF Discipline, TypeOK, IsBooking
  <2>4. CASE j = b
    BY <1>2, <2>1, <2>2, <2>3, <2>4, OverlapsSymmetric DEF NoOccupyingOverlap
  <2>5. CASE k = b
    BY <1>2, <2>1, <2>2, <2>5 DEF NoOccupyingOverlap
  <2>6. CASE j # b /\ k # b
    BY <2>2, <2>6 DEF Discipline, NoOverbooking
  <2>7. QED
    BY <2>4, <2>5, <2>6
<1>9. QED
  BY <1>6, <1>7, <1>8

LEMMA UnblockSafe ==
  ASSUME Discipline, NEW b \in Rows, Unblock(b)
  PROVE  Calm /\ ReinstatedOccupy' /\ NoOverbooking'
<1>1. /\ rows' = [rows EXCEPT ![b] = NoRow] /\ UNCHANGED <<clock, tx, reinstated>>
      /\ ~ Occupying(rows[b]) /\ clock \in Nat
  BY DEF Unblock, Block, Occupying, IsBooking, Discipline, TypeOK
<1>2. ASSUME NEW j \in Rows PROVE rows'[j] = rows[j] \/ (rows'[j] = NoRow /\ j = b)
  <2>1. DOMAIN rows = Rows
    BY DEF Discipline, TypeOK
  <2>2. QED
    BY <1>1, <2>1
<1>3. ~ Claims(NoRow, clock) /\ ~ Occupying(NoRow)
  BY DEF Claims, Occupying, IsBooking, LiveHold, Block
<1>4. Calm
  <2>1. ASSUME NEW j \in Rows, Claims(rows'[j], clock) PROVE rows'[j] = rows[j]
    BY <1>2, <1>3, <2>1
  <2>2. QED
    BY <1>1, <2>1 DEF Calm, Excused
<1>5. ReinstatedOccupy'
  BY <1>1, <1>2 DEF Discipline, ReinstatedOccupy, TypeOK
<1>6. NoOverbooking'
  BY <1>2, <1>3 DEF Discipline, NoOverbooking
<1>7. QED
  BY <1>4, <1>5, <1>6

LEMMA TickSafe ==
  ASSUME Discipline, Tick
  PROVE  Calm /\ ReinstatedOccupy' /\ NoOverbooking'
<1>1. /\ clock \in Nat /\ clock' = clock + 1 /\ UNCHANGED <<rows, tx, reinstated>>
  BY DEF Tick, Discipline, TypeOK
<1>2. ASSUME NEW j \in Rows, Claims(rows[j], clock + 1) PROVE Claims(rows[j], clock)
  <2>1. CASE LiveHold(rows[j], clock + 1)
    <3>1. rows[j].expiresAt \in Nat
      BY <2>1, RowShape DEF LiveHold, Discipline, TypeOK, HoldRow
    <3>2. QED
      BY <1>1, <2>1, <3>1 DEF LiveHold, Claims
  <2>2. QED
    BY <1>2, <2>1 DEF Claims
<1>3. Calm
  BY <1>1, <1>2 DEF Calm, Excused
<1>4. QED
  BY <1>1, <1>3 DEF Discipline, ReinstatedOccupy, NoOverbooking

(* Every step of every operation keeps the discipline.                     *)
LEMMA DisciplineStep ==
  ASSUME Discipline, [Next]_vars
  PROVE  Discipline'
<1>1. Shape'
  BY ShapeStep DEF Discipline, Shape
<1> DEFINE Rest == SnapshotsCover /\ ConflictsAreExcused /\ ReinstatedOccupy /\ NoOverbooking
<1>2. ASSUME NEW t \in Tx, NEW op \in Operations, NEW u \in Units, NEW s \in Stay,
             BeginInsert(t, op, u, s)
      PROVE  Rest'
  BY <1>2, BeginSafe, SessionStepSafe DEF BeginInsert, Begin
<1>3. ASSUME NEW t \in Tx, NEW b \in Rows, NEW to \in Status, BeginTransition(t, b, to)
      PROVE  Rest'
  BY <1>3, BeginSafe, SessionStepSafe DEF BeginTransition, Begin
<1>4. ASSUME NEW t \in Tx, Check(t) \/ Abort(t) PROVE Rest'
  BY <1>4, CheckSafe, AbortSafe, SessionStepSafe DEF Check, Abort
<1>5. ASSUME NEW t \in Tx, NEW i \in Rows, Commit(t, i) PROVE Rest'
  BY <1>5, CommitSafe
<1>6. ASSUME NEW b \in Rows,
             \/ \E to \in Status : Transition(b, to)
             \/ \E level \in 1..2 : Payment(b, level) \/ HandleIpn(b, level)
             \/ CreatePaymentUrl(b) \/ DropLink(b)
      PROVE  Rest'
  BY <1>6, BookingUpdateSafe, CalmSteps
<1>7. ASSUME NEW b \in Rows, Unblock(b) PROVE Rest'
  BY <1>7, UnblockSafe, CalmSteps
<1>8. ASSUME Tick PROVE Rest'
  BY <1>8, TickSafe, CalmSteps
<1>9. ASSUME UNCHANGED vars PROVE Rest'
  <2>1. SnapshotsCover'
    BY <1>9 DEF Discipline, SnapshotsCover, Blockers, Excused, Until
  <2>2. QED
    BY <1>9, <2>1, SessionStepSafe
<1>10. Rest'
  BY <1>2, <1>3, <1>4, <1>5, <1>6, <1>7, <1>8, <1>9 DEF Next
<1>11. QED
  BY <1>1, <1>10 DEF Discipline, Shape

LEMMA DisciplineInit == Init => Discipline
<1> SUFFICES ASSUME Init PROVE Discipline
  OBVIOUS
<1>1. \A i \in Rows : ~ Claims(rows[i], clock) /\ ~ Occupying(rows[i])
  BY DEF Init, Claims, Occupying, IsBooking, LiveHold, Block
<1>2. QED
  BY <1>1, ShapeInit
     DEF Init, Discipline, Shape, SnapshotsCover, ConflictsAreExcused, ReinstatedOccupy,
         NoOverbooking

(* The lock, the stale snapshot, the check, the commit and the abort of    *)
(* every operation, in any interleaving, keep the invariant.               *)
THEOREM DisciplineHolds == Spec => []Discipline
  BY DisciplineInit, DisciplineStep, PTL DEF Spec

(* No two occupying bookings ever share a night of a unit.                 *)
THEOREM NeverOverbooked == Spec => []NoOverbooking
<1>1. Discipline => NoOverbooking
  BY DEF Discipline
<1>2. QED
  BY <1>1, DisciplineHolds, PTL

(* No hold and no block is ever over the nights of a guest in the house.   *)
THEOREM GuestsAreClear == Spec => []GuestNightsAreClear
<1>1. Discipline => GuestNightsAreClear
  <2> SUFFICES ASSUME Discipline, NEW i \in Rows, NEW j \in Rows,
                      IsBooking(rows[i]), rows[i].status = "CHECKED_IN",
                      LiveHold(rows[j], clock) \/ Block(rows[j]),
                      rows[i].unit = rows[j].unit
               PROVE  ~ Overlaps(rows[i].stay, rows[j].stay)
    BY DEF GuestNightsAreClear
  <2>1. i # j /\ Claims(rows[i], clock) /\ Claims(rows[j], clock)
    BY LifecycleTypes DEF Claims, Occupying, IsBooking, LiveHold, Block
  <2>2. ~ Excused(i)
    BY DEF Excused
  <2>3. ~ Excused(j)
    BY DEF Excused, Discipline, ReinstatedOccupy, Occupying, IsBooking, LiveHold, Block
  <2>4. QED
    BY <2>1, <2>2, <2>3 DEF Discipline, ConflictsAreExcused
<1>2. QED
  BY <1>1, DisciplineHolds, PTL

(* Overlapping is sharing a night: the comparison of the code, and of the  *)
(* exclusion constraint, is right for the nights eachNight lists.          *)
LEMMA SharedNights ==
  ASSUME NEW a \in Stay, NEW b \in Stay
  PROVE  Overlaps(a, b) <=> EachNight(a) \cap EachNight(b) # {}
<1>1. /\ a[1] \in Int /\ a[2] \in Int /\ a[1] < a[2]
      /\ b[1] \in Int /\ b[2] \in Int /\ b[1] < b[2]
  BY DaysAssumption DEF Stay
<1>2. ASSUME Overlaps(a, b)
      PROVE  EachNight(a) \cap EachNight(b) # {}
  <2> DEFINE n == IF a[1] > b[1] THEN a[1] ELSE b[1]
  <2>1. n \in EachNight(a) /\ n \in EachNight(b)
    BY <1>1, <1>2 DEF Overlaps, EachNight
  <2>2. QED
    BY <2>1
<1>3. ASSUME NEW n \in EachNight(a), n \in EachNight(b)
      PROVE  Overlaps(a, b)
  BY <1>1, <1>3 DEF Overlaps, EachNight
<1>4. QED
  BY <1>2, <1>3

(* A night of a unit is sold once: of the bookings that occupy it, at most *)
(* one has that night, whoever wrote them and in whatever order.           *)
THEOREM NightsAreSoldOnce ==
  Spec => [](\A i, j \in Rows, n \in Int :
               /\ Occupying(rows[i]) /\ n \in EachNight(rows[i].stay)
               /\ Occupying(rows[j]) /\ n \in EachNight(rows[j].stay)
               /\ rows[i].unit = rows[j].unit
               => i = j)
<1>1. TypeOK /\ NoOverbooking =>
        \A i, j \in Rows, n \in Int :
          /\ Occupying(rows[i]) /\ n \in EachNight(rows[i].stay)
          /\ Occupying(rows[j]) /\ n \in EachNight(rows[j].stay)
          /\ rows[i].unit = rows[j].unit
          => i = j
  <2> SUFFICES ASSUME TypeOK, NoOverbooking, NEW i \in Rows, NEW j \in Rows, i # j,
                      Occupying(rows[i]), Occupying(rows[j]), rows[i].unit = rows[j].unit
               PROVE  EachNight(rows[i].stay) \cap EachNight(rows[j].stay) = {}
    OBVIOUS
  <2>1. rows[i].stay \in Stay /\ rows[j].stay \in Stay
    BY RowShape DEF TypeOK, Occupying, IsBooking
  <2>2. ~ Overlaps(rows[i].stay, rows[j].stay)
    BY DEF NoOverbooking
  <2>3. QED
    BY <2>1, <2>2, SharedNights
<1>2. QED
  BY <1>1, NeverOverbooked, ReservationsTypeCorrect, PTL

(* A guest who has checked in has every night of the stay alone: no other  *)
(* booking, no live hold and no block has any of them.                     *)
THEOREM GuestsSleepAlone ==
  Spec => [](\A i, j \in Rows :
               /\ IsBooking(rows[i]) /\ rows[i].status = "CHECKED_IN"
               /\ i # j /\ Claims(rows[j], clock) /\ rows[i].unit = rows[j].unit
               => EachNight(rows[i].stay) \cap EachNight(rows[j].stay) = {})
<1>1. TypeOK /\ NoOverbooking /\ GuestNightsAreClear =>
        \A i, j \in Rows :
          /\ IsBooking(rows[i]) /\ rows[i].status = "CHECKED_IN"
          /\ i # j /\ Claims(rows[j], clock) /\ rows[i].unit = rows[j].unit
          => EachNight(rows[i].stay) \cap EachNight(rows[j].stay) = {}
  <2> SUFFICES ASSUME TypeOK, NoOverbooking, GuestNightsAreClear,
                      NEW i \in Rows, NEW j \in Rows, i # j,
                      IsBooking(rows[i]), rows[i].status = "CHECKED_IN",
                      Claims(rows[j], clock), rows[i].unit = rows[j].unit
               PROVE  EachNight(rows[i].stay) \cap EachNight(rows[j].stay) = {}
    OBVIOUS
  <2>1. rows[j] # NoRow
    BY DEF Claims, Occupying, IsBooking, LiveHold, Block
  <2>2. rows[i].stay \in Stay /\ rows[j].stay \in Stay
    BY <2>1, RowShape DEF TypeOK, IsBooking
  <2>3. Occupying(rows[i])
    BY DEF Occupying, OCCUPYING
  <2>4. ~ Overlaps(rows[i].stay, rows[j].stay)
    BY <2>3 DEF NoOverbooking, GuestNightsAreClear, Claims
  <2>5. QED
    BY <2>2, <2>4, SharedNights
<1>2. QED
  BY <1>1, NeverOverbooked, GuestsAreClear, ReservationsTypeCorrect, PTL

-----------------------------------------------------------------------------
(* Action properties.                                                      *)

(* No operation expires, extends or moves a hold whose time has not come.  *)
THEOREM LiveHoldsAreKept == Spec => LiveHoldsStand
<1>1. ASSUME Discipline, [Next]_vars, NEW i \in Rows, LiveHold(rows[i], clock)
      PROVE  rows'[i] = rows[i]
  <2>1. /\ rows[i] # NoRow /\ ~ IsBooking(rows[i]) /\ ~ Block(rows[i])
        /\ Claims(rows[i], clock) /\ DOMAIN rows = Rows
    BY <1>1 DEF LiveHold, IsBooking, Block, Claims, Discipline, TypeOK
  <2>2. ASSUME NEW t \in Tx, NEW j \in Rows, Commit(t, j) PROVE rows'[i] = rows[i]
    <3>1. Shape
      BY <1>1 DEF Discipline, Shape
    <3>2. i # j
      BY <2>1, <2>2, <3>1, CommitEffect
    <3>3. QED
      BY <2>1, <2>2, <3>1, <3>2, CommitKeepsOthers
  <2>3. ASSUME NEW b \in Rows, BookingUpdate(b, rows'[b]) PROVE rows'[i] = rows[i]
    BY <2>1, <2>3 DEF BookingUpdate
  <2>4. ASSUME NEW b \in Rows, Unblock(b) PROVE rows'[i] = rows[i]
    BY <2>1, <2>4 DEF Unblock
  <2>5. ASSUME NEW t \in Tx, Check(t) \/ Abort(t) PROVE rows'[i] = rows[i]
    BY <2>5 DEF Check, Abort
  <2>6. TypeOK
    BY <1>1 DEF Discipline
  <2>7. QED
    BY <1>1, <2>2, <2>3, <2>4, <2>5, <2>6, BookingUpdates
       DEF Next, BeginInsert, BeginTransition, Begin, Tick
<1>2. Discipline /\ [Next]_vars =>
        [\A i \in Rows : LiveHold(rows[i], clock) => rows'[i] = rows[i]]_rows
  BY <1>1
<1>3. QED
  BY <1>2, DisciplineHolds, PTL DEF Spec, LiveHoldsStand

(* A booking that reached a terminal status keeps it, whatever staff ask   *)
(* for and whatever notification comes late.                               *)
THEOREM TerminalStatusesStay == Spec => TerminalIsFinal
<1>1. ASSUME Discipline, [Next]_vars, NEW b \in Rows, IsBooking(rows[b]),
             rows[b].status \in Frozen
      PROVE  rows'[b].status = rows[b].status
  <2>1. /\ ~ Occupying(rows[b]) /\ DOMAIN rows = Rows /\ rows[b] # NoRow
        /\ rows[b] \in BookingRow
    BY <1>1, RowShape
       DEF IsBooking, Occupying, OCCUPYING, Frozen, Cancelled, Discipline, TypeOK
  <2>2. \A to \in Status : ~ MayMove(rows[b].status, to)
    BY <1>1 DEF MayMove, TRANSITIONS, Frozen, Cancelled, Status
  <2>3. ASSUME NEW t \in Tx, NEW i \in Rows, Commit(t, i)
        PROVE  rows'[b] = rows[b]
    <3>1. Shape
      BY <1>1 DEF Discipline, Shape
    <3>2. CASE b = i
      <4>1. rows[b] = tx[t].read /\ tx[t] # Idle
        BY <2>3, <3>2 DEF Commit
      <4>2. tx[t].op = "transition" /\ tx[t].to \in Status
        BY <2>1, <2>3, <3>1, <3>2, <4>1, CommitEffect, LifecycleTypes
           DEF Shape, TransactionsReadTheirTarget
      <4>3. MayMove(rows[b].status, tx[t].to)
        BY <3>1, <4>1, <4>2 DEF Shape, TransactionsReadTheirTarget
      <4>4. QED
        BY <2>2, <4>2, <4>3
    <3>3. CASE b # i
      BY <2>1, <2>3, <3>1, <3>3, CommitKeepsOthers DEF HoldRow, BookingRow
    <3>4. QED
      BY <3>2, <3>3
  <2>4. ASSUME NEW c \in Rows, NEW to \in Status, Transition(c, to)
        PROVE  rows'[b] = rows[b]
    BY <2>1, <2>2, <2>4 DEF Transition, TransitionAllowed
  <2>5. ASSUME NEW c \in Rows, NEW level \in 1..2,
             Payment(c, level) \/ CreatePaymentUrl(c) \/ DropLink(c)
        PROVE  rows'[b].status = rows[b].status
    BY <2>1, <2>5 DEF Payment, CreatePaymentUrl, DropLink, BookingRow
  <2>6. ASSUME NEW c \in Rows, NEW level \in 1..2, HandleIpn(c, level)
        PROVE  rows'[b] = rows[b]
    BY <1>1, <2>1, <2>6 DEF HandleIpn, TerminalGuard, Frozen, Cancelled
  <2>7. ASSUME NEW c \in Rows, Unblock(c)
        PROVE  rows'[b] = rows[b]
    BY <1>1, <2>1, <2>7 DEF Unblock, Block, IsBooking
  <2>8. ASSUME NEW t \in Tx, Check(t) \/ Abort(t)
        PROVE  rows'[b] = rows[b]
    BY <2>8 DEF Check, Abort
  <2>9. 1 \in 1..2
    OBVIOUS
  <2>10. QED
    BY <1>1, <2>3, <2>4, <2>5, <2>6, <2>7, <2>8, <2>9
       DEF Next, BeginInsert, BeginTransition, Begin, Tick
<1>2. Discipline /\ [Next]_vars =>
        [\A b \in Rows : IsBooking(rows[b]) /\ rows[b].status \in Frozen
           => rows'[b].status = rows[b].status]_rows
  BY <1>1
<1>3. QED
  BY <1>2, DisciplineHolds, PTL DEF Spec, TerminalIsFinal

-----------------------------------------------------------------------------
(* The refinement of Inventory.                                            *)

(* The claim behind a row.                                                 *)
LEMMA GrantedClaims ==
  ASSUME Discipline, NEW i \in Rows
  PROVE  /\ Claims(rows[i], clock) =>
              /\ Granted[i] \in Abstract!Claim /\ Granted[i] # NoRow
              /\ Granted[i].unit = rows[i].unit /\ Granted[i].stay = rows[i].stay
              /\ Granted[i].reinstated = (i \in reinstated)
              /\ Granted[i].kind = rows[i].kind
              /\ Granted[i].kind = "booking" <=> Occupying(rows[i])
         /\ ~ Claims(rows[i], clock) => Granted[i] = NoRow
<1>1. CASE Claims(rows[i], clock)
  <2> DEFINE c == [kind |-> rows[i].kind, unit |-> rows[i].unit, stay |-> rows[i].stay,
                   reinstated |-> i \in reinstated]
  <2>1. Granted[i] = c
    BY <1>1 DEF Granted
  <2>2. /\ rows[i] \in Row
        /\ rows[i].kind = "booking" <=> Occupying(rows[i])
    BY <1>1 DEF Discipline, TypeOK, Claims, Occupying, IsBooking, LiveHold, Block
  <2>3. /\ rows[i].kind \in {"booking", "hold", "block"}
        /\ rows[i].unit \in Units /\ rows[i].stay \in Stay
    BY <2>2, RowShape
  <2>4. (i \in reinstated) \in BOOLEAN
    OBVIOUS
  <2>5. c \in Abstract!Claim
    BY <2>3, <2>4 DEF Abstract!Claim, Abstract!Kinds, Abstract!Stay, Stay
  <2>6. /\ c # NoRow /\ c.unit = rows[i].unit /\ c.stay = rows[i].stay
        /\ c.kind = rows[i].kind
    BY <2>5, NoClaimAssumption
  <2>7. c.reinstated = (i \in reinstated)
    OBVIOUS
  <2> HIDE DEF c
  <2>8. QED
    BY <1>1, <2>1, <2>2, <2>5, <2>6, <2>7
<1>2. CASE ~ Claims(rows[i], clock)
  BY <1>2 DEF Granted
<1>3. QED
  BY <1>1, <1>2

GrantsFit ==
  \A i \in Rows :
    /\ Claims(rows[i], clock) =>
         /\ Granted[i] \in Abstract!Claim /\ Granted[i] # NoRow
         /\ Granted[i].unit = rows[i].unit /\ Granted[i].stay = rows[i].stay
         /\ Granted[i].reinstated = (i \in reinstated)
         /\ Granted[i].kind = "booking" <=> Occupying(rows[i])
    /\ ~ Claims(rows[i], clock) => Granted[i] = NoRow

LEMMA GrantsFitBefore == Discipline => GrantsFit
  BY GrantedClaims DEF GrantsFit

LEMMA GrantsFitAfter == Discipline' => GrantsFit'
  BY GrantsFitBefore, PTL

(* Rows that claim the same before and after a step.                       *)
SameClaim(i) ==
  /\ Claims(rows'[i], clock') <=> Claims(rows[i], clock)
  /\ Claims(rows[i], clock) =>
       /\ rows'[i].kind = rows[i].kind /\ rows'[i].unit = rows[i].unit
       /\ rows'[i].stay = rows[i].stay
       /\ (i \in reinstated') <=> (i \in reinstated)

LEMMA SameClaimSameGrant ==
  ASSUME NEW i \in Rows, SameClaim(i)
  PROVE  Granted'[i] = Granted[i]
<1>1. CASE Claims(rows[i], clock)
  <2>1. (i \in reinstated') = (i \in reinstated)
    BY <1>1 DEF SameClaim
  <2>2. QED
    BY <1>1, <2>1 DEF SameClaim, Granted
<1>2. CASE ~ Claims(rows[i], clock)
  BY <1>2 DEF SameClaim, Granted
<1>3. QED
  BY <1>1, <1>2

(* A step that takes claims away, and gives none, releases them.           *)
LEMMA LosingIsReleasing ==
  ASSUME \A i \in Rows : SameClaim(i) \/ ~ Claims(rows'[i], clock')
  PROVE  Abstract!Next
<1> DEFINE S == {i \in Rows : ~ Claims(rows'[i], clock')}
<1>1. ASSUME NEW i \in Rows
      PROVE  Granted'[i] = IF i \in S THEN NoRow ELSE Granted[i]
  <2>1. CASE i \in S
    BY <2>1 DEF Granted
  <2>2. CASE i \notin S
    BY <2>2, SameClaimSameGrant
  <2>3. QED
    BY <2>1, <2>2
<1>2. Granted' = [i \in Rows |-> IF i \in S THEN NoRow ELSE Granted[i]]
  <2>1. Granted' = [i \in Rows |-> Granted'[i]]
    BY DEF Granted
  <2>2. QED
    BY <1>1, <2>1
<1>3. Abstract!Release(S) /\ S \in SUBSET Rows
  BY <1>2 DEF Abstract!Release
<1>4. QED
  BY <1>3 DEF Abstract!Next

(* A step that gives one claim and leaves the others.                      *)
LEMMA OneNewClaim ==
  ASSUME Discipline, Discipline', NEW i \in Rows,
         ~ Claims(rows[i], clock), Claims(rows'[i], clock'),
         \A j \in Rows \ {i} : SameClaim(j)
  PROVE  /\ Granted[i] = NoRow
         /\ Granted'[i] \in Abstract!Claim
         /\ Granted' = [Granted EXCEPT ![i] = Granted'[i]]
<1>1. Granted[i] = NoRow /\ Granted'[i] \in Abstract!Claim
  BY GrantsFitBefore, GrantsFitAfter DEF GrantsFit
<1>2. Granted' = [j \in Rows |-> Granted'[j]] /\ Granted = [j \in Rows |-> Granted[j]]
  BY DEF Granted
<1>3. \A j \in Rows \ {i} : Granted'[j] = Granted[j]
  BY SameClaimSameGrant
<1>4. QED
  BY <1>1, <1>2, <1>3

(* A new claim of a booking is over no other booking.                      *)
LEMMA NewBookingIsClear ==
  ASSUME Discipline, Discipline', NEW i \in Rows,
         ~ Claims(rows[i], clock), Claims(rows'[i], clock'),
         \A j \in Rows \ {i} : SameClaim(j),
         Granted'[i].kind = "booking"
  PROVE  Abstract!ClearOfBookings(i, Granted'[i])
<1> SUFFICES ASSUME NEW d \in Rows, d # i, Granted[d] # NoRow,
                    Granted[d].kind = "booking",
                    Granted'[i].unit = Granted[d].unit,
                    Overlaps(Granted'[i].stay, Granted[d].stay)
             PROVE  FALSE
  BY DEF Abstract!ClearOfBookings, Abstract!Held, Abstract!Conflict,
         Abstract!Overlaps, Overlaps
<1>1. Granted'[d] = Granted[d]
  BY SameClaimSameGrant
<1>2. /\ Claims(rows'[d], clock') /\ Occupying(rows'[d])
      /\ Granted'[d].unit = rows'[d].unit /\ Granted'[d].stay = rows'[d].stay
  BY <1>1, GrantsFitAfter DEF GrantsFit
<1>3. /\ Occupying(rows'[i])
      /\ Granted'[i].unit = rows'[i].unit /\ Granted'[i].stay = rows'[i].stay
  BY GrantsFitAfter DEF GrantsFit
<1>4. QED
  BY <1>1, <1>2, <1>3 DEF Discipline, NoOverbooking

(* A commit grants its claim, over nights that are free, or rewrites a     *)
(* booking that claims the same.                                           *)
LEMMA CommitGrants ==
  ASSUME Discipline, Discipline', NEW t \in Tx, NEW i \in Rows, Commit(t, i)
  PROVE  Abstract!Next
<1>1. /\ Shape /\ UNCHANGED <<clock, reinstated>> /\ clock \in Nat
      /\ tx[t] \in OpenTx /\ tx[t] # Idle /\ tx[t].phase = "checked" /\ ~ tx[t].doomed
      /\ tx[t].stay \in Stay
  BY DEF Discipline, Shape, Commit, TypeOK, OpenTx
<1>2. \A j \in Rows \ {i} : SameClaim(j)
  BY <1>1, CommitKeepsOthers DEF SameClaim
<1>3. /\ rows'[i].unit = tx[t].unit /\ rows'[i].stay = tx[t].stay
      /\ tx[t].target \in {i, NoRow} /\ NoRow \notin Rows
  BY <1>1, CommitEffect, NoRowAssumption
<1>4. CASE Occupying(rows[i])
  <2>1. /\ tx[t].op = "transition" /\ rows[i].unit = tx[t].unit /\ rows[i].stay = tx[t].stay
        /\ Occupying(rows'[i])
    BY <1>1, <1>4, CommitEffect DEF Occupying, IsBooking
  <2>2. SameClaim(i)
    BY <1>1, <1>3, <1>4, <2>1 DEF SameClaim, Claims, Occupying, IsBooking
  <2>3. QED
    BY <1>2, <2>2, LosingIsReleasing
<1>5. CASE ~ Occupying(rows[i])
  <2>1. ~ Claims(rows[i], clock)
    BY <1>1, <1>5, CommitEffect DEF Claims, IsBooking, LiveHold, Block
  <2>2. Claims(rows'[i], clock')
    <3>1. CASE tx[t].op \notin {"createHold", "block"}
      BY <1>1, <3>1, CommitEffect DEF Claims
    <3>2. CASE tx[t].op \in {"createHold", "block"}
      <4>1. rows'[i] = NewRow(tx[t]) /\ rows'[i] # NoRow
        BY <1>1, <3>2, CommitEffect, RowShape DEF Commit, Written, Expired
      <4>2. CASE tx[t].op = "createHold"
        BY <1>1, <4>1, <4>2, ReservationsAssumption DEF NewRow, Claims, LiveHold
      <4>3. CASE tx[t].op = "block"
        BY <1>1, <4>1, <4>3 DEF NewRow, Claims, Block
      <4>4. QED
        BY <3>2, <4>2, <4>3
    <3>3. QED
      BY <3>1, <3>2
  <2> DEFINE r == Granted'[i]
  <2>3. /\ Granted[i] = NoRow /\ r \in Abstract!Claim
        /\ Granted' = [Granted EXCEPT ![i] = r]
    BY <1>2, <2>1, <2>2, OneNewClaim
  <2>4. ~ r.reinstated /\ r.unit = tx[t].unit /\ r.stay = tx[t].stay
    BY <1>1, <1>3, <1>5, <2>2, GrantsFitAfter
       DEF GrantsFit, Discipline, ReinstatedOccupy
  <2>5. Abstract!ClearOfClaims(i, r)
    <3> SUFFICES ASSUME NEW d \in Rows, d # i, Granted[d] # NoRow,
                        ~ Granted[d].reinstated, r.unit = Granted[d].unit,
                        Overlaps(r.stay, Granted[d].stay)
                 PROVE  FALSE
      BY DEF Abstract!ClearOfClaims, Abstract!Held, Abstract!Conflict,
             Abstract!Overlaps, Overlaps
    <3>1. /\ Claims(rows[d], clock) /\ d \notin reinstated
          /\ Granted[d].unit = rows[d].unit /\ Granted[d].stay = rows[d].stay
      BY GrantsFitBefore DEF GrantsFit
    <3>2. rows[d].stay \in Stay
      BY <3>1, RowShape
         DEF Discipline, TypeOK, Claims, Occupying, IsBooking, LiveHold, Block
    <3>3. Excused(d)
      BY <1>1, <1>3, <2>4, <3>1, <3>2, CheckIsComplete, OverlapsSymmetric
    <3>4. QED
      BY <3>1, <3>3 DEF Excused
  <2>6. r.kind = "booking" => Abstract!ClearOfBookings(i, r)
    BY <1>2, <2>1, <2>2, NewBookingIsClear
  <2>7. Abstract!Grant(i, r)
    BY <2>3, <2>4, <2>5, <2>6 DEF Abstract!Grant, Abstract!Held
  <2>8. QED
    BY <2>3, <2>7 DEF Abstract!Next
<1>6. QED
  BY <1>4, <1>5

(* A notification reinstates a claim, over no booking, or changes none.    *)
LEMMA NotificationReinstates ==
  ASSUME Discipline, Discipline', NEW b \in Rows, NEW level \in 1..2, HandleIpn(b, level)
  PROVE  Abstract!Next
<1>1. BookingUpdate(b, rows'[b])
  BY BookingUpdates DEF Discipline
<1>2. /\ rows[b] \in BookingRow /\ IsBooking(rows[b]) /\ UNCHANGED clock
      /\ rows'[b].unit = rows[b].unit /\ rows'[b].stay = rows[b].stay
      /\ rows'[b] # NoRow /\ rows'[b].kind = "booking" /\ rows[b].kind = "booking"
      /\ rows'[b].status = "CONFIRMED"
  BY <1>1, RowShape, NoRowAssumption
     DEF BookingUpdate, SameStay, IsBooking, BookingRow, Row, Discipline, TypeOK, HandleIpn
<1>3. Occupying(rows'[b])
  BY <1>2, LifecycleTypes DEF Occupying, IsBooking
<1>4. \A j \in Rows \ {b} : SameClaim(j)
  BY <1>1 DEF BookingUpdate, SameClaim, Discipline, TypeOK, HandleIpn
<1>5. CASE Occupying(rows[b])
  <2>1. SameClaim(b)
    BY <1>2, <1>3, <1>5 DEF SameClaim, Claims, HandleIpn
  <2>2. QED
    BY <1>4, <2>1, LosingIsReleasing
<1>6. CASE ~ Occupying(rows[b])
  <2>1. ~ Claims(rows[b], clock) /\ Claims(rows'[b], clock')
    BY <1>2, <1>3, <1>6 DEF Claims, LiveHold, Block
  <2> DEFINE r == Granted'[b]
  <2>2. /\ Granted[b] = NoRow /\ r \in Abstract!Claim
        /\ Granted' = [Granted EXCEPT ![b] = r]
    BY <1>4, <2>1, OneNewClaim
  <2>3. r.reinstated /\ r.kind = "booking"
    BY <1>3, <1>6, <2>1, GrantsFitAfter DEF GrantsFit, HandleIpn
  <2>4. Abstract!ClearOfBookings(b, r)
    BY <1>4, <2>1, <2>3, NewBookingIsClear
  <2>5. Abstract!Reinstate(b, r)
    BY <2>2, <2>3, <2>4 DEF Abstract!Reinstate, Abstract!Held
  <2>6. QED
    BY <2>2, <2>5 DEF Abstract!Next
<1>7. QED
  BY <1>5, <1>6

LEMMA RefinementStep ==
  ASSUME Discipline, Discipline', [Next]_vars
  PROVE  [Abstract!Next]_Granted
<1>1. ASSUME UNCHANGED <<clock, rows, reinstated>>
      PROVE  Granted' = Granted
  BY <1>1 DEF Granted
<1>2. ASSUME NEW t \in Tx, NEW i \in Rows, Commit(t, i)
      PROVE  Abstract!Next
  BY <1>2, CommitGrants
<1>3. ASSUME NEW b \in Rows, NEW to \in Status, Transition(b, to)
      PROVE  Abstract!Next
  <2>1. BookingUpdate(b, rows'[b])
    BY <1>3, BookingUpdates DEF Discipline
  <2>2. /\ rows'[b] \in BookingRow /\ rows'[b].status = to /\ to \notin OCCUPYING
        /\ rows'[b].kind = "booking" /\ rows[b] \in BookingRow
    BY <1>3, <2>1, RowShape
       DEF BookingUpdate, SameStay, Transition, IsBooking, BookingRow, Discipline, TypeOK
  <2>3. ~ Claims(rows'[b], clock')
    BY <2>2 DEF Claims, Occupying, LiveHold, Block
  <2>4. \A j \in Rows \ {b} : SameClaim(j)
    BY <1>3, <2>1 DEF BookingUpdate, SameClaim, Transition, Discipline, TypeOK
  <2>5. QED
    BY <2>3, <2>4, LosingIsReleasing
<1>4. ASSUME NEW b \in Rows, Unblock(b)
      PROVE  Abstract!Next
  <2>1. ~ Claims(NoRow, clock)
    BY DEF Claims, Occupying, IsBooking, LiveHold, Block
  <2>2. \A j \in Rows : rows'[j] = rows[j] \/ rows'[j] = NoRow
    BY <1>4 DEF Unblock, Discipline, TypeOK
  <2>3. UNCHANGED <<clock, reinstated>>
    BY <1>4 DEF Unblock
  <2>4. \A j \in Rows : SameClaim(j) \/ ~ Claims(rows'[j], clock')
    BY <2>1, <2>2, <2>3 DEF SameClaim
  <2>5. QED
    BY <2>4, LosingIsReleasing
<1>5. ASSUME NEW b \in Rows,
             CreatePaymentUrl(b) \/ DropLink(b) \/ \E level \in 1..2 : Payment(b, level)
      PROVE  Abstract!Next
  <2>1. BookingUpdate(b, rows'[b])
    BY <1>5, BookingUpdates DEF Discipline
  <2>2. /\ rows'[b] \in BookingRow /\ rows[b] \in BookingRow
        /\ rows'[b].status = rows[b].status /\ UNCHANGED <<clock, reinstated>>
        /\ IsBooking(rows[b]) /\ IsBooking(rows'[b])
    <3>1. rows'[b] \in BookingRow /\ rows[b] \in BookingRow
      BY <2>1, RowShape DEF BookingUpdate, SameStay, IsBooking, Discipline, TypeOK
    <3>2. IsBooking(rows[b]) /\ IsBooking(rows'[b])
      BY <2>1, <3>1, NoRowAssumption DEF BookingUpdate, IsBooking, Row, BookingRow
    <3>3. rows'[b].status = rows[b].status /\ UNCHANGED <<clock, reinstated>>
      BY <1>5, <3>1 DEF Payment, CreatePaymentUrl, DropLink, BookingRow, Discipline, TypeOK
    <3>4. QED
      BY <3>1, <3>2, <3>3
  <2>3. SameClaim(b)
    BY <2>1, <2>2
       DEF BookingUpdate, SameStay, SameClaim, Claims, Occupying, IsBooking, LiveHold, Block
  <2>4. \A j \in Rows \ {b} : SameClaim(j)
    BY <2>1, <2>2 DEF BookingUpdate, SameClaim, Discipline, TypeOK
  <2>5. QED
    BY <2>3, <2>4, LosingIsReleasing
<1>6. ASSUME NEW b \in Rows, NEW level \in 1..2, HandleIpn(b, level)
      PROVE  Abstract!Next
  BY <1>6, NotificationReinstates
<1>7. ASSUME Tick
      PROVE  Abstract!Next
  <2>1. UNCHANGED <<rows, reinstated>> /\ clock' = clock + 1 /\ clock \in Nat
    BY <1>7 DEF Tick, Discipline, TypeOK
  <2>2. ASSUME NEW j \in Rows, Claims(rows[j], clock + 1) PROVE Claims(rows[j], clock)
    <3>1. CASE LiveHold(rows[j], clock + 1)
      <4>1. rows[j].expiresAt \in Nat
        BY <3>1, RowShape DEF LiveHold, Discipline, TypeOK, HoldRow
      <4>2. QED
        BY <2>1, <3>1, <4>1 DEF LiveHold, Claims
    <3>2. QED
      BY <2>2, <3>1 DEF Claims
  <2>3. \A j \in Rows : SameClaim(j) \/ ~ Claims(rows'[j], clock')
    BY <2>1, <2>2 DEF SameClaim
  <2>4. QED
    BY <2>3, LosingIsReleasing
<1>8. QED
  BY <1>1, <1>2, <1>3, <1>4, <1>5, <1>6, <1>7
     DEF Next, BeginInsert, BeginTransition, Begin, Check, Abort

(* The locks, snapshots and transactions implement Inventory: each commit  *)
(* is one atomic grant, and nothing else grants but a notification, which  *)
(* reinstates.                                                             *)
THEOREM ReservationsImplementInventory == Spec => ImplementsInventory
<1>1. Init => Abstract!Init
  <2> SUFFICES ASSUME Init PROVE Abstract!Init
    OBVIOUS
  <2>1. \A i \in Rows : ~ Claims(rows[i], clock)
    BY DEF Init, Claims, Occupying, IsBooking, LiveHold, Block
  <2>2. QED
    BY <2>1 DEF Granted, Abstract!Init
<1>2. QED
  BY <1>1, RefinementStep, DisciplineHolds, PTL
     DEF Spec, ImplementsInventory, Abstract!Spec

-----------------------------------------------------------------------------
(* Without payment links there is no notification, nothing is ever put     *)
(* back, and no claim is excused: lock, snapshot and check keep claims of  *)
(* every kind apart.                                                       *)
THEOREM LockedOperationsNeverConflict ==
  ASSUME MaxAttempts = 0
  PROVE  Spec => []NoConflictingClaims
<1> DEFINE NoneBack == reinstated = {}
<1>1. Init => NoneBack
  BY DEF Init
<1>2. Discipline /\ NoneBack /\ [Next]_vars => NoneBack'
  <2> SUFFICES ASSUME Discipline, NoneBack, [Next]_vars
               PROVE  NoneBack'
    OBVIOUS
  <2>1. ASSUME NEW b \in Rows, NEW level \in 1..2, HandleIpn(b, level)
        PROVE  FALSE
    <3>1. rows[b] \in BookingRow
      BY <2>1, RowShape DEF HandleIpn, IsBooking, Discipline, TypeOK
    <3>2. rows[b].attempts \in 0..0
      BY <3>1 DEF BookingRow
    <3>3. QED
      BY <2>1, <3>2 DEF HandleIpn
  <2>2. QED
    BY <2>1 DEF Next, BeginInsert, BeginTransition, Begin, Check, Commit, Abort, Transition,
                Unblock, Payment, CreatePaymentUrl, DropLink, Tick
<1>3. Discipline /\ NoneBack => NoConflictingClaims
  BY DEF Discipline, ConflictsAreExcused, Excused, NoConflictingClaims
<1> HIDE DEF NoneBack
<1> QED
  BY <1>1, <1>2, <1>3, DisciplineHolds, PTL DEF Spec

-----------------------------------------------------------------------------
(* The public calendar, which clips each row to its window, and the check  *)
(* at booking time, which compares intervals, count the same nights: a     *)
(* night lies in the clipped part of an overlapping stay exactly when it   *)
(* lies in the window and the stay overlaps that night alone.              *)
LEMMA ClippedNights ==
  ASSUME NEW r \in Stay, NEW s \in Stay
  PROVE  /\ \A n \in EachNight(s) :
              /\ n \in Int
              /\ n \in EachNight(Clip(r, s)) <=> Overlaps(r, <<n, n + 1>>)
              /\ n \in EachNight(Clip(r, s)) => Overlaps(r, s)
         /\ EachNight(Clip(r, s)) \subseteq EachNight(s)
         /\ Overlaps(r, s) => EachNight(Clip(r, s)) # {}
<1>1. /\ r[1] \in Int /\ r[2] \in Int /\ r[1] < r[2]
      /\ s[1] \in Int /\ s[2] \in Int /\ s[1] < s[2]
  BY DaysAssumption DEF Stay
<1> DEFINE from == IF r[1] > s[1] THEN r[1] ELSE s[1]
           to   == IF r[2] < s[2] THEN r[2] ELSE s[2]
<1>2. EachNight(Clip(r, s)) = from .. (to - 1) /\ from \in Int /\ to \in Int
  BY <1>1 DEF EachNight, Clip
<1>3. ASSUME NEW n \in EachNight(s)
      PROVE  /\ n \in Int
             /\ n \in from .. (to - 1) <=> r[1] < n + 1 /\ n < r[2]
             /\ n \in from .. (to - 1) => r[1] < s[2] /\ s[1] < r[2]
  BY <1>1 DEF EachNight
<1>4. from .. (to - 1) \subseteq EachNight(s)
  BY <1>1 DEF EachNight
<1>5. r[1] < s[2] /\ s[1] < r[2] => from \in from .. (to - 1)
  BY <1>1
<1> HIDE DEF from, to
<1>6. QED
  BY <1>2, <1>3, <1>4, <1>5 DEF Overlaps

(* CalendarAgrees, for every set of days and rows: what the calendar shows *)
(* as free can be booked, and nothing else can.                            *)
THEOREM CalendarsAgree == Spec => []CalendarAgrees
<1>1. TypeOK => CalendarAgrees
  <2> SUFFICES ASSUME TypeOK, NEW u \in Units, NEW s \in Stay
               PROVE  /\ UnavailableNights(u, s) =
                           {n \in EachNight(s) : Blockers(u, <<n, n + 1>>, NoRow) # {}}
                      /\ UnavailableNights(u, s) = {} <=> Blockers(u, s, NoRow) = {}
    BY DEF CalendarAgrees
  <2> DEFINE Taking == {j \in Rows : Claims(rows[j], clock) /\ rows[j].unit = u}
  <2>1. ASSUME NEW j \in Taking
        PROVE  rows[j].stay \in Stay
    BY RowShape DEF TypeOK, Claims, Occupying, IsBooking, LiveHold, Block
  <2>2. \A stay : Blockers(u, stay, NoRow) = {j \in Taking : Overlaps(rows[j].stay, stay)}
    BY NoRowAssumption DEF Blockers
  <2>3. \A n : n \in UnavailableNights(u, s) <=>
               \E j \in Taking : /\ Overlaps(rows[j].stay, s)
                                 /\ n \in EachNight(Clip(rows[j].stay, s))
    BY DEF UnavailableNights
  <2> HIDE DEF Taking
  <2>4. UnavailableNights(u, s) \subseteq EachNight(s)
    BY <2>1, <2>3, ClippedNights
  <2>5. ASSUME NEW n \in EachNight(s)
        PROVE  n \in UnavailableNights(u, s) <=> Blockers(u, <<n, n + 1>>, NoRow) # {}
    BY <2>1, <2>2, <2>3, ClippedNights
  <2>6. UnavailableNights(u, s) = {} <=> Blockers(u, s, NoRow) = {}
    BY <2>1, <2>2, <2>3, ClippedNights
  <2>7. QED
    BY <2>4, <2>5, <2>6
<1>2. QED
  BY <1>1, ReservationsTypeCorrect, PTL

-----------------------------------------------------------------------------
(* The refinement of BookingContract.                                      *)

(* The account behind a booking.                                           *)
LEMMA AccountShape ==
  ASSUME NEW r \in BookingRow
  PROVE  /\ AccountOf(r) = [status |-> r.status, deposit |-> StartLevel[r.unit] = 0,
                            level |-> r.level, attempts |-> r.attempts]
         /\ AccountOf(r) \in Contract!Account /\ AccountOf(r) # NoRow
         /\ AccountOf(r).status = r.status /\ AccountOf(r).level = r.level
         /\ AccountOf(r).attempts = r.attempts
         /\ AccountOf(r).deposit = (StartLevel[r.unit] = 0)
<1>1. IsBooking(r)
  BY NoRowAssumption DEF IsBooking, Row, BookingRow
<1>2. (StartLevel[r.unit] = 0) \in BOOLEAN
  OBVIOUS
<1>3. /\ r.status \in Status /\ r.level \in 0..2 /\ r.attempts \in Nat
  BY ReservationsAssumption DEF BookingRow
<1> DEFINE d == StartLevel[r.unit] = 0
           a == [status |-> r.status, deposit |-> d,
                 level |-> r.level, attempts |-> r.attempts]
<1>4. AccountOf(r) = a
  BY <1>1 DEF AccountOf
<1>5. d \in BOOLEAN
  BY <1>2
<1> HIDE DEF d
<1>6. a \in Contract!Account
  BY <1>3, <1>5 DEF Contract!Account, Contract!Status, Contract!Cancelled, Status, Cancelled
<1>7. /\ a # NoRow /\ a.status = r.status /\ a.level = r.level
      /\ a.attempts = r.attempts /\ a.deposit = d
  BY <1>6, NoAccountAssumption
<1>8. QED
  BY <1>4, <1>6, <1>7 DEF d

LEMMA BookingsHaveAccounts ==
  ASSUME TypeOK, NEW b \in Rows
  PROVE  /\ IsBooking(rows[b]) => rows[b] \in BookingRow
         /\ Accounts[b] # NoRow <=> IsBooking(rows[b])
         /\ Accounts[b] = AccountOf(rows[b])
<1>1. IsBooking(rows[b]) => rows[b] \in BookingRow
  BY RowShape DEF TypeOK, IsBooking
<1>2. Accounts[b] = AccountOf(rows[b])
  BY DEF Accounts
<1>3. QED
  BY <1>1, <1>2, AccountShape DEF AccountOf

(* Accounts that differ in what a step of the contract changes.            *)
LEMMA AccountUpdates ==
  ASSUME NEW a \in Contract!Account, NEW b \in Contract!Account,
         a.deposit = b.deposit
  PROVE  /\ a.level = b.level /\ a.attempts = b.attempts
              => [a EXCEPT !.status = b.status] = b
         /\ a.status = b.status /\ a.attempts = b.attempts
              => [a EXCEPT !.level = b.level] = b
         /\ a.status = b.status /\ a.level = b.level
              => [a EXCEPT !.attempts = b.attempts] = b
         /\ [a EXCEPT !.status = b.status, !.level = b.level, !.attempts = b.attempts] = b
  BY DEF Contract!Account

(* Being in a status is the same for the row and for its account.          *)
LEMMA InStatus ==
  ASSUME TypeOK, NEW b \in Rows, NEW S
  PROVE  Contract!In(b, S) <=> IsBooking(rows[b]) /\ rows[b].status \in S
  BY BookingsHaveAccounts, AccountShape DEF Contract!In

(* The contract's lifecycle is the code's.                                 *)
LEMMA SameLifecycle ==
  /\ Contract!Status = Status /\ Contract!Frozen = Frozen
  /\ Contract!OCCUPYING = OCCUPYING
  /\ \A s \in Status : \A to : Contract!MayMove(s, to) <=> MayMove(s, to)
<1>1. Contract!Status = Status /\ Contract!Frozen = Frozen
  BY DEF Contract!Status, Status, Contract!Cancelled, Cancelled, Contract!Frozen, Frozen
<1>2. Contract!TRANSITIONS = TRANSITIONS
  BY <1>1 DEF Contract!TRANSITIONS, TRANSITIONS, Contract!Cancelled, Cancelled
<1>3. QED
  BY <1>1, <1>2 DEF Contract!MayMove, MayMove, Contract!OCCUPYING, OCCUPYING

(* No booking that occupies its unit has its nights taken.                 *)
LEMMA NightsAreClear ==
  ASSUME Discipline
  PROVE  Contract!Clear /\ Taken \in [Rows -> BOOLEAN]
<1>1. ASSUME NEW b \in Rows, Contract!In(b, Contract!OCCUPYING)
      PROVE  ~ Taken[b]
  <2>1. Occupying(rows[b])
    BY <1>1, InStatus, SameLifecycle DEF Discipline, Occupying
  <2>2. NoOccupyingOverlap(b, rows[b].unit, rows[b].stay)
    BY <2>1 DEF Discipline, NoOverbooking, NoOccupyingOverlap
  <2>3. QED
    BY <2>2 DEF Taken
<1>2. QED
  BY <1>1 DEF Contract!Clear, Taken

LEMMA NightsStayClear == Discipline' => (Contract!Clear /\ Taken \in [Rows -> BOOLEAN])'
  BY NightsAreClear, PTL

LEMMA NightsFree ==
  ASSUME NEW b \in Rows, NoOccupyingOverlap(b, rows[b].unit, rows[b].stay)
  PROVE  ~ Taken[b]
  BY DEF Taken

(* A step that changes one account, and what it may be.                    *)
LEMMA OneAccount ==
  ASSUME NEW b \in Rows,
         \A j \in Rows \ {b} : AccountOf(rows'[j]) = AccountOf(rows[j])
  PROVE  Accounts' = [Accounts EXCEPT ![b] = AccountOf(rows'[b])]
<1>1. Accounts' = [j \in Rows |-> AccountOf(rows'[j])]
  BY DEF Accounts, AccountOf, IsBooking
<1>2. QED
  BY <1>1 DEF Accounts

LEMMA BookingUpdateAccount ==
  ASSUME TypeOK, NEW b \in Rows, NEW s, BookingUpdate(b, s)
  PROVE  /\ rows[b] \in BookingRow /\ s \in BookingRow /\ s.unit = rows[b].unit
         /\ rows'[b] = s
         /\ Accounts' = [Accounts EXCEPT ![b] = AccountOf(s)]
<1>1. rows[b] \in BookingRow /\ s \in BookingRow /\ s.unit = rows[b].unit
  BY RowShape DEF BookingUpdate, SameStay, IsBooking, TypeOK
<1>2. rows'[b] = s /\ \A j \in Rows \ {b} : rows'[j] = rows[j]
  BY DEF BookingUpdate, TypeOK
<1>3. QED
  BY <1>1, <1>2, OneAccount

-----------------------------------------------------------------------------
(* Each step keeps its side of the contract.                               *)

(* Staff move a booking on, with or without the lock.                      *)
LEMMA MoveMeets ==
  ASSUME TypeOK, NEW b \in Rows, NEW to \in Status,
         IsBooking(rows[b]), MayMove(rows[b].status, to),
         to \in {"CONFIRMED", "CHECKED_IN"} => rows[b].level >= 1,
         to = "CHECKED_OUT" => rows[b].level = 2,
         to \in OCCUPYING => NoOccupyingOverlap(b, rows[b].unit, rows[b].stay),
         rows'[b] = [rows[b] EXCEPT !.status = to],
         \A j \in Rows \ {b} : AccountOf(rows'[j]) = AccountOf(rows[j])
  PROVE  Contract!Move(b, to)
<1>1. /\ rows[b] \in BookingRow /\ Accounts[b] = AccountOf(rows[b])
      /\ Contract!In(b, Status)
  BY BookingsHaveAccounts, InStatus DEF BookingRow
<1>2. rows'[b] \in BookingRow /\ rows'[b].unit = rows[b].unit
      /\ rows'[b].status = to /\ rows'[b].level = rows[b].level
      /\ rows'[b].attempts = rows[b].attempts
  BY <1>1 DEF BookingRow
<1>3. AccountOf(rows'[b]) = [AccountOf(rows[b]) EXCEPT !.status = to]
  <2> DEFINE a == AccountOf(rows[b])
             c == AccountOf(rows'[b])
  <2>1. a \in Contract!Account /\ c \in Contract!Account
    BY <1>1, <1>2, AccountShape
  <2>2. /\ c.status = to /\ c.level = a.level /\ c.attempts = a.attempts
        /\ a.deposit = c.deposit
    BY <1>1, <1>2, AccountShape
  <2> HIDE DEF a, c
  <2>3. [a EXCEPT !.status = c.status] = c
    BY <2>1, <2>2, AccountUpdates
  <2>4. QED
    BY <2>2, <2>3 DEF a, c
<1>4. Accounts' = [Accounts EXCEPT ![b].status = to]
  BY <1>1, <1>3, OneAccount
<1>5. to \in OCCUPYING => ~ Taken[b]
  BY NightsFree
<1>6. /\ Accounts[b].status = rows[b].status /\ Accounts[b].level = rows[b].level
      /\ rows[b].status \in Status
  BY <1>1, AccountShape DEF BookingRow
<1>7. QED
  BY <1>1, <1>4, <1>5, <1>6, SameLifecycle DEF Contract!Move

(* The account of a booking before and after a change of it.               *)
LEMMA UpdatedAccount ==
  ASSUME TypeOK, NEW b \in Rows, BookingUpdate(b, rows'[b])
  PROVE  \E a, c \in Contract!Account :
           /\ a = Accounts[b] /\ a.deposit = c.deposit
           /\ Accounts' = [Accounts EXCEPT ![b] = c]
           /\ rows[b] \in BookingRow /\ rows'[b] \in BookingRow
           /\ a.deposit = (StartLevel[rows[b].unit] = 0)
           /\ a.status = rows[b].status /\ c.status = rows'[b].status
           /\ a.level = rows[b].level /\ c.level = rows'[b].level
           /\ a.attempts = rows[b].attempts /\ c.attempts = rows'[b].attempts
<1> DEFINE a == AccountOf(rows[b])
           c == AccountOf(rows'[b])
<1>1. /\ rows[b] \in BookingRow /\ rows'[b] \in BookingRow
      /\ rows'[b].unit = rows[b].unit
      /\ Accounts' = [Accounts EXCEPT ![b] = c]
  BY BookingUpdateAccount
<1>2. a = Accounts[b]
  BY BookingsHaveAccounts
<1>3. /\ a \in Contract!Account /\ c \in Contract!Account
      /\ a.deposit = (StartLevel[rows[b].unit] = 0)
      /\ c.deposit = (StartLevel[rows[b].unit] = 0)
      /\ a.status = rows[b].status /\ c.status = rows'[b].status
      /\ a.level = rows[b].level /\ c.level = rows'[b].level
      /\ a.attempts = rows[b].attempts /\ c.attempts = rows'[b].attempts
  BY <1>1, AccountShape
<1> HIDE DEF a, c
<1>4. QED
  BY <1>1, <1>2, <1>3

(* Receipts, links and notifications.                                      *)
LEMMA SettlementMeets ==
  ASSUME TypeOK, NEW b \in Rows,
         \/ \E level \in 1..2 : Payment(b, level) \/ HandleIpn(b, level)
         \/ CreatePaymentUrl(b) \/ DropLink(b)
  PROVE  Contract!Settle(b)
<1>1. BookingUpdate(b, rows'[b]) /\ DOMAIN rows = Rows
  BY BookingUpdates DEF TypeOK
<1>2. PICK a \in Contract!Account, c \in Contract!Account :
        /\ a = Accounts[b] /\ a.deposit = c.deposit
        /\ Accounts' = [Accounts EXCEPT ![b] = c]
        /\ rows[b] \in BookingRow /\ rows'[b] \in BookingRow
        /\ a.deposit = (StartLevel[rows[b].unit] = 0)
        /\ a.status = rows[b].status /\ c.status = rows'[b].status
        /\ a.level = rows[b].level /\ c.level = rows'[b].level
        /\ a.attempts = rows[b].attempts /\ c.attempts = rows'[b].attempts
  BY <1>1, UpdatedAccount
<1>3. \A S : Contract!In(b, S) <=> IsBooking(rows[b]) /\ rows[b].status \in S
  BY InStatus
<1>4. a.deposit = c.deposit
  BY <1>2
<1>5. /\ a.status = c.status /\ a.attempts = c.attempts
           => [a EXCEPT !.level = c.level] = c
      /\ a.status = c.status /\ a.level = c.level
           => [a EXCEPT !.attempts = c.attempts] = c
      /\ [a EXCEPT !.status = c.status, !.level = c.level, !.attempts = c.attempts] = c
  BY <1>4, AccountUpdates
<1>6. ASSUME NEW level \in 1..2, Payment(b, level)
      PROVE  Contract!Receive(b, level)
  <2>1. /\ rows'[b].level = level /\ rows'[b].status = rows[b].status
        /\ rows'[b].attempts = rows[b].attempts /\ rows[b].level < level
    BY <1>1, <1>2, <1>6 DEF Payment, BookingRow
  <2>2. Accounts' = [Accounts EXCEPT ![b].level = level]
    <3>1. [a EXCEPT !.level = c.level] = c
      BY <1>2, <1>5, <2>1
    <3>2. c.level = level
      BY <1>2, <2>1
    <3>3. QED
      BY <1>2, <3>1, <3>2
  <2>3. Contract!In(b, Contract!OCCUPYING)
    BY <1>3, <1>6, SameLifecycle DEF Payment, Occupying
  <2>4. QED
    BY <1>2, <2>1, <2>2, <2>3 DEF Contract!Receive
<1>7. ASSUME CreatePaymentUrl(b)
      PROVE  Contract!Ask(b)
  <2>1. /\ rows'[b].level = rows[b].level /\ rows'[b].status = rows[b].status
        /\ rows'[b].attempts = rows[b].attempts + 1
    BY <1>1, <1>2, <1>7 DEF CreatePaymentUrl, BookingRow
  <2>2. Accounts' = [Accounts EXCEPT ![b].attempts = a.attempts + 1]
    <3>1. [a EXCEPT !.attempts = c.attempts] = c
      BY <1>2, <1>5, <2>1
    <3>2. c.attempts = a.attempts + 1
      BY <1>2, <2>1
    <3>3. QED
      BY <1>2, <3>1, <3>2
  <2>3. Contract!In(b, {"PENDING_PAYMENT", "PAYMENT_FAILED"})
    BY <1>3, <1>7 DEF CreatePaymentUrl
  <2>4. QED
    BY <1>2, <1>7, <2>1, <2>2, <2>3 DEF Contract!Ask, CreatePaymentUrl
<1>8. ASSUME DropLink(b)
      PROVE  Contract!GiveUp(b)
  <2>1. /\ rows'[b].level = rows[b].level /\ rows'[b].status = rows[b].status
        /\ rows'[b].attempts = rows[b].attempts - 1
    BY <1>1, <1>2, <1>8 DEF DropLink, BookingRow
  <2>2. Accounts' = [Accounts EXCEPT ![b].attempts = a.attempts - 1]
    <3>1. [a EXCEPT !.attempts = c.attempts] = c
      BY <1>2, <1>5, <2>1
    <3>2. c.attempts = a.attempts - 1
      BY <1>2, <2>1
    <3>3. QED
      BY <1>2, <3>1, <3>2
  <2>3. Contract!In(b, Contract!Status)
    BY <1>2, <1>3, <1>8, SameLifecycle DEF DropLink, BookingRow
  <2>4. QED
    BY <1>2, <1>8, <2>1, <2>2, <2>3 DEF Contract!GiveUp, DropLink
<1>9. ASSUME NEW level \in 1..2, HandleIpn(b, level)
      PROVE  Contract!Capture(b, level)
  <2>1. /\ rows'[b].level = level /\ rows'[b].status = "CONFIRMED"
        /\ rows'[b].attempts = rows[b].attempts - 1
    BY <1>1, <1>2, <1>9 DEF HandleIpn, BookingRow
  <2>2. Accounts' = [Accounts EXCEPT ![b].status = "CONFIRMED", ![b].level = level,
                                     ![b].attempts = a.attempts - 1]
    <3>1. [a EXCEPT !.status = c.status, !.level = c.level, !.attempts = c.attempts] = c
      BY <1>5
    <3>2. c.status = "CONFIRMED" /\ c.level = level /\ c.attempts = a.attempts - 1
      BY <1>2, <2>1
    <3>3. DOMAIN Accounts = Rows
      BY DEF Accounts
    <3>4. QED
      BY <1>2, <3>1, <3>2, <3>3
  <2>3. Contract!In(b, Contract!Status \ Contract!Frozen)
    BY <1>2, <1>3, <1>9, SameLifecycle
       DEF HandleIpn, BookingRow, TerminalGuard, Frozen, Cancelled
  <2>4. ~ Taken[b]
    BY <1>9, NightsFree DEF HandleIpn
  <2>5. QED
    BY <1>2, <1>9, <2>1, <2>2, <2>3, <2>4 DEF Contract!Capture, HandleIpn
<1>10. QED
  BY <1>6, <1>7, <1>8, <1>9 DEF Contract!Settle

(* A commit makes a fresh booking, moves the one that its transaction read,*)
(* or writes a hold or a block.                                            *)
LEMMA CommitMeets ==
  ASSUME Discipline, NEW t \in Tx, NEW i \in Rows, Commit(t, i)
  PROVE  UNCHANGED Accounts \/ Contract!Reserve(i)
<1> DEFINE x == tx[t]
<1>1. /\ Shape /\ TypeOK /\ x \in OpenTx /\ x # Idle
      /\ rows[i] = x.read /\ (x.op = "transition" => i = x.target)
      /\ x.op \notin {"createHold", "block"} => NoOccupyingOverlap(i, x.unit, x.stay)
      /\ x.unit \in Units
  BY DEF Discipline, Shape, Commit, TypeOK, OpenTx
<1>2. rows'[i] = Written(x)
  BY <1>1 DEF Commit, Expired
<1>3. ASSUME NEW j \in Rows \ {i}
      PROVE  AccountOf(rows'[j]) = AccountOf(rows[j])
  <2>1. CASE rows'[j] = rows[j]
    BY <2>1
  <2>2. CASE rows'[j] # rows[j]
    <3>1. ~ IsBooking(rows[j]) /\ ~ IsBooking(rows'[j])
      BY <1>1, <2>2, CommitKeepsOthers DEF IsBooking, HoldRow
    <3>2. QED
      BY <3>1 DEF AccountOf
  <2>3. QED
    BY <2>1, <2>2
<1>4. Accounts' = [Accounts EXCEPT ![i] = AccountOf(rows'[i])]
  BY <1>3, OneAccount
<1>5. CASE x.op \in {"createHold", "block"}
  <2>1. rows[i] = NoRow
    BY <1>1, <1>5, CommitEffect
  <2>2. ~ IsBooking(rows[i]) /\ ~ IsBooking(rows'[i])
    BY <1>2, <1>5, <2>1 DEF Written, NewRow, IsBooking
  <2>3. AccountOf(rows'[i]) = Accounts[i]
    BY <2>2 DEF AccountOf, Accounts
  <2>4. QED
    BY <1>4, <2>3 DEF Accounts
<1>6. CASE x.op = "transition"
  <2>1. /\ x.to \in Status /\ x.to \in OCCUPYING
        /\ IsBooking(rows[i]) /\ MayMove(rows[i].status, x.to)
        /\ x.to \in {"CONFIRMED", "CHECKED_IN"} => rows[i].level >= 1
        /\ rows[i].unit = x.unit /\ rows[i].stay = x.stay
    BY <1>1, <1>6, LifecycleTypes DEF Shape, TransactionsReadTheirTarget
  <2>2. rows'[i] = [rows[i] EXCEPT !.status = x.to]
    BY <1>1, <1>2, <1>6 DEF Written
  <2>3. x.to # "CHECKED_OUT"
    BY <2>1 DEF OCCUPYING
  <2>4. Contract!Move(i, x.to)
    BY <1>1, <1>3, <1>6, <2>1, <2>2, <2>3, MoveMeets
  <2>5. QED
    BY <2>1, <2>4, SameLifecycle DEF Contract!Reserve
<1>7. CASE x.op \notin {"createHold", "block", "transition"}
  <2>1. rows[i] = NoRow
    BY <1>1, <1>7, CommitEffect
  <2> DEFINE r == [kind |-> "booking", unit |-> x.unit, stay |-> x.stay,
                   status |-> "PENDING_PAYMENT", level |-> StartLevel[x.unit],
                   attempts |-> 0]
             c == AccountOf(r)
  <2>2. rows'[i] = r
    BY <1>2, <1>7 DEF Written, NewRow
  <2>3. r \in BookingRow
    BY <1>1, LifecycleTypes, ReservationsAssumption DEF BookingRow, OpenTx
  <2>4. /\ c \in Contract!Account /\ c.status = "PENDING_PAYMENT" /\ c.attempts = 0
        /\ c.level = StartLevel[x.unit] /\ c.deposit = (StartLevel[x.unit] = 0)
    BY <2>3, AccountShape
  <2> HIDE DEF c
  <2>5. c \in [status: {"PENDING_PAYMENT"}, deposit: BOOLEAN, level: 0..2, attempts: {0}]
    BY <2>4 DEF Contract!Account
  <2>6. c.deposit <=> c.level = 0
    BY <2>4
  <2>7. c \in Contract!Fresh
    BY <2>5, <2>6 DEF Contract!Fresh
  <2>8. Accounts[i] = NoRow
    BY <2>1 DEF Accounts, AccountOf, IsBooking
  <2>9. Contract!Make(i, c)
    BY <1>4, <2>2, <2>8 DEF Contract!Make, c
  <2>10. QED
    BY <2>7, <2>9 DEF Contract!Reserve
<1>8. QED
  BY <1>5, <1>6, <1>7

LEMMA ContractStep ==
  ASSUME Discipline, Discipline', [Next]_vars
  PROVE  [Contract!Next]_<<Accounts, Taken>>
<1> DEFINE Step == UNCHANGED Accounts \/ \E b \in Rows : Contract!Reserve(b) \/ Contract!Settle(b)
<1>1. TypeOK
  BY DEF Discipline
<1>2. ASSUME UNCHANGED rows
      PROVE  Step
  BY <1>2 DEF Accounts, AccountOf, IsBooking
<1>3. ASSUME NEW t \in Tx, NEW i \in Rows, Commit(t, i)
      PROVE  Step
  BY <1>3, CommitMeets
<1>4. ASSUME NEW b \in Rows, NEW to \in Status, Transition(b, to)
      PROVE  Step
  <2>1. rows'[b] = [rows[b] EXCEPT !.status = to] /\ \A j \in Rows \ {b} : rows'[j] = rows[j]
    BY <1>1, <1>4 DEF Transition, TypeOK
  <2>2. Contract!Move(b, to)
    BY <1>1, <1>4, <2>1, MoveMeets DEF Transition, TransitionAllowed
  <2>3. QED
    BY <2>2, SameLifecycle DEF Contract!Reserve
<1>5. ASSUME NEW b \in Rows,
             \/ \E level \in 1..2 : Payment(b, level) \/ HandleIpn(b, level)
             \/ CreatePaymentUrl(b) \/ DropLink(b)
      PROVE  Step
  BY <1>1, <1>5, SettlementMeets
<1>6. ASSUME NEW b \in Rows, Unblock(b)
      PROVE  Step
  <2>1. ~ IsBooking(rows[b]) /\ rows'[b] = NoRow /\ \A j \in Rows \ {b} : rows'[j] = rows[j]
    BY <1>1, <1>6 DEF Unblock, Block, IsBooking, TypeOK
  <2>2. \A j \in Rows : AccountOf(rows'[j]) = AccountOf(rows[j])
    BY <2>1 DEF AccountOf, IsBooking
  <2>3. Accounts' = [j \in Rows |-> AccountOf(rows'[j])]
    BY DEF Accounts, AccountOf, IsBooking
  <2>4. QED
    BY <2>2, <2>3 DEF Accounts
<1>7. Step
  BY <1>2, <1>3, <1>4, <1>5, <1>6
     DEF Next, BeginInsert, BeginTransition, Begin, Check, Abort, Tick
<1>8. (Contract!Clear /\ Taken \in [Rows -> BOOLEAN])'
  BY NightsStayClear
<1>9. QED
  BY <1>7, <1>8 DEF Contract!Next

(* The reservations keep their half of the contract, and the receipts,     *)
(* links and notifications they reckon with are the contract's: nothing    *)
(* moves a booking between the read and the commit of a transition, and no *)
(* nights of an occupying booking are given away.                          *)
THEOREM ReservationsMeetContract == Spec => MeetsContract
<1>1. Init => Contract!Init
  <2> SUFFICES ASSUME Init PROVE Contract!Init
    OBVIOUS
  <2>1. \A i \in Rows : Accounts[i] = NoRow
    BY DEF Init, Accounts, AccountOf, IsBooking
  <2>2. Accounts \in [Rows -> Contract!Fresh \cup {NoRow}]
    BY <2>1 DEF Accounts
  <2>3. QED
    BY <2>2, DisciplineInit, NightsAreClear DEF Contract!Init
<1>2. QED
  BY <1>1, ContractStep, DisciplineHolds, PTL DEF Spec, MeetsContract, Contract!Spec

(* Bookings that differ in what a payment changes.                         *)
LEMMA RowUpdates ==
  ASSUME NEW p \in BookingRow, NEW r \in BookingRow, r.unit = p.unit, r.stay = p.stay
  PROVE  /\ r.status = p.status /\ r.attempts = p.attempts
              => r = [p EXCEPT !.level = r.level]
         /\ r.status = p.status /\ r.level = p.level
              => r = [p EXCEPT !.attempts = r.attempts]
         /\ r = [p EXCEPT !.status = r.status, !.level = r.level,
                          !.attempts = r.attempts]
  BY DEF BookingRow

(* What Reservations assumes of payments is no more than the contract: it  *)
(* reckons with every receipt, link and capture that the contract's other  *)
(* half may bring, as long as the row has room to count it (MaxAttempts).  *)
THEOREM PaymentsAreReckonedWith ==
  ASSUME TypeOK, NEW b \in Rows, NEW r, BookingUpdate(b, r),
         reinstated' = IF Occupying(r) /\ ~ Occupying(rows[b])
                       THEN reinstated \cup {b} ELSE reinstated,
         Contract!Settle(b)
  PROVE  \/ \E level \in 1..2 : Payment(b, level) \/ HandleIpn(b, level)
         \/ CreatePaymentUrl(b) \/ DropLink(b)
<1>1. /\ rows'[b] = r /\ rows' = [rows EXCEPT ![b] = r]
      /\ IsBooking(rows[b]) /\ UNCHANGED <<clock, tx>>
      /\ rows[b] \in BookingRow /\ r \in BookingRow
      /\ r.unit = rows[b].unit /\ r.stay = rows[b].stay
  BY BookingUpdateAccount DEF BookingUpdate, SameStay
<1>2. PICK a \in Contract!Account, c \in Contract!Account :
        /\ a = Accounts[b] /\ a.deposit = c.deposit
        /\ Accounts' = [Accounts EXCEPT ![b] = c]
        /\ a.deposit = (StartLevel[rows[b].unit] = 0)
        /\ a.status = rows[b].status /\ c.status = r.status
        /\ a.level = rows[b].level /\ c.level = r.level
        /\ a.attempts = rows[b].attempts /\ c.attempts = r.attempts
  BY <1>1, UpdatedAccount
<1>3. \A S : Contract!In(b, S) <=> IsBooking(rows[b]) /\ rows[b].status \in S
  BY InStatus
<1>4. Accounts'[b] = c /\ DOMAIN Accounts = Rows
  BY <1>2 DEF Accounts
<1>5. /\ r.status = rows[b].status /\ r.attempts = rows[b].attempts
           => r = [rows[b] EXCEPT !.level = r.level]
      /\ r.status = rows[b].status /\ r.level = rows[b].level
           => r = [rows[b] EXCEPT !.attempts = r.attempts]
      /\ r = [rows[b] EXCEPT !.status = r.status, !.level = r.level,
                             !.attempts = r.attempts]
  <2>1. /\ rows[b] \in BookingRow /\ r \in BookingRow
        /\ r.unit = rows[b].unit /\ r.stay = rows[b].stay
    BY <1>1
  <2> DEFINE p == rows[b]
  <2> HIDE DEF p
  <2>2. /\ r.status = p.status /\ r.attempts = p.attempts
             => r = [p EXCEPT !.level = r.level]
        /\ r.status = p.status /\ r.level = p.level
             => r = [p EXCEPT !.attempts = r.attempts]
        /\ r = [p EXCEPT !.status = r.status, !.level = r.level,
                         !.attempts = r.attempts]
    BY <2>1, RowUpdates DEF p
  <2>3. QED
    BY <2>2 DEF p
<1>6. r.status = rows[b].status => reinstated' = reinstated
  BY <1>1 DEF Occupying, IsBooking
<1>7. ASSUME NEW level \in 1..2, Contract!Receive(b, level)
      PROVE  Payment(b, level)
  <2>1. c = [a EXCEPT !.level = level] /\ level > a.level
    BY <1>2, <1>4, <1>7 DEF Contract!Receive
  <2>2. /\ r.level = level /\ r.status = rows[b].status
        /\ r.attempts = rows[b].attempts /\ level > rows[b].level
    BY <1>2, <2>1 DEF Contract!Account
  <2>3. Occupying(rows[b])
    BY <1>3, <1>7, SameLifecycle DEF Contract!Receive, Occupying
  <2>4. rows' = [rows EXCEPT ![b].level = level]
    BY <1>1, <1>5, <2>2
  <2>5. level \in (rows[b].level + 1) .. 2
    BY <1>1, <2>2 DEF BookingRow
  <2>6. QED
    BY <1>1, <1>6, <2>2, <2>3, <2>4, <2>5 DEF Payment
<1>8. ASSUME Contract!Ask(b)
      PROVE  CreatePaymentUrl(b)
  <2>1. /\ c = [a EXCEPT !.attempts = a.attempts + 1]
        /\ a.deposit /\ a.level < 2
    BY <1>2, <1>4, <1>8 DEF Contract!Ask
  <2>2. /\ r.level = rows[b].level /\ r.status = rows[b].status
        /\ r.attempts = rows[b].attempts + 1 /\ rows[b].level < 2
    BY <1>2, <2>1 DEF Contract!Account
  <2>3. StartLevel[rows[b].unit] = 0
    BY <1>2, <2>1
  <2>4. rows[b].status \in {"PENDING_PAYMENT", "PAYMENT_FAILED"}
    BY <1>3, <1>8 DEF Contract!Ask
  <2>5. rows' = [rows EXCEPT ![b].attempts = rows[b].attempts + 1]
    BY <1>1, <1>5, <2>2
  <2>6. rows[b].attempts < MaxAttempts
    BY <1>1, <2>2, ReservationsAssumption DEF BookingRow
  <2>7. QED
    BY <1>1, <1>6, <2>2, <2>3, <2>4, <2>5, <2>6 DEF CreatePaymentUrl
<1>9. ASSUME Contract!GiveUp(b)
      PROVE  DropLink(b)
  <2>1. c = [a EXCEPT !.attempts = a.attempts - 1] /\ a.attempts > 0
    BY <1>2, <1>4, <1>9 DEF Contract!GiveUp
  <2>2. /\ r.level = rows[b].level /\ r.status = rows[b].status
        /\ r.attempts = rows[b].attempts - 1 /\ rows[b].attempts > 0
    BY <1>2, <2>1 DEF Contract!Account
  <2>3. rows' = [rows EXCEPT ![b].attempts = rows[b].attempts - 1]
    BY <1>1, <1>5, <2>2
  <2>4. QED
    BY <1>1, <1>6, <2>2, <2>3 DEF DropLink
<1>10. ASSUME NEW level \in 1..2, Contract!Capture(b, level)
       PROVE  HandleIpn(b, level)
  <2>1. /\ c = [a EXCEPT !.status = "CONFIRMED", !.level = level,
                         !.attempts = a.attempts - 1]
        /\ a.attempts > 0 /\ ~ Taken[b]
    BY <1>2, <1>4, <1>10 DEF Contract!Capture
  <2>2. /\ r.level = level /\ r.status = "CONFIRMED"
        /\ r.attempts = rows[b].attempts - 1 /\ rows[b].attempts > 0
    BY <1>2, <2>1 DEF Contract!Account
  <2>3. rows' = [rows EXCEPT ![b].status = "CONFIRMED", ![b].level = level,
                             ![b].attempts = rows[b].attempts - 1]
    BY <1>1, <1>5, <2>2 DEF TypeOK
  <2>4. TerminalGuard(rows[b].status, "CONFIRMED")
    BY <1>3, <1>10, SameLifecycle DEF Contract!Capture, TerminalGuard
  <2>5. NoOccupyingOverlap(b, rows[b].unit, rows[b].stay)
    BY <1>1, <2>1 DEF Taken
  <2>6. reinstated' = IF Occupying(rows[b]) THEN reinstated ELSE reinstated \cup {b}
    <3>1. Occupying(r)
      BY <1>1, <2>2, NoRowAssumption, LifecycleTypes
         DEF Occupying, IsBooking, Row, BookingRow
    <3>2. QED
      BY <3>1
  <2>7. QED
    BY <1>1, <2>2, <2>3, <2>4, <2>5, <2>6 DEF HandleIpn
<1>11. QED
  BY <1>7, <1>8, <1>9, <1>10 DEF Contract!Settle

-----------------------------------------------------------------------------
(* What the contract promises, said of the reservations.                   *)

(* The two ways an account goes on: staff move it, or money does.          *)
MovedOn(a, c) ==
  \E to \in Contract!Status :
    /\ Contract!MayMove(a.status, to)
    /\ to \in {"CONFIRMED", "CHECKED_IN"} => a.level >= 1
    /\ to = "CHECKED_OUT" => a.level = 2
    /\ c = [a EXCEPT !.status = to]

Settled(a, c) ==
  \/ \E level \in 1..2 :
       /\ a.status \in Contract!OCCUPYING /\ level > a.level
       /\ c = [a EXCEPT !.level = level]
  \/ \E level \in 1..2 :
       /\ a.status \notin Contract!Frozen /\ a.attempts > 0
       /\ c = [a EXCEPT !.status = "CONFIRMED", !.level = level, !.attempts = @ - 1]
  \/ a.deposit /\ c = [a EXCEPT !.attempts = @ + 1]
  \/ a.attempts > 0 /\ c = [a EXCEPT !.attempts = @ - 1]

(* A step of the contract, seen from one booking.                          *)
LEMMA AccountSteps ==
  ASSUME Contract!TypeOK, [Contract!Next]_<<Accounts, Taken>>, NEW b \in Rows
  PROVE  \/ Accounts'[b] = Accounts[b]
         \/ Accounts[b] = NoRow /\ Accounts'[b] \in Contract!Fresh
         \/ /\ Accounts[b] \in Contract!Account
            /\ MovedOn(Accounts[b], Accounts'[b]) \/ Settled(Accounts[b], Accounts'[b])
<1> DEFINE Typed == /\ Accounts \in [Rows -> Contract!Account \cup {NoRow}]
                    /\ Accounts[b] # NoRow => Accounts[b] \in Contract!Account
<1>1. Typed
  BY DEF Contract!TypeOK
<1>2. CASE UNCHANGED Accounts
  BY <1>2
<1>3. ASSUME NEW d \in Rows, Contract!Reserve(d)
      PROVE  \/ Accounts'[b] = Accounts[b]
             \/ Accounts[b] = NoRow /\ Accounts'[b] \in Contract!Fresh
             \/ Accounts[b] # NoRow /\ MovedOn(Accounts[b], Accounts'[b])
  <2>1. CASE d # b
    BY <1>1, <1>3, <2>1 DEF Contract!Reserve, Contract!Make, Contract!Move
  <2>2. CASE d = b
    <3>1. ASSUME NEW a \in Contract!Fresh, Contract!Make(b, a)
          PROVE  Accounts[b] = NoRow /\ Accounts'[b] = a
      BY <1>1, <3>1 DEF Contract!Make
    <3>2. ASSUME NEW to \in Contract!Status, Contract!Move(b, to)
          PROVE  Accounts[b] # NoRow /\ MovedOn(Accounts[b], Accounts'[b])
      BY <1>1, <3>2 DEF Contract!Move, Contract!In, MovedOn
    <3>3. QED
      BY <1>3, <2>2, <3>1, <3>2 DEF Contract!Reserve
  <2>3. QED
    BY <2>1, <2>2
<1>4. ASSUME NEW d \in Rows, Contract!Settle(d)
      PROVE  \/ Accounts'[b] = Accounts[b]
             \/ Accounts[b] # NoRow /\ Settled(Accounts[b], Accounts'[b])
  <2>1. CASE d # b
    BY <1>1, <1>4, <2>1 DEF Contract!Settle, Contract!Receive, Contract!Capture, Contract!Ask,
                            Contract!GiveUp
  <2>2. CASE d = b
    <3>1. ASSUME NEW level \in 1..2, Contract!Receive(b, level)
          PROVE  Accounts[b] # NoRow /\ Settled(Accounts[b], Accounts'[b])
      BY <1>1, <3>1 DEF Contract!Receive, Contract!In, Settled
    <3>2. ASSUME NEW level \in 1..2, Contract!Capture(b, level)
          PROVE  Accounts[b] # NoRow /\ Settled(Accounts[b], Accounts'[b])
      BY <1>1, <3>2 DEF Contract!Capture, Contract!In, Settled
    <3>3. ASSUME Contract!Ask(b)
          PROVE  Accounts[b] # NoRow /\ Settled(Accounts[b], Accounts'[b])
      BY <1>1, <3>3 DEF Contract!Ask, Contract!In, Settled
    <3>4. ASSUME Contract!GiveUp(b)
          PROVE  Accounts[b] # NoRow /\ Settled(Accounts[b], Accounts'[b])
      BY <1>1, <3>4 DEF Contract!GiveUp, Contract!In, Settled
    <3>5. QED
      BY <1>4, <2>2, <3>1, <3>2, <3>3, <3>4 DEF Contract!Settle
  <2>3. QED
    BY <2>1, <2>2
<1>5. QED
  BY <1>1, <1>2, <1>3, <1>4 DEF Contract!Next

(* What staff leave of an account.                                         *)
LEMMA MovedOnKeeps ==
  ASSUME NEW a \in Contract!Account, NEW c, MovedOn(a, c)
  PROVE  /\ c \in Contract!Account /\ c.deposit = a.deposit /\ c.level = a.level
         /\ c.attempts = a.attempts /\ a.status \notin Contract!Frozen
         /\ c.status \in {"CONFIRMED", "CHECKED_IN"} => a.level >= 1
         /\ c.status = "CHECKED_OUT" => a.level = 2
         /\ c.status = "COMPLETED" => a.status = "CHECKED_OUT"
<1>1. PICK to \in Contract!Status :
        /\ Contract!MayMove(a.status, to)
        /\ to \in {"CONFIRMED", "CHECKED_IN"} => a.level >= 1
        /\ to = "CHECKED_OUT" => a.level = 2
        /\ c = [a EXCEPT !.status = to]
  BY DEF MovedOn
<1>2. /\ c \in Contract!Account /\ c.status = to /\ c.deposit = a.deposit
      /\ c.level = a.level /\ c.attempts = a.attempts
  BY <1>1 DEF Contract!Account
<1>3. a.status \in Contract!Status
  BY DEF Contract!Account
<1>4. a.status \notin Contract!Frozen /\ (to = "COMPLETED" => a.status = "CHECKED_OUT")
  BY <1>1, <1>3 DEF Contract!MayMove, Contract!TRANSITIONS, Contract!Status,
                    Contract!Cancelled, Contract!Frozen
<1>5. QED
  BY <1>1, <1>2, <1>4

(* What money leaves of it.                                                *)
LEMMA SettledKeeps ==
  ASSUME NEW a \in Contract!Account, NEW c, Settled(a, c)
  PROVE  /\ c \in Contract!Account /\ c.deposit = a.deposit
         /\ \/ c.status = a.status /\ c.level >= a.level
            \/ c.status = "CONFIRMED" /\ c.level >= 1 /\ a.status \notin Contract!Frozen
         /\ c.attempts > 0 => a.attempts > 0 \/ a.deposit
<1>1. /\ a.level \in 0..2 /\ a.attempts \in Nat /\ "CONFIRMED" \in Contract!Status
      /\ a.attempts + 1 \in Nat
  BY DEF Contract!Account, Contract!Status
<1>2. ASSUME NEW level \in 1..2
      PROVE  LET x == [a EXCEPT !.level = level] IN
             /\ x \in Contract!Account /\ x.deposit = a.deposit /\ x.level = level
             /\ x.status = a.status /\ x.attempts = a.attempts
  BY DEF Contract!Account
<1>3. ASSUME NEW n \in Nat
      PROVE  LET x == [a EXCEPT !.attempts = n] IN
             /\ x \in Contract!Account /\ x.deposit = a.deposit /\ x.level = a.level
             /\ x.status = a.status /\ x.attempts = n
  BY DEF Contract!Account
<1>4. ASSUME NEW level \in 1..2, NEW n \in Nat
      PROVE  LET x == [a EXCEPT !.status = "CONFIRMED", !.level = level, !.attempts = n] IN
             /\ x \in Contract!Account /\ x.deposit = a.deposit /\ x.level = level
             /\ x.status = "CONFIRMED"
  <2> DEFINE b == [status |-> "CONFIRMED", deposit |-> a.deposit,
                   level |-> level, attempts |-> n]
  <2>1. a.deposit \in BOOLEAN
    BY DEF Contract!Account
  <2>2. b \in Contract!Account
    <3>1. level \in 0..2
      OBVIOUS
    <3>2. QED
      BY <1>1, <2>1, <3>1 DEF Contract!Account
  <2>3. [a EXCEPT !.status = b.status, !.level = b.level, !.attempts = b.attempts] = b
    <3>1. a.deposit = b.deposit
      OBVIOUS
    <3> HIDE DEF b
    <3>2. QED
      BY <2>2, <3>1, AccountUpdates
  <2>4. QED
    BY <2>2, <2>3
<1>5. CASE \E level \in 1..2 :
             /\ a.status \in Contract!OCCUPYING /\ level > a.level
             /\ c = [a EXCEPT !.level = level]
  BY <1>1, <1>2, <1>5
<1>6. CASE \E level \in 1..2 :
             /\ a.status \notin Contract!Frozen /\ a.attempts > 0
             /\ c = [a EXCEPT !.status = "CONFIRMED", !.level = level, !.attempts = @ - 1]
  <2>1. PICK level \in 1..2 :
          /\ a.status \notin Contract!Frozen /\ a.attempts > 0
          /\ c = [a EXCEPT !.status = "CONFIRMED", !.level = level,
                           !.attempts = a.attempts - 1]
    BY <1>6
  <2>2. a.attempts - 1 \in Nat
    BY <1>1, <2>1
  <2>3. /\ c \in Contract!Account /\ c.deposit = a.deposit /\ c.level = level
        /\ c.status = "CONFIRMED"
    BY <1>4, <2>1, <2>2
  <2>4. QED
    BY <2>1, <2>3
<1>7. CASE a.deposit /\ c = [a EXCEPT !.attempts = @ + 1]
  <2>1. /\ c \in Contract!Account /\ c.deposit = a.deposit /\ c.level = a.level
        /\ c.status = a.status
    BY <1>1, <1>3, <1>7
  <2>2. c.level >= a.level
    BY <1>1, <2>1
  <2>3. QED
    BY <1>7, <2>1, <2>2, Zenon
<1>8. CASE a.attempts > 0 /\ c = [a EXCEPT !.attempts = @ - 1]
  <2>1. a.attempts - 1 \in Nat
    BY <1>1, <1>8
  <2>2. QED
    BY <1>1, <1>3, <1>8, <2>1
<1>9. QED
  BY <1>5, <1>6, <1>7, <1>8 DEF Settled

(* Rows that are typed have accounts that are.                             *)
LEMMA AccountsAreTyped == TypeOK => Contract!TypeOK
<1> SUFFICES ASSUME TypeOK PROVE Contract!TypeOK
  OBVIOUS
<1>1. \A b \in Rows : AccountOf(rows[b]) \in Contract!Account \cup {NoRow}
  BY BookingsHaveAccounts, AccountShape DEF AccountOf
<1>2. Accounts \in [Rows -> Contract!Account \cup {NoRow}]
  BY <1>1 DEF Accounts
<1>3. Taken \in [Rows -> BOOLEAN]
  BY DEF Taken
<1>4. QED
  BY <1>2, <1>3 DEF Contract!TypeOK

(* A new account waits for its first payment.                              *)
LEMMA FreshAccounts ==
  ASSUME NEW a \in Contract!Fresh
  PROVE  a \in Contract!Account /\ a.status = "PENDING_PAYMENT" /\ a.attempts = 0
BY DEF Contract!Fresh, Contract!Account, Contract!Status

(* No booking of the code is confirmed or has its guest in the room before *)
(* the deposit is paid, and none is left before the total is, although the *)
(* transition reads the money before it waits for the lock of the unit.    *)
THEOREM RoomsArePaidFor == Spec => []Contract!PaidAsFar
<1>1. Init => Contract!PaidAsFar
  <2> SUFFICES ASSUME Init PROVE Contract!PaidAsFar
    OBVIOUS
  <2>1. \A i \in Rows : Accounts[i] = NoRow
    BY DEF Init, Accounts, AccountOf, IsBooking
  <2>2. QED
    BY <2>1 DEF Contract!PaidAsFar, Contract!In
<1>2. ASSUME Contract!TypeOK, Contract!PaidAsFar, [Contract!Next]_<<Accounts, Taken>>
      PROVE  Contract!PaidAsFar'
  <2> SUFFICES ASSUME NEW b \in Rows, Accounts'[b] # NoRow
               PROVE  /\ Accounts'[b].status \in
                           {"CONFIRMED", "CHECKED_IN", "CHECKED_OUT", "COMPLETED"}
                           => Accounts'[b].level >= 1
                      /\ Accounts'[b].status \in {"CHECKED_OUT", "COMPLETED"}
                           => Accounts'[b].level = 2
    BY DEF Contract!PaidAsFar, Contract!In
  <2>1. /\ Accounts[b] # NoRow =>
             /\ Accounts[b].status \in {"CONFIRMED", "CHECKED_IN", "CHECKED_OUT", "COMPLETED"}
                  => Accounts[b].level >= 1
             /\ Accounts[b].status \in {"CHECKED_OUT", "COMPLETED"} => Accounts[b].level = 2
    BY <1>2 DEF Contract!PaidAsFar, Contract!In
  <2>2. CASE Accounts'[b] = Accounts[b]
    BY <2>1, <2>2
  <2>3. CASE Accounts'[b] \in Contract!Fresh
    BY <2>3, FreshAccounts
  <2>4. CASE Accounts[b] \in Contract!Account /\ MovedOn(Accounts[b], Accounts'[b])
    BY <2>1, <2>4, MovedOnKeeps, NoAccountAssumption
  <2>5. CASE Accounts[b] \in Contract!Account /\ Settled(Accounts[b], Accounts'[b])
    <3>1. Accounts'[b].level \in 0..2 /\ Accounts[b].level \in 0..2 /\ Accounts[b] # NoRow
      BY <2>5, SettledKeeps, NoAccountAssumption DEF Contract!Account
    <3>2. QED
      BY <2>1, <2>5, <3>1, SettledKeeps
  <2>6. QED
    BY <1>2, <2>2, <2>3, <2>4, <2>5, AccountSteps
<1>3. TypeOK /\ Contract!PaidAsFar /\ [Contract!Next]_<<Accounts, Taken>> => Contract!PaidAsFar'
  BY <1>2, AccountsAreTyped
<1>4. QED
  BY <1>1, <1>3, ContractStep, DisciplineHolds, ReservationsTypeCorrect, PTL DEF Spec

(* Money moves a booking only while a deposit was asked for it: a unit that*)
(* asks for none never has a payment link waiting.                         *)
THEOREM LinksAreForDeposits == Spec => []Contract!OnlyDepositsAreCaptured
<1>1. Init => Contract!OnlyDepositsAreCaptured
  <2> SUFFICES ASSUME Init PROVE Contract!OnlyDepositsAreCaptured
    OBVIOUS
  <2>1. \A i \in Rows : Accounts[i] = NoRow
    BY DEF Init, Accounts, AccountOf, IsBooking
  <2>2. QED
    BY <2>1 DEF Contract!OnlyDepositsAreCaptured, Contract!In
<1>2. ASSUME Contract!TypeOK, Contract!OnlyDepositsAreCaptured,
             [Contract!Next]_<<Accounts, Taken>>
      PROVE  Contract!OnlyDepositsAreCaptured'
  <2> SUFFICES ASSUME NEW b \in Rows, Accounts'[b] # NoRow, ~ Accounts'[b].deposit
               PROVE  Accounts'[b].attempts = 0
    BY DEF Contract!OnlyDepositsAreCaptured, Contract!In
  <2>1. Accounts[b] \in Contract!Account /\ ~ Accounts[b].deposit => Accounts[b].attempts = 0
    BY <1>2, NoAccountAssumption DEF Contract!OnlyDepositsAreCaptured, Contract!In,
                                     Contract!Account
  <2>2. CASE Accounts'[b] = Accounts[b]
    BY <1>2, <2>1, <2>2 DEF Contract!TypeOK
  <2>3. CASE Accounts'[b] \in Contract!Fresh
    BY <2>3, FreshAccounts
  <2>4. CASE Accounts[b] \in Contract!Account /\ MovedOn(Accounts[b], Accounts'[b])
    BY <2>1, <2>4, MovedOnKeeps
  <2>5. CASE Accounts[b] \in Contract!Account /\ Settled(Accounts[b], Accounts'[b])
    <3>1. Accounts'[b].attempts \in Nat /\ Accounts[b].attempts \in Nat
      BY <2>5, SettledKeeps DEF Contract!Account
    <3>2. QED
      BY <2>1, <2>5, <3>1, SettledKeeps
  <2>6. QED
    BY <1>2, <2>2, <2>3, <2>4, <2>5, AccountSteps
<1>3. TypeOK /\ Contract!OnlyDepositsAreCaptured /\ [Contract!Next]_<<Accounts, Taken>>
        => Contract!OnlyDepositsAreCaptured'
  BY <1>2, AccountsAreTyped
<1>4. QED
  BY <1>1, <1>3, ContractStep, DisciplineHolds, ReservationsTypeCorrect, PTL DEF Spec

(* A booking row stays, keeps a closed status, and never falls back below  *)
(* its deposit, whichever transactions overlap on it.                      *)
THEOREM BookingsAreNeverUndone == Spec => Contract!NeverUndone
<1> DEFINE Kept == \A b \in Rows : Contract!In(b, Contract!Status) =>
             /\ Contract!In(b, Contract!Status)' /\ (Accounts'[b].deposit <=> Accounts[b].deposit)
             /\ Contract!In(b, Contract!Frozen) => Accounts'[b].status = Accounts[b].status
             /\ Accounts[b].level >= 1 => Accounts'[b].level >= 1
<1>1. ASSUME Contract!TypeOK, [Contract!Next]_<<Accounts, Taken>>
      PROVE  Kept
  <2> SUFFICES ASSUME NEW b \in Rows, Accounts[b] # NoRow
               PROVE  /\ Accounts'[b] \in Contract!Account
                      /\ Accounts'[b].deposit = Accounts[b].deposit
                      /\ Accounts[b].status \in Contract!Frozen
                           => Accounts'[b].status = Accounts[b].status
                      /\ Accounts[b].level >= 1 => Accounts'[b].level >= 1
    BY NoAccountAssumption DEF Contract!In, Contract!Account
  <2>1. Accounts[b] \in Contract!Account /\ Accounts[b].level \in 0..2
    BY <1>1 DEF Contract!TypeOK, Contract!Account
  <2>2. CASE Accounts'[b] = Accounts[b]
    BY <2>1, <2>2
  <2>3. CASE MovedOn(Accounts[b], Accounts'[b])
    BY <2>1, <2>3, MovedOnKeeps
  <2>4. CASE Settled(Accounts[b], Accounts'[b])
    <3>1. Accounts'[b] \in Contract!Account /\ Accounts'[b].level \in 0..2
      BY <2>1, <2>4, SettledKeeps DEF Contract!Account
    <3>2. QED
      BY <2>1, <2>4, <3>1, SettledKeeps
  <2>5. QED
    BY <1>1, <2>2, <2>3, <2>4, AccountSteps
<1>2. TypeOK /\ [Contract!Next]_<<Accounts, Taken>> => [Kept]_Accounts
  BY <1>1, AccountsAreTyped
<1>3. QED
  BY <1>2, ContractStep, DisciplineHolds, ReservationsTypeCorrect, PTL
     DEF Spec, Contract!NeverUndone
=============================================================================
