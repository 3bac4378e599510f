------------------------- MODULE VnpayPaymentsProofs -------------------------
(***************************************************************************)
(* Proofs about VnpayPayments, for every number of bookings, links,        *)
(* receipts, handlers and link requests, and every deposit and total. The  *)
(* invariant that carries them says what an amount computed earlier still  *)
(* covers when it is applied, and what a sum taken by an open transaction  *)
(* still equals.                                                           *)
(***************************************************************************)
EXTENDS VnpayPayments, FiniteSums

(* The amounts of the rows S in the table pm, added up.                    *)
AmountsSum(pm, S) == SumFunctionOnSet([p \in S |-> pm[p].amount], S)

(* Statuses from which no link of the booking has been paid.               *)
Early == {"DRAFT", "PENDING_PAYMENT", "PAYMENT_FAILED"}

ReceiptsOf(b) == Requests \cap Of(b)

(* The amount is the deposit, or all that the receipts leave unpaid.       *)
Covers(a, b) == a >= Deposit \/ a + SumOf(ReceiptsOf(b)) >= Total

Summed(h) == ipn[h] # Idle /\ ipn[h].phase = "summed"

(* A notification is about a link that was made, and a sum is taken for a  *)
(* success.                                                                *)
NotesForRows ==
  /\ \A m \in sent : Used(m.pay)
  /\ \A h \in Handlers : ipn[h] # Idle => [pay |-> ipn[h].pay, ok |-> ipn[h].ok] \in sent
  /\ \A h \in Handlers : Summed(h) => ipn[h].ok = TRUE

(* The links a batch is cancelling are unpaid and its own to write.        *)
CancelsAreHeld ==
  \A c \in Payers : payer[c] # Idle =>
    \A p \in payer[c].cancels :
      /\ Used(p) /\ payment[p].status = "PENDING"
      /\ \A h \in Handlers : ~ Holds(h, p)
      /\ \A d \in Payers \ {c} : payer[d] # Idle => p \notin payer[d].cancels

ReceiptsArePaid == \A q \in Requests : Used(q) => payment[q].status = "PAID"

(* Before the first capture, only receipts have reduced the balance.       *)
EarlyLedger ==
  \A b \in Bookings : booking[b].status \in Early =>
    /\ booking[b].paid = SumOf(ReceiptsOf(b))
    /\ booking[b].remaining = Total - booking[b].paid

(* A link of the booking has this amount, or is about to.                  *)
Asked(a, b) ==
  \/ \E p \in Links : Used(p) /\ payment[p].amount = a /\ payment[p].booking = b
  \/ \E c \in Payers : payer[c] # Idle /\ payer[c].amount = a /\ payer[c].booking = b

(* The amount of a link, computed before it was made, still covers.        *)
AmountsCover == \A a \in 1..Total, b \in Bookings : Asked(a, b) => Covers(a, b)

(* The sum an open transaction has taken is still right.                   *)
SumsAgree ==
  \A h \in Handlers : Summed(h) =>
    LET b == payment[ipn[h].pay].booking IN
    b \notin raced => ipn[h].sum = SumOf(Paid(b) \cup {ipn[h].pay})

IInv ==
  /\ TypeOK /\ NotesForRows /\ CancelsAreHeld /\ ReceiptsArePaid
  /\ EarlyLedger /\ AmountsCover /\ SumsAgree
  /\ CaptureCovers /\ DepositBeforeRoom /\ ClearedBeforeLeaving
  /\ LedgerDriftsOnlyByRaces

-----------------------------------------------------------------------------
(* The rows of a table in the sense of SumsAgree: all used, all typed.     *)
RowsOf(pm, S) == S \subseteq Links \cup Requests /\ \A p \in S : pm[p] \in Payment

(* A set of references is finite, and the amounts of its rows are numbers. *)
LEMMA RowsAreSummable ==
  ASSUME NEW pm, NEW S, RowsOf(pm, S)
  PROVE  /\ IsFiniteSet(S)
         /\ \A p \in S : [q \in S |-> pm[q].amount][p] \in Nat
<1>1. IsFiniteSet(Links \cup Requests)
  BY PaymentsAssumption, FS_Union
<1>2. IsFiniteSet(S)
  BY <1>1, FS_Subset DEF RowsOf
<1>3. \A p \in S : pm[p].amount \in Nat
  BY PaymentsAssumption DEF RowsOf, Payment
<1>4. QED
  BY <1>2, <1>3

(* Amounts add up to a natural number.                                     *)
LEMMA AmountsInNat ==
  ASSUME NEW pm, NEW S, RowsOf(pm, S)
  PROVE  AmountsSum(pm, S) \in Nat
<1> DEFINE f == [p \in S |-> pm[p].amount]
<1>1. IsFiniteSet(S) /\ \A p \in S : f[p] \in Nat
  BY RowsAreSummable
<1> HIDE DEF f
<1>2. SumFunctionOnSet(f, S) \in Nat
  BY <1>1, SumInNat
<1>3. QED
  BY <1>2 DEF AmountsSum, f

(* Only the amounts count, so a change of status leaves a sum alone.       *)
LEMMA AmountsSame ==
  ASSUME NEW pm, NEW pn, NEW S, \A p \in S : pm[p].amount = pn[p].amount
  PROVE  AmountsSum(pm, S) = AmountsSum(pn, S)
<1>1. [p \in S |-> pm[p].amount] = [p \in S |-> pn[p].amount]
  OBVIOUS
<1>2. QED
  BY <1>1 DEF AmountsSum

(* A row more adds its amount.                                             *)
LEMMA AmountsAdd ==
  ASSUME NEW pm, NEW S, RowsOf(pm, S), NEW p \in S
  PROVE  AmountsSum(pm, S) = pm[p].amount + AmountsSum(pm, S \ {p})
<1> DEFINE T == S \ {p}
           f == [q \in S |-> pm[q].amount]
           g == [q \in T |-> pm[q].amount]
<1>1. IsFiniteSet(S) /\ \A q \in S : f[q] \in Nat
  BY RowsAreSummable
<1>2. f[p] = pm[p].amount /\ \A q \in T : f[q] = g[q]
  OBVIOUS
<1>3. IsFiniteSet(T)
  BY <1>1, FS_Subset
<1>4. SumFunctionOnSet(f, S) = f[p] + SumFunctionOnSet(f, T)
  <2> HIDE DEF f, g
  <2>1. QED
    BY <1>1, SumRemove
<1>5. SumFunctionOnSet(f, T) = SumFunctionOnSet(g, T)
  <2> HIDE DEF f, g, T
  <2>1. QED
    BY <1>2, <1>3, SumSame
<1>6. QED
  BY <1>2, <1>4, <1>5 DEF AmountsSum

(* More rows add up to no less.                                            *)
LEMMA AmountsGrow ==
  ASSUME NEW pm, NEW S, RowsOf(pm, S), NEW T \in SUBSET S
  PROVE  AmountsSum(pm, T) <= AmountsSum(pm, S)
<1> DEFINE f == [q \in S |-> pm[q].amount]
           g == [q \in T |-> pm[q].amount]
<1>1. IsFiniteSet(S) /\ \A q \in S : f[q] \in Nat
  BY RowsAreSummable
<1>2. IsFiniteSet(T)
  BY <1>1, FS_Subset
<1>3. \A q \in T : f[q] = g[q]
  OBVIOUS
<1>4. SumFunctionOnSet(f, T) <= SumFunctionOnSet(f, S)
  <2> HIDE DEF f
  <2>1. QED
    BY <1>1, SumMonotone
<1>5. SumFunctionOnSet(f, T) = SumFunctionOnSet(g, T)
  <2> HIDE DEF f, g
  <2>1. QED
    BY <1>2, <1>3, SumSame
<1>6. QED
  BY <1>4, <1>5 DEF AmountsSum

(* No rows add up to nothing.                                              *)
LEMMA AmountsEmpty ==
  ASSUME NEW pm
  PROVE  AmountsSum(pm, {}) = 0
BY SumEmpty DEF AmountsSum

-----------------------------------------------------------------------------
(* A reference that is used has a row.                                     *)
LEMMA UsedRows ==
  ASSUME TypeOK
  PROVE  /\ \A p \in Links \cup Requests : Used(p) <=> payment[p] \in Payment
         /\ \A b \in Bookings : RowsOf(payment, Of(b))
<1>1. \A p \in Links \cup Requests : Used(p) <=> payment[p] \in Payment
  BY AbsentAssumption DEF TypeOK, Used
<1>2. QED
  BY <1>1 DEF RowsOf, Of

(* What a handler works on: a link with its row, of some booking.          *)
LEMMA HandledRows ==
  ASSUME TypeOK, NotesForRows, NEW h \in Handlers, ipn[h] # Idle
  PROVE  /\ ipn[h] \in Handling /\ ipn[h].pay \in Links
         /\ Used(ipn[h].pay) /\ payment[ipn[h].pay] \in Payment
         /\ payment[ipn[h].pay].booking \in Bookings
<1>1. ipn[h] \in Handling
  BY DEF TypeOK
<1>2. ipn[h].pay \in Links
  BY <1>1 DEF Handling
<1>3. Used(ipn[h].pay)
  BY DEF NotesForRows
<1>4. payment[ipn[h].pay] \in Payment
  BY <1>2, <1>3, UsedRows
<1>5. QED
  BY <1>1, <1>2, <1>3, <1>4 DEF Payment

(* The sum of a booking's paid rows and one row more.                      *)
LEMMA SumsInNat ==
  ASSUME TypeOK, NEW b \in Bookings
  PROVE  /\ SumOf(Paid(b)) \in Nat /\ SumOf(ReceiptsOf(b)) \in Nat
         /\ \A p \in Links : Used(p) => SumOf(Paid(b) \cup {p}) \in Nat
<1>1. RowsOf(payment, Of(b)) /\ \A p \in Links \cup Requests : Used(p) <=> payment[p] \in Payment
  BY UsedRows
<1>2. RowsOf(payment, Paid(b)) /\ RowsOf(payment, ReceiptsOf(b))
  BY <1>1 DEF RowsOf, Paid, ReceiptsOf
<1>3. \A p \in Links : Used(p) => RowsOf(payment, Paid(b) \cup {p})
  BY <1>1, <1>2 DEF RowsOf
<1>4. QED
  BY <1>2, <1>3, AmountsInNat DEF SumOf, AmountsSum

(* What a handler wrote on its own row.                                    *)
LEMMA StatusWritten ==
  ASSUME TypeOK, NEW p \in Links \cup Requests, Used(p), NEW s \in {"PAID", "FAILED"},
         payment' = [payment EXCEPT ![p].status = s]
  PROVE  /\ payment' \in [Links \cup Requests -> Payment \cup {NoPayment}]
         /\ \A q \in Links \cup Requests :
              /\ Used(q)' <=> Used(q)
              /\ Used(q) => /\ payment'[q].booking = payment[q].booking
                            /\ payment'[q].amount = payment[q].amount
              /\ q # p => payment'[q] = payment[q]
         /\ payment'[p].status = s
<1>1. payment[p] \in Payment
  BY UsedRows
<1>2. /\ payment'[p] = [payment[p] EXCEPT !.status = s]
      /\ \A q \in Links \cup Requests : q # p => payment'[q] = payment[q]
      /\ payment' = [q \in Links \cup Requests |-> payment'[q]]
  BY DEF TypeOK
<1>3. /\ payment'[p] \in Payment /\ payment'[p].status = s
      /\ payment'[p].booking = payment[p].booking /\ payment'[p].amount = payment[p].amount
  BY <1>1, <1>2 DEF Payment
<1>4. Used(p)'
  BY <1>3, AbsentAssumption DEF Used
<1>5. QED
  BY <1>2, <1>3, <1>4 DEF TypeOK, Used

(* What CreateLink wrote: a new row, and the links it replaces.            *)
LEMMA LinkWritten ==
  ASSUME TypeOK, CancelsAreHeld, NEW c \in Payers, NEW p \in Links, CreateLink(c, p)
  PROVE  /\ payment' \in [Links \cup Requests -> Payment \cup {NoPayment}]
         /\ payment'[p] = [booking |-> payer[c].booking, amount |-> payer[c].amount,
                           status |-> "PENDING"]
         /\ Used(p)' /\ ~ Used(p)
         /\ \A q \in Links \cup Requests : Used(q) =>
              /\ q # p /\ Used(q)'
              /\ payment'[q].booking = payment[q].booking
              /\ payment'[q].amount = payment[q].amount
         /\ \A q \in Links \cup Requests : q # p =>
              /\ Used(q)' <=> Used(q)
              /\ q \notin payer[c].cancels => payment'[q] = payment[q]
         /\ \A q \in payer[c].cancels :
              payment[q].status = "PENDING" /\ payment'[q].status = "CANCELLED"
<1> DEFINE x == payer[c]
<1>1. x \in Linking /\ x # Idle
  BY DEF CreateLink, TypeOK
<1>2. /\ x.booking \in Bookings /\ x.amount \in 1..Total
      /\ x.cancels \subseteq Links
  BY <1>1 DEF Linking
<1>3. DOMAIN payment = Links \cup Requests
  BY DEF TypeOK
<1>4. ~ Used(p)
  BY DEF CreateLink
<1>5. \A q \in x.cancels : Used(q) /\ payment[q].status = "PENDING"
  BY <1>1 DEF CancelsAreHeld
<1> DEFINE cancelled == [q \in Links \cup Requests |->
                          IF q \in x.cancels
                          THEN [payment[q] EXCEPT !.status = "CANCELLED"] ELSE payment[q]]
           row == [booking |-> x.booking, amount |-> x.amount, status |-> "PENDING"]
<1>6. payment' = [cancelled EXCEPT ![p] = row]
  BY <1>3 DEF CreateLink
<1>7. payment'[p] = row /\ \A q \in Links \cup Requests : q # p => payment'[q] = cancelled[q]
  BY <1>6
<1>8. payment'[p] \in Payment /\ Used(p)'
  <2>1. payment'[p] \in Payment
    BY <1>2, <1>7 DEF Payment
  <2>2. QED
    BY <2>1, AbsentAssumption DEF Used
<1>9. ASSUME NEW q \in x.cancels
      PROVE  /\ q # p /\ payment'[q] \in Payment /\ Used(q)' /\ Used(q)
             /\ payment'[q].booking = payment[q].booking
             /\ payment'[q].amount = payment[q].amount
             /\ payment'[q].status = "CANCELLED"
  <2>1. q \in Links /\ q # p /\ payment[q] \in Payment
    BY <1>2, <1>4, <1>5, UsedRows
  <2>2. payment'[q] = [payment[q] EXCEPT !.status = "CANCELLED"]
    BY <1>7, <2>1
  <2>3. /\ payment'[q] \in Payment /\ payment'[q].booking = payment[q].booking
        /\ payment'[q].amount = payment[q].amount /\ payment'[q].status = "CANCELLED"
    BY <2>1, <2>2 DEF Payment
  <2>4. Used(q)'
    BY <2>3, AbsentAssumption DEF Used
  <2>5. QED
    BY <1>5, <2>1, <2>3, <2>4
<1>10. ASSUME NEW q \in Links \cup Requests, q # p, q \notin x.cancels
       PROVE  payment'[q] = payment[q]
  BY <1>7, <1>10
<1>11. payment' \in [Links \cup Requests -> Payment \cup {NoPayment}]
  <2>1. \A q \in Links \cup Requests : payment'[q] \in Payment \cup {NoPayment}
    BY <1>8, <1>9, <1>10 DEF TypeOK
  <2>2. payment' = [q \in Links \cup Requests |-> payment'[q]]
    BY <1>6
  <2>3. QED
    BY <2>1, <2>2
<1>12. QED
  BY <1>4, <1>5, <1>7, <1>8, <1>9, <1>10, <1>11 DEF Used

(* What a receipt wrote: a row that was not there.                         *)
LEMMA ReceiptWritten ==
  ASSUME TypeOK, NEW b \in Bookings, NEW q \in Requests, NEW amount \in 1..Total,
         Receipt(b, q, amount)
  PROVE  /\ payment' \in [Links \cup Requests -> Payment \cup {NoPayment}]
         /\ payment'[q] = [booking |-> b, amount |-> amount, status |-> "PAID"]
         /\ Used(q)' /\ ~ Used(q)
         /\ \A p \in Links \cup Requests : p # q => payment'[p] = payment[p]
<1>1. payment'[q] = [booking |-> b, amount |-> amount, status |-> "PAID"]
  BY DEF Receipt, TypeOK
<1>2. payment'[q] \in Payment
  BY <1>1 DEF Payment
<1>3. \A p \in Links \cup Requests : p # q => payment'[p] = payment[p]
  BY DEF Receipt, TypeOK
<1>4. payment' = [p \in Links \cup Requests |-> payment'[p]]
  BY DEF Receipt, TypeOK
<1>5. payment' \in [Links \cup Requests -> Payment \cup {NoPayment}]
  <2>1. \A p \in Links \cup Requests : payment'[p] \in Payment \cup {NoPayment}
    BY <1>2, <1>3 DEF TypeOK
  <2>2. QED
    BY <1>4, <2>1
<1>6. Used(q)' /\ ~ Used(q)
  BY <1>2, AbsentAssumption DEF Used, Receipt
<1>7. QED
  BY <1>1, <1>3, <1>5, <1>6

(* Rows are never taken away, and what they are for never changes.         *)
LEMMA RowsKeep ==
  ASSUME TypeOK, NotesForRows, CancelsAreHeld, [Next]_vars
  PROVE  /\ payment' \in [Links \cup Requests -> Payment \cup {NoPayment}]
         /\ \A q \in Links \cup Requests : Used(q) =>
              /\ Used(q)'
              /\ payment'[q].booking = payment[q].booking
              /\ payment'[q].amount = payment[q].amount
         /\ \A q \in Requests : Used(q) => payment'[q] = payment[q]
<1> DEFINE Kept == /\ payment' \in [Links \cup Requests -> Payment \cup {NoPayment}]
                   /\ \A q \in Links \cup Requests : Used(q) =>
                        /\ Used(q)'
                        /\ payment'[q].booking = payment[q].booking
                        /\ payment'[q].amount = payment[q].amount
                   /\ \A q \in Requests : Used(q) => payment'[q] = payment[q]
<1>1. CASE UNCHANGED payment
  BY <1>1 DEF TypeOK, Used
<1>2. ASSUME NEW c \in Payers, NEW p \in Links, CreateLink(c, p)
      PROVE  Kept
  <2>1. payer[c].cancels \subseteq Links
    BY <1>2 DEF TypeOK, CreateLink, Linking
  <2>2. QED
    BY <1>2, <2>1, LinkWritten, PaymentsAssumption
<1>3. ASSUME NEW h \in Handlers, CommitCapture(h) \/ CommitDecline(h)
      PROVE  Kept
  <2>1. ipn[h].pay \in Links /\ Used(ipn[h].pay)
    BY <1>3, HandledRows DEF CommitCapture, CommitDecline
  <2>2. PICK s \in {"PAID", "FAILED"} : payment' = [payment EXCEPT ![ipn[h].pay].status = s]
    BY <1>3 DEF CommitCapture, CommitDecline
  <2>3. QED
    BY <2>1, <2>2, StatusWritten, PaymentsAssumption
<1>4. ASSUME NEW b \in Bookings, NEW q \in Requests, NEW amount \in 1..Total,
             Receipt(b, q, amount)
      PROVE  Kept
  BY <1>4, ReceiptWritten DEF Used
<1>5. CASE Next
  <2>1. UNCHANGED payment
        \/ (\E c \in Payers, p \in Links : CreateLink(c, p))
        \/ (\E h \in Handlers : CommitCapture(h) \/ CommitDecline(h))
        \/ (\E b \in Bookings, q \in Requests, amount \in 1..Total : Receipt(b, q, amount))
    BY <1>5 DEF Next, RequestLink, CancelLinks, DropLink, Capture, Decline, Receive, Open,
                Duplicate, Sum, Rollback, Transition, NightsChange
  <2>2. QED
    BY <2>1, <1>1, <1>2, <1>3, <1>4
<1>6. QED
  BY <1>1, <1>5 DEF vars

(* The amount of a link is positive and at most what is outstanding.       *)
LEMMA AmountAsked ==
  ASSUME NEW remaining \in 0..Total, AtMost(Deposit, remaining) > 0
  PROVE  AtMost(Deposit, remaining) \in 1..Total
BY PaymentsAssumption DEF AtMost

(* Every step keeps the types: above all, the balance within the total.    *)
LEMMA TypeStep ==
  ASSUME TypeOK, NotesForRows, CancelsAreHeld, [Next]_vars
  PROVE  TypeOK'
<1>1. payment' \in [Links \cup Requests -> Payment \cup {NoPayment}]
  BY RowsKeep
<1>2. CASE UNCHANGED vars
  BY <1>2 DEF TypeOK, vars
<1>3. ASSUME NEW c \in Payers, NEW b \in Bookings, RequestLink(c, b)
      PROVE  TypeOK'
  <2>1. booking[b].remaining \in 0..Total
    BY DEF TypeOK, Booking
  <2>2. AtMost(Deposit, booking[b].remaining) \in 1..Total
    BY <1>3, <2>1, AmountAsked DEF RequestLink
  <2>3. payer' \in [Payers -> Linking \cup {Idle}]
    BY <1>3, <2>2 DEF RequestLink, TypeOK, Linking
  <2>4. QED
    BY <1>1, <1>3, <2>3 DEF RequestLink, TypeOK
<1>4. ASSUME NEW c \in Payers, CancelLinks(c) \/ DropLink(c)
      PROVE  TypeOK'
  <2>1. payer' \in [Payers -> Linking \cup {Idle}]
    BY <1>4 DEF CancelLinks, DropLink, TypeOK, Linking
  <2>2. QED
    BY <1>1, <1>4, <2>1 DEF CancelLinks, DropLink, TypeOK
<1>5. ASSUME NEW c \in Payers, NEW p \in Links, CreateLink(c, p)
      PROVE  TypeOK'
  BY <1>1, <1>5 DEF CreateLink, TypeOK
<1>6. ASSUME NEW p \in Links, Capture(p) \/ Decline(p)
      PROVE  TypeOK'
  <2>1. PICK m \in Notification : sent' = sent \cup {m}
    BY <1>6 DEF Capture, Decline, Notification
  <2>2. QED
    BY <1>1, <1>6, <2>1 DEF Capture, Decline, TypeOK
<1>7. ASSUME NEW h \in Handlers, NEW m \in Notification, Receive(h, m)
      PROVE  TypeOK'
  <2>1. Used(m.pay) /\ m.pay \in Links
    BY <1>7 DEF Receive, NotesForRows, Notification
  <2>2. payment[m.pay].booking \in Bookings
    BY <2>1, UsedRows DEF Payment
  <2>3. ipn' \in [Handlers -> Handling \cup {Idle}]
    BY <1>7, <2>1, <2>2 DEF Receive, TypeOK, Handling, Notification, Booking
  <2>4. QED
    BY <1>1, <1>7, <2>3 DEF Receive, TypeOK
<1>8. ASSUME NEW h \in Handlers, Open(h) \/ Duplicate(h) \/ Rollback(h)
      PROVE  TypeOK'
  <2>1. ipn' \in [Handlers -> Handling \cup {Idle}]
    BY <1>8 DEF Open, Duplicate, Rollback, TypeOK, Handling
  <2>2. QED
    BY <1>1, <1>8, <2>1 DEF Open, Duplicate, Rollback, TypeOK
<1>9. ASSUME NEW h \in Handlers, Sum(h)
      PROVE  TypeOK'
  <2> DEFINE sum == SumOf(Paid(payment[ipn[h].pay].booking) \cup {ipn[h].pay})
  <2>1. sum \in Nat
    BY <1>9, HandledRows, SumsInNat DEF Sum
  <2>2. ipn' = [ipn EXCEPT ![h].phase = "summed", ![h].sum = sum]
    BY <1>9 DEF Sum
  <2> HIDE DEF sum
  <2>3. [ipn[h] EXCEPT !.phase = "summed", !.sum = sum] \in Handling
    BY <1>9, <2>1, HandledRows DEF Sum, Handling
  <2>4. ipn' \in [Handlers -> Handling \cup {Idle}]
    BY <2>2, <2>3 DEF TypeOK
  <2>5. QED
    BY <1>1, <1>9, <2>4 DEF Sum, TypeOK
<1>10. ASSUME NEW h \in Handlers, CommitCapture(h)
       PROVE  TypeOK'
  <2>1. /\ ipn[h] \in Handling /\ payment[ipn[h].pay].booking \in Bookings
        /\ ipn[h] # Idle /\ ipn[h].phase = "summed"
    BY <1>10, HandledRows DEF CommitCapture
  <2>2. ipn[h].sum \in Nat /\ NewStatus(ipn[h]) \in Status
    BY <2>1 DEF Handling, NewStatus, Status
  <2>3. Outstanding(ipn[h].sum) \in 0..Total
    BY <2>2, PaymentsAssumption DEF Outstanding
  <2>4. booking' \in [Bookings -> Booking]
    BY <1>10, <2>1, <2>2, <2>3 DEF CommitCapture, TypeOK, Booking
  <2>5. [pay |-> ipn[h].pay, ok |-> TRUE] \in sent
    BY <2>1 DEF NotesForRows, Summed
  <2>6. QED
    BY <1>1, <1>10, <2>1, <2>4, <2>5 DEF CommitCapture, TypeOK
<1>11. ASSUME NEW h \in Handlers, CommitDecline(h)
       PROVE  TypeOK'
  <2>1. /\ payment[ipn[h].pay].booking \in Bookings /\ ipn[h] \in Handling
        /\ [pay |-> ipn[h].pay, ok |-> ipn[h].ok] \in sent
    BY <1>11, HandledRows DEF CommitDecline, NotesForRows
  <2>2. ipn[h].ok = FALSE
    BY <1>11, <2>1 DEF CommitDecline, Handling
  <2>3. QED
    BY <1>1, <1>11, <2>1, <2>2 DEF CommitDecline, TypeOK
<1>12. ASSUME NEW b \in Bookings, NEW q \in Requests, NEW amount \in 1..Total,
              Receipt(b, q, amount)
       PROVE  TypeOK'
  <2>1. booking[b] \in Booking
    BY DEF TypeOK
  <2>2. booking[b].paid + amount \in Nat /\ booking[b].remaining - amount \in 0..Total
    BY <1>12, <2>1, PaymentsAssumption DEF Receipt, Booking
  <2>3. booking' \in [Bookings -> Booking]
    BY <1>12, <2>2 DEF Receipt, TypeOK, Booking
  <2>4. QED
    BY <1>1, <1>12, <2>3 DEF Receipt, TypeOK
<1>13. ASSUME NEW b \in Bookings, NEW to \in Targets, Transition(b, to)
       PROVE  TypeOK'
  <2>1. to \in Status
    BY PaymentsAssumption
  <2>2. booking' \in [Bookings -> Booking]
    BY <1>13, <2>1 DEF Transition, TypeOK, Booking
  <2>3. QED
    BY <1>1, <1>13, <2>2 DEF Transition, TypeOK
<1>14. ASSUME NEW b \in Bookings, NightsChange(b)
       PROVE  TypeOK'
  BY <1>1, <1>14 DEF NightsChange, TypeOK
<1>15. QED
  BY <1>2, <1>3, <1>4, <1>5, <1>6, <1>7, <1>8, <1>9, <1>10, <1>11, <1>12, <1>13, <1>14 DEF Next

(* VNPAY notifies of links that were made, and handlers work on them.      *)
LEMMA NotesStep ==
  ASSUME TypeOK, NotesForRows, CancelsAreHeld, [Next]_vars
  PROVE  NotesForRows'
<1>1. \A q \in Links \cup Requests : Used(q) => Used(q)'
  BY RowsKeep
<1>2. sent' \subseteq Notification /\ sent \subseteq sent'
      /\ \A m \in sent' : m \in sent \/ Used(m.pay)
  <2>1. sent' \subseteq Notification
    BY TypeStep DEF TypeOK
  <2>2. sent' = sent \/ \E p \in Links : Capture(p) \/ Decline(p)
    BY DEF Next, vars, RequestLink, CancelLinks, CreateLink, DropLink, Receive,
           Open, Duplicate, Sum, CommitCapture, CommitDecline, Rollback, Receipt, Transition,
           NightsChange
  <2>3. ASSUME NEW p \in Links, Capture(p) \/ Decline(p)
        PROVE  sent \subseteq sent' /\ \A m \in sent' : m \in sent \/ Used(m.pay)
    <3>1. PICK ok \in BOOLEAN : sent' = sent \cup {[pay |-> p, ok |-> ok]}
      BY <2>3 DEF Capture, Decline
    <3>2. Used(p)
      BY <2>3 DEF Capture, Decline
    <3>3. QED
      BY <3>1, <3>2
  <2>4. QED
    BY <2>1, <2>2, <2>3
<1>3. \A m \in sent' : Used(m.pay)'
  <2> TAKE m \in sent'
  <2>1. m.pay \in Links /\ Used(m.pay)
    BY <1>2 DEF NotesForRows, Notification
  <2>2. QED
    BY <1>1, <2>1
<1>4. ASSUME NEW h \in Handlers, ipn'[h] # Idle
      PROVE  /\ [pay |-> ipn'[h].pay, ok |-> ipn'[h].ok] \in sent'
             /\ ipn'[h].phase = "summed" => ipn'[h].ok = TRUE
  <2>1. CASE ipn'[h] = ipn[h]
    BY <1>2, <1>4, <2>1 DEF NotesForRows, Summed
  <2>2. ASSUME NEW m \in Notification, Receive(h, m)
        PROVE  /\ [pay |-> ipn'[h].pay, ok |-> ipn'[h].ok] \in sent'
               /\ ipn'[h].phase = "summed" => ipn'[h].ok = TRUE
    <3>1. ipn'[h].pay = m.pay /\ ipn'[h].ok = m.ok /\ ipn'[h].phase = "read"
      BY <2>2 DEF Receive, TypeOK
    <3>2. m = [pay |-> m.pay, ok |-> m.ok]
      BY DEF Notification
    <3>3. QED
      BY <1>2, <2>2, <3>1, <3>2 DEF Receive
  <2>3. CASE Open(h) \/ Sum(h)
    <3>1. ipn[h] \in Handling /\ ipn[h] # Idle
      BY <2>3, HandledRows DEF Open, Sum
    <3>2. /\ ipn'[h].pay = ipn[h].pay /\ ipn'[h].ok = ipn[h].ok
          /\ ipn'[h].phase = "summed" => ipn[h].ok
      BY <2>3, <3>1 DEF Open, Sum, TypeOK, Handling
    <3>3. QED
      BY <1>2, <3>1, <3>2 DEF NotesForRows, Handling
  <2>4. \/ ipn'[h] = ipn[h]
        \/ \E m \in Notification : Receive(h, m)
        \/ Open(h) \/ Sum(h)
    BY <1>4 DEF Next, vars, TypeOK, RequestLink, CancelLinks, CreateLink, DropLink, Capture,
           Decline, Receive, Open, Duplicate, Sum, CommitCapture, CommitDecline, Rollback,
           Receipt, Transition, NightsChange
  <2>5. QED
    BY <2>1, <2>2, <2>3, <2>4
<1>5. QED
  BY <1>3, <1>4 DEF NotesForRows, Summed

(* A batch holds the rows it cancels, so no payment of them can succeed in *)
(* between.                                                                *)
LEMMA CancelsStep ==
  ASSUME TypeOK, NotesForRows, CancelsAreHeld, [Next]_vars
  PROVE  CancelsAreHeld'
<1> DEFINE Held(c, p) ==
             /\ Used(p) /\ payment[p].status = "PENDING"
             /\ \A h \in Handlers : ~ Holds(h, p)
             /\ \A d \in Payers \ {c} : payer[d] # Idle => p \notin payer[d].cancels
<1>1. CASE UNCHANGED <<payment, ipn, payer>>
  BY <1>1 DEF CancelsAreHeld, Used, Holds
<1>2. ASSUME NEW c \in Payers, NEW b \in Bookings, RequestLink(c, b)
      PROVE  CancelsAreHeld'
  <2>1. payer'[c].cancels = {} /\ \A d \in Payers \ {c} : payer'[d] = payer[d]
    BY <1>2 DEF RequestLink, TypeOK
  <2>2. UNCHANGED <<payment, ipn>>
    BY <1>2 DEF RequestLink
  <2>3. QED
    BY <2>1, <2>2 DEF CancelsAreHeld, Used, Holds
<1>3. ASSUME NEW c \in Payers, CancelLinks(c)
      PROVE  CancelsAreHeld'
  <2> DEFINE live == {p \in Links \cap Of(payer[c].booking) : payment[p].status = "PENDING"}
  <2>1. payer[c] \in Linking
    BY <1>3 DEF CancelLinks, TypeOK
  <2>2. payer'[c].cancels = live /\ \A d \in Payers \ {c} : payer'[d] = payer[d]
    BY <1>3, <2>1 DEF CancelLinks, TypeOK, Linking
  <2>3. UNCHANGED <<payment, ipn>>
    BY <1>3 DEF CancelLinks
  <2>4. \A p \in live : /\ Used(p) /\ payment[p].status = "PENDING"
                        /\ \A h \in Handlers : ~ Holds(h, p)
                        /\ \A d \in Payers : payer[d] # Idle => p \notin payer[d].cancels
    BY <1>3 DEF CancelLinks, Of
  <2> HIDE DEF live
  <2>5. QED
    BY <2>2, <2>3, <2>4 DEF CancelsAreHeld, Used, Holds
<1>4. ASSUME NEW c \in Payers, DropLink(c)
      PROVE  CancelsAreHeld'
  <2>1. payer'[c] = Idle /\ \A d \in Payers \ {c} : payer'[d] = payer[d]
    BY <1>4 DEF DropLink, TypeOK
  <2>2. UNCHANGED <<payment, ipn>>
    BY <1>4 DEF DropLink
  <2>3. QED
    BY <2>1, <2>2 DEF CancelsAreHeld, Used, Holds
<1>5. ASSUME NEW c \in Payers, NEW p \in Links, CreateLink(c, p)
      PROVE  CancelsAreHeld'
  <2>1. payer[c] # Idle /\ payer'[c] = Idle /\ \A d \in Payers \ {c} : payer'[d] = payer[d]
    BY <1>5 DEF CreateLink, TypeOK
  <2>2. UNCHANGED ipn
    BY <1>5 DEF CreateLink
  <2>3. ASSUME NEW d \in Payers, d # c, payer[d] # Idle, NEW q \in payer[d].cancels
        PROVE  Held(d, q)'
    <3>1. Held(d, q) /\ q \notin payer[c].cancels
      BY <2>1, <2>3 DEF CancelsAreHeld
    <3>2. q \in Links
      BY <2>3 DEF TypeOK, Linking
    <3>3. q # p /\ payment'[q] = payment[q]
      BY <1>5, <3>1, <3>2, LinkWritten
    <3>4. QED
      BY <2>1, <2>2, <3>1, <3>3 DEF Used, Holds
  <2>4. QED
    BY <2>1, <2>3 DEF CancelsAreHeld
<1>6. ASSUME NEW h \in Handlers, NEW m \in Notification, Receive(h, m)
      PROVE  CancelsAreHeld'
  <2>1. ipn'[h].phase = "read" /\ \A g \in Handlers \ {h} : ipn'[g] = ipn[g]
    BY <1>6 DEF Receive, TypeOK
  <2>2. UNCHANGED <<payment, payer>>
    BY <1>6 DEF Receive
  <2>3. QED
    BY <2>1, <2>2 DEF CancelsAreHeld, Used, Holds
<1>7. ASSUME NEW h \in Handlers, Open(h) \/ Sum(h)
      PROVE  CancelsAreHeld'
  <2>1. ipn[h] \in Handling /\ ipn[h] # Idle
    BY <1>7, HandledRows DEF Open, Sum
  <2>2. ipn'[h].pay = ipn[h].pay /\ \A g \in Handlers \ {h} : ipn'[g] = ipn[g]
    BY <1>7, <2>1 DEF Open, Sum, TypeOK, Handling
  <2>3. UNCHANGED <<payment, payer>>
    BY <1>7 DEF Open, Sum
  <2>4. \A c \in Payers : payer[c] # Idle => ipn[h].pay \notin payer[c].cancels
    <3>1. CASE Open(h)
      BY <3>1 DEF Open
    <3>2. CASE Sum(h)
      BY <3>2 DEF Sum, CancelsAreHeld, Holds
    <3>3. QED
      BY <1>7, <3>1, <3>2
  <2>5. QED
    BY <2>2, <2>3, <2>4 DEF CancelsAreHeld, Used, Holds
<1>8. ASSUME NEW h \in Handlers, Duplicate(h) \/ Rollback(h)
      PROVE  CancelsAreHeld'
  <2>1. ipn'[h] = Idle /\ \A g \in Handlers \ {h} : ipn'[g] = ipn[g]
    BY <1>8 DEF Duplicate, Rollback, TypeOK
  <2>2. UNCHANGED <<payment, payer>>
    BY <1>8 DEF Duplicate, Rollback
  <2>3. QED
    BY <2>1, <2>2 DEF CancelsAreHeld, Used, Holds
<1>9. ASSUME NEW h \in Handlers, CommitCapture(h) \/ CommitDecline(h)
      PROVE  CancelsAreHeld'
  <2>1. ipn[h] # Idle /\ Holds(h, ipn[h].pay)
    BY <1>9 DEF CommitCapture, CommitDecline, Holds
  <2>2. ipn'[h] = Idle /\ \A g \in Handlers \ {h} : ipn'[g] = ipn[g]
    BY <1>9 DEF CommitCapture, CommitDecline, TypeOK
  <2>3. PICK s \in {"PAID", "FAILED"} : payment' = [payment EXCEPT ![ipn[h].pay].status = s]
    BY <1>9 DEF CommitCapture, CommitDecline
  <2>4. UNCHANGED payer
    BY <1>9 DEF CommitCapture, CommitDecline
  <2>5. ASSUME NEW c \in Payers, payer[c] # Idle, NEW q \in payer[c].cancels
        PROVE  Held(c, q)'
    <3>1. Held(c, q) /\ q # ipn[h].pay /\ q \in Links
      BY <2>1, <2>5 DEF CancelsAreHeld, TypeOK, Linking
    <3>2. payment'[q] = payment[q]
      BY <2>1, <2>3, <3>1, HandledRows, StatusWritten
    <3>3. QED
      BY <2>2, <2>4, <3>1, <3>2 DEF Used, Holds
  <2>6. QED
    BY <2>4, <2>5 DEF CancelsAreHeld
<1>10. ASSUME NEW b \in Bookings, NEW q \in Requests, NEW amount \in 1..Total,
              Receipt(b, q, amount)
       PROVE  CancelsAreHeld'
  <2>1. UNCHANGED <<ipn, payer>>
    BY <1>10 DEF Receipt
  <2>2. ASSUME NEW c \in Payers, payer[c] # Idle, NEW p \in payer[c].cancels
        PROVE  Held(c, p)'
    <3>1. Held(c, p) /\ p \in Links /\ p # q
      BY <2>2, PaymentsAssumption DEF CancelsAreHeld, TypeOK, Linking
    <3>2. payment'[p] = payment[p]
      BY <1>10, <3>1, ReceiptWritten
    <3>3. QED
      BY <2>1, <3>1, <3>2 DEF Used, Holds
  <2>3. QED
    BY <2>1, <2>2 DEF CancelsAreHeld
<1>11. CASE Next
  <2>1. \/ UNCHANGED <<payment, ipn, payer>>
        \/ \E c \in Payers, b \in Bookings : RequestLink(c, b)
        \/ \E c \in Payers : CancelLinks(c) \/ DropLink(c)
        \/ \E c \in Payers, p \in Links : CreateLink(c, p)
        \/ \E h \in Handlers, m \in Notification : Receive(h, m)
        \/ \E h \in Handlers : Open(h) \/ Duplicate(h) \/ Sum(h)
        \/ \E h \in Handlers : CommitCapture(h) \/ CommitDecline(h) \/ Rollback(h)
        \/ \E b \in Bookings, q \in Requests, amount \in 1..Total : Receipt(b, q, amount)
    BY <1>11 DEF Next, Capture, Decline, Transition, NightsChange
  <2>2. QED
    BY <2>1, <1>1, <1>2, <1>3, <1>4, <1>5, <1>6, <1>7, <1>8, <1>9, <1>10
<1>12. QED
  BY <1>1, <1>11 DEF vars

(* Handlers and link batches write on links only.                          *)
LEMMA ReceiptsStep ==
  ASSUME TypeOK, NotesForRows, CancelsAreHeld, ReceiptsArePaid, [Next]_vars
  PROVE  ReceiptsArePaid'
<1> SUFFICES ASSUME NEW q \in Requests, Used(q)'
             PROVE  payment'[q].status = "PAID"
  BY DEF ReceiptsArePaid
<1>1. CASE Used(q)
  BY <1>1, RowsKeep DEF ReceiptsArePaid
<1>2. CASE ~ Used(q)
  <2>1. ASSUME NEW c \in Payers, NEW p \in Links, CreateLink(c, p)
        PROVE  FALSE
    BY <1>2, <2>1, LinkWritten, PaymentsAssumption
  <2>2. ASSUME NEW h \in Handlers, CommitCapture(h) \/ CommitDecline(h)
        PROVE  FALSE
    <3>1. ipn[h].pay \in Links /\ Used(ipn[h].pay)
      BY <2>2, HandledRows DEF CommitCapture, CommitDecline
    <3>2. PICK s \in {"PAID", "FAILED"} : payment' = [payment EXCEPT ![ipn[h].pay].status = s]
      BY <2>2 DEF CommitCapture, CommitDecline
    <3>3. QED
      BY <1>2, <3>1, <3>2, StatusWritten
  <2>3. ASSUME NEW b \in Bookings, NEW r \in Requests, NEW amount \in 1..Total,
               Receipt(b, r, amount)
        PROVE  payment'[q].status = "PAID"
    <3>1. q # r => payment'[q] = payment[q]
      BY <2>3, ReceiptWritten
    <3>2. q = r
      BY <1>2, <3>1 DEF Used
    <3>3. payment'[r] = [booking |-> b, amount |-> amount, status |-> "PAID"]
      BY <2>3, ReceiptWritten
    <3>4. QED
      BY <3>2, <3>3
  <2>4. payment' # payment
    BY <1>2 DEF Used
  <2>5. QED
    BY <2>1, <2>2, <2>3, <2>4 DEF Next, vars, RequestLink, CancelLinks, DropLink, Capture, Decline,
       Receive, Open, Duplicate, Sum, Rollback, Transition, NightsChange
<1>3. QED
  BY <1>1, <1>2

-----------------------------------------------------------------------------
(* The table keeps unpaid statuses among themselves, and has one way out of*)
(* the room.                                                               *)
LEMMA TableFacts ==
  ASSUME NEW old \in Status, NEW to \in Status, MayMove(old, to)
  PROVE  /\ to \in Early => old \in Early
         /\ to = "CHECKED_OUT" => old = "CHECKED_IN"
         /\ to = "COMPLETED" => old = "CHECKED_OUT"
BY DEF MayMove, TRANSITIONS, Status, Cancelled, Early

(* What a step may do to a booking, and to the rows it sums.               *)
Moved(b, to) ==
  /\ MayMove(booking[b].status, to)
  /\ to \in {"CONFIRMED", "CHECKED_IN"} => booking[b].paid >= Deposit
  /\ to = "CHECKED_OUT" => booking[b].remaining = 0
  /\ booking'[b] = [booking[b] EXCEPT !.status = to]

Left(b) ==
  /\ booking'[b] = booking[b] \/ \E to \in Targets : Moved(b, to)
  /\ ReceiptsOf(b)' = ReceiptsOf(b)
  /\ b \notin raced' => Paid(b)' = Paid(b)

Captured(b, h) ==
  /\ CommitCapture(h) /\ payment[ipn[h].pay].booking = b
  /\ booking'[b] = [status |-> "CONFIRMED", paid |-> ipn[h].sum,
                    remaining |-> Outstanding(ipn[h].sum)]
  /\ booking[b].status \notin Frozen
  /\ ipn[h].sum \in Nat /\ ipn[h].sum >= Deposit
  /\ ReceiptsOf(b)' = ReceiptsOf(b)
  /\ Paid(b)' = Paid(b) \cup {ipn[h].pay}

Receipted(b, q, amount) ==
  /\ Receipt(b, q, amount) /\ ~ Used(q)
  /\ booking'[b] = [booking[b] EXCEPT !.paid = @ + amount, !.remaining = @ - amount]
  /\ payment'[q].amount = amount
  /\ ReceiptsOf(b)' = ReceiptsOf(b) \cup {q}
  /\ Paid(b)' = Paid(b) \cup {q}

(* Every step leaves a booking and its paid rows, or moves it along the    *)
(* table, or applies a capture or a receipt to both.                       *)
LEMMA BookingStep ==
  ASSUME TypeOK, NotesForRows, CancelsAreHeld, CaptureCovers, [Next]_vars, NEW b \in Bookings
  PROVE  \/ Left(b)
         \/ \E h \in Handlers : Captured(b, h)
         \/ \E q \in Requests, amount \in 1..Total : Receipted(b, q, amount)
<1>1. CASE UNCHANGED <<booking, payment>>
  BY <1>1 DEF Left, ReceiptsOf, Paid, Of, Used
<1>2. ASSUME NEW c \in Payers, NEW p \in Links, CreateLink(c, p)
      PROVE  Left(b)
  <2>1. payer[c].cancels \subseteq Links
    BY <1>2 DEF TypeOK, CreateLink, Linking
  <2> DEFINE row == [booking |-> payer[c].booking, amount |-> payer[c].amount,
                     status |-> "PENDING"]
  <2>2. payment'[p] = row
    BY <1>2, LinkWritten
  <2>3. row.status = "PENDING"
    OBVIOUS
  <2>4. \A q \in payer[c].cancels : payment[q].status = "PENDING" /\ payment'[q].status = "CANCELLED"
    BY <1>2, LinkWritten
  <2> HIDE DEF row
  <2>5. /\ Used(p)' /\ ~ Used(p) /\ payment'[p].status = "PENDING"
        /\ \A q \in Links \cup Requests : q # p =>
             /\ Used(q)' <=> Used(q)
             /\ q \notin payer[c].cancels => payment'[q] = payment[q]
        /\ \A q \in Links \cup Requests : Used(q) => payment'[q].booking = payment[q].booking
        /\ \A q \in payer[c].cancels : payment[q].status # "PAID" /\ payment'[q].status # "PAID"
    BY <1>2, <2>2, <2>3, <2>4, LinkWritten
  <2>6. ReceiptsOf(b)' = ReceiptsOf(b)
    BY <2>1, <2>5, PaymentsAssumption DEF ReceiptsOf, Of
  <2>7. Paid(b)' = Paid(b)
    BY <2>1, <2>5 DEF Paid, Of
  <2>8. QED
    BY <1>2, <2>6, <2>7 DEF Left, CreateLink
<1>3. ASSUME NEW h \in Handlers, CommitDecline(h)
      PROVE  Left(b)
  <2> DEFINE p == ipn[h].pay
  <2>1. /\ p \in Links /\ Used(p)
        /\ payment' = [payment EXCEPT ![p].status = "FAILED"]
    BY <1>3, HandledRows DEF CommitDecline
  <2>2. /\ \A q \in Links \cup Requests :
             /\ Used(q)' <=> Used(q)
             /\ Used(q) => payment'[q].booking = payment[q].booking
             /\ q # p => payment'[q] = payment[q]
        /\ payment'[p].status = "FAILED"
    BY <2>1, StatusWritten
  <2>3. payment[p].status = "PAID" /\ payment[p].booking = b => b \in raced'
    BY <1>3 DEF CommitDecline
  <2>4. ReceiptsOf(b)' = ReceiptsOf(b)
    BY <2>1, <2>2, PaymentsAssumption DEF ReceiptsOf, Of
  <2>5. b \notin raced' => Paid(b)' = Paid(b)
    BY <2>1, <2>2, <2>3 DEF Paid, Of
  <2>6. QED
    BY <1>3, <2>4, <2>5 DEF Left, CommitDecline
<1>4. ASSUME NEW h \in Handlers, CommitCapture(h)
      PROVE  Left(b) \/ Captured(b, h)
  <2> DEFINE p == ipn[h].pay
             a == payment[p].booking
  <2>1. /\ p \in Links /\ Used(p) /\ a \in Bookings /\ ipn[h] \in Handling
        /\ payment' = [payment EXCEPT ![p].status = "PAID"]
        /\ ipn[h] # Idle /\ ipn[h].phase = "summed"
    BY <1>4, HandledRows DEF CommitCapture
  <2>2. /\ \A q \in Links \cup Requests :
             /\ Used(q)' <=> Used(q)
             /\ Used(q) => payment'[q].booking = payment[q].booking
             /\ q # p => payment'[q] = payment[q]
        /\ payment'[p].status = "PAID"
    BY <2>1, StatusWritten
  <2>3. ReceiptsOf(b)' = ReceiptsOf(b)
    BY <2>1, <2>2, PaymentsAssumption DEF ReceiptsOf, Of
  <2>4. CASE a # b
    <3>1. Paid(b)' = Paid(b)
      BY <2>1, <2>2, <2>4 DEF Paid, Of
    <3>2. booking'[b] = booking[b]
      BY <1>4, <2>4 DEF CommitCapture, TypeOK
    <3>3. QED
      BY <2>3, <3>1, <3>2 DEF Left
  <2>5. CASE a = b
    <3>1. Paid(b)' = Paid(b) \cup {p}
      BY <2>1, <2>2, <2>5 DEF Paid, Of
    <3>2. ipn[h].sum \in Nat /\ ipn[h].sum >= Deposit /\ NewStatus(ipn[h]) = "CONFIRMED"
      BY <2>1 DEF CaptureCovers, Handling, NewStatus
    <3>3. booking[b].status \notin Frozen
      BY <1>4, <2>5, <3>2 DEF CommitCapture, Admitted, TerminalGuard, Frozen, Cancelled
    <3>4. booking'[b] = [status |-> "CONFIRMED", paid |-> ipn[h].sum,
                         remaining |-> Outstanding(ipn[h].sum)]
      BY <1>4, <2>5, <3>2 DEF CommitCapture, TypeOK
    <3>5. QED
      BY <1>4, <2>3, <2>5, <3>1, <3>2, <3>3, <3>4 DEF Captured
  <2>6. QED
    BY <2>4, <2>5
<1>5. ASSUME NEW d \in Bookings, NEW q \in Requests, NEW amount \in 1..Total,
             Receipt(d, q, amount)
      PROVE  Left(b) \/ Receipted(b, q, amount)
  <2>1. /\ payment'[q] = [booking |-> d, amount |-> amount, status |-> "PAID"]
        /\ Used(q)' /\ ~ Used(q)
        /\ \A p \in Links \cup Requests : p # q => payment'[p] = payment[p]
    BY <1>5, ReceiptWritten
  <2>2. /\ payment'[q].booking = d /\ payment'[q].amount = amount
        /\ payment'[q].status = "PAID"
    BY <2>1
  <2>3. \A p \in Links \cup Requests : p # q => (Used(p)' <=> Used(p))
    BY <2>1 DEF Used
  <2>4. CASE d # b
    <3>1. Paid(b)' = Paid(b) /\ ReceiptsOf(b)' = ReceiptsOf(b)
      BY <2>1, <2>2, <2>3, <2>4 DEF Paid, ReceiptsOf, Of
    <3>2. booking'[b] = booking[b]
      BY <1>5, <2>4 DEF Receipt, TypeOK
    <3>3. QED
      BY <3>1, <3>2 DEF Left
  <2>5. CASE d = b
    <3>1. Paid(b)' = Paid(b) \cup {q} /\ ReceiptsOf(b)' = ReceiptsOf(b) \cup {q}
      BY <2>1, <2>2, <2>3, <2>5 DEF Paid, ReceiptsOf, Of
    <3>2. booking'[b] = [booking[b] EXCEPT !.paid = @ + amount, !.remaining = @ - amount]
      BY <1>5, <2>5 DEF Receipt, TypeOK
    <3>3. QED
      BY <1>5, <2>1, <2>2, <2>5, <3>1, <3>2 DEF Receipted
  <2>6. QED
    BY <2>4, <2>5
<1>6. ASSUME NEW d \in Bookings, NEW to \in Targets, Transition(d, to)
      PROVE  Left(b)
  <2>1. booking'[b] = booking[b] \/ Moved(b, to)
    BY <1>6 DEF Transition, TypeOK, Moved
  <2>2. UNCHANGED payment
    BY <1>6 DEF Transition
  <2>3. QED
    BY <2>1, <2>2 DEF Left, ReceiptsOf, Paid, Of, Used
<1>7. CASE Next
  <2>1. \/ UNCHANGED <<booking, payment>>
        \/ \E c \in Payers, p \in Links : CreateLink(c, p)
        \/ \E h \in Handlers : CommitCapture(h) \/ CommitDecline(h)
        \/ \E d \in Bookings, q \in Requests, amount \in 1..Total : Receipt(d, q, amount)
        \/ \E d \in Bookings, to \in Targets : Transition(d, to)
    BY <1>7 DEF Next, RequestLink, CancelLinks, DropLink, Capture, Decline, Receive, Open,
                Duplicate, Sum, Rollback, NightsChange
  <2>2. QED
    BY <2>1, <1>1, <1>2, <1>3, <1>4, <1>5, <1>6
<1>8. QED
  BY <1>1, <1>7 DEF vars

-----------------------------------------------------------------------------
(* Rows that were there keep their sum.                                    *)
LEMMA SumKept ==
  ASSUME TypeOK, NotesForRows, CancelsAreHeld, [Next]_vars, NEW S, RowsOf(payment, S)
  PROVE  AmountsSum(payment', S) = AmountsSum(payment, S)
<1>1. \A p \in S : payment'[p].amount = payment[p].amount
  BY UsedRows, RowsKeep DEF RowsOf
<1>2. QED
  BY <1>1, AmountsSame

(* A row that is written adds its amount.                                  *)
LEMMA SumWith ==
  ASSUME TypeOK, NotesForRows, CancelsAreHeld, [Next]_vars, NEW S, RowsOf(payment, S),
         NEW q \in Links \cup Requests, q \notin S, Used(q)'
  PROVE  AmountsSum(payment', S \cup {q}) = AmountsSum(payment, S) + payment'[q].amount
<1>1. payment'[q] \in Payment /\ \A p \in S : payment'[p] \in Payment
  <2>1. \A p \in S : Used(p)'
    BY UsedRows, RowsKeep DEF RowsOf
  <2>2. QED
    BY <2>1, RowsKeep DEF Used, RowsOf
<1> DEFINE T == S \cup {q}
<1>2. RowsOf(payment', T)
  BY <1>1 DEF RowsOf
<1>3. q \in T /\ T \ {q} = S
  OBVIOUS
<1>4. AmountsSum(payment', T) = payment'[q].amount + AmountsSum(payment', S)
  <2> HIDE DEF T
  <2>1. QED
    BY <1>2, <1>3, AmountsAdd
<1>5. AmountsSum(payment', S) = AmountsSum(payment, S) /\ AmountsSum(payment, S) \in Nat
  BY SumKept, AmountsInNat
<1>6. payment'[q].amount \in Nat
  BY <1>1, PaymentsAssumption DEF Payment
<1>7. QED
  BY <1>4, <1>5, <1>6

(* What a booking's receipts add up to after a step.                       *)
LEMMA ReceiptsSums ==
  ASSUME TypeOK, NotesForRows, CancelsAreHeld, [Next]_vars, NEW b \in Bookings
  PROVE  /\ ReceiptsOf(b)' = ReceiptsOf(b) => SumOf(ReceiptsOf(b))' = SumOf(ReceiptsOf(b))
         /\ \A q \in Requests, amount \in 1..Total : Receipted(b, q, amount) =>
              /\ SumOf(ReceiptsOf(b))' = SumOf(ReceiptsOf(b)) + amount
              /\ SumOf(Paid(b))' = SumOf(Paid(b)) + amount
<1>1. RowsOf(payment, ReceiptsOf(b)) /\ RowsOf(payment, Paid(b))
  BY UsedRows DEF RowsOf, ReceiptsOf, Paid
<1>2. ReceiptsOf(b)' = ReceiptsOf(b) => SumOf(ReceiptsOf(b))' = SumOf(ReceiptsOf(b))
  BY <1>1, SumKept DEF SumOf, AmountsSum
<1>3. ASSUME NEW q \in Requests, NEW amount \in 1..Total, Receipted(b, q, amount)
      PROVE  /\ SumOf(ReceiptsOf(b))' = SumOf(ReceiptsOf(b)) + amount
             /\ SumOf(Paid(b))' = SumOf(Paid(b)) + amount
  <2>1. /\ q \notin ReceiptsOf(b) /\ q \notin Paid(b)
        /\ payment'[q].amount = amount
        /\ ReceiptsOf(b)' = ReceiptsOf(b) \cup {q} /\ Paid(b)' = Paid(b) \cup {q}
    BY <1>3 DEF Receipted, ReceiptsOf, Paid, Of
  <2>2. Used(q)'
    BY <1>3, ReceiptWritten DEF Receipted
  <2>3. AmountsSum(payment', ReceiptsOf(b) \cup {q}) = AmountsSum(payment, ReceiptsOf(b)) + amount
    BY <1>1, <2>1, <2>2, SumWith
  <2>4. AmountsSum(payment', Paid(b) \cup {q}) = AmountsSum(payment, Paid(b)) + amount
    BY <1>1, <2>1, <2>2, SumWith
  <2>5. QED
    BY <2>1, <2>3, <2>4 DEF SumOf, AmountsSum
<1>4. QED
  BY <1>2, <1>3

(* What covered goes on covering: receipts only add up.                    *)
LEMMA CoversStays ==
  ASSUME TypeOK, NotesForRows, CancelsAreHeld, CaptureCovers, [Next]_vars,
         NEW b \in Bookings, NEW a \in Nat, Covers(a, b)
  PROVE  Covers(a, b)'
<1>1. \/ ReceiptsOf(b)' = ReceiptsOf(b)
      \/ \E q \in Requests, amount \in 1..Total : Receipted(b, q, amount)
  BY BookingStep DEF Left, Captured
<1>2. SumOf(ReceiptsOf(b)) \in Nat
  BY SumsInNat
<1>3. \/ SumOf(ReceiptsOf(b))' = SumOf(ReceiptsOf(b))
      \/ \E amount \in 1..Total : SumOf(ReceiptsOf(b))' = SumOf(ReceiptsOf(b)) + amount
  BY <1>1, ReceiptsSums
<1>4. QED
  BY <1>2, <1>3, PaymentsAssumption DEF Covers

(* Until a capture, the balance is what the receipts leave.                *)
LEMMA EarlyStep ==
  ASSUME TypeOK, NotesForRows, CancelsAreHeld, CaptureCovers, EarlyLedger, [Next]_vars
  PROVE  EarlyLedger'
<1> SUFFICES ASSUME NEW b \in Bookings, booking'[b].status \in Early
             PROVE  /\ booking'[b].paid = SumOf(ReceiptsOf(b))'
                    /\ booking'[b].remaining = Total - booking'[b].paid
  BY DEF EarlyLedger
<1>1. booking[b] \in Booking /\ SumOf(ReceiptsOf(b)) \in Nat
  BY SumsInNat DEF TypeOK
<1>2. CASE Left(b)
  <2>1. SumOf(ReceiptsOf(b))' = SumOf(ReceiptsOf(b))
    BY <1>2, ReceiptsSums DEF Left
  <2>2. /\ booking'[b].paid = booking[b].paid /\ booking'[b].remaining = booking[b].remaining
        /\ booking[b].status \in Early
    <3>1. CASE booking'[b] = booking[b]
      BY <3>1
    <3>2. ASSUME NEW to \in Targets, Moved(b, to)
          PROVE  /\ booking'[b].paid = booking[b].paid /\ booking'[b].remaining = booking[b].remaining
                 /\ booking[b].status \in Early
      <4>1. /\ booking'[b].status = to /\ booking'[b].paid = booking[b].paid
            /\ booking'[b].remaining = booking[b].remaining
        BY <1>1, <3>2 DEF Moved, Booking
      <4>2. to \in Status /\ booking[b].status \in Status /\ MayMove(booking[b].status, to)
        BY <1>1, <3>2, PaymentsAssumption DEF Moved, Booking
      <4>3. QED
        BY <4>1, <4>2, TableFacts
    <3>3. QED
      BY <1>2, <3>1, <3>2 DEF Left
  <2>3. QED
    BY <2>1, <2>2 DEF EarlyLedger
<1>3. ASSUME NEW h \in Handlers, Captured(b, h)
      PROVE  FALSE
  BY <1>3 DEF Captured, Early
<1>4. ASSUME NEW q \in Requests, NEW amount \in 1..Total, Receipted(b, q, amount)
      PROVE  /\ booking'[b].paid = SumOf(ReceiptsOf(b))'
             /\ booking'[b].remaining = Total - booking'[b].paid
  <2>1. /\ booking'[b].status = booking[b].status
        /\ booking'[b].paid = booking[b].paid + amount
        /\ booking'[b].remaining = booking[b].remaining - amount
    BY <1>1, <1>4 DEF Receipted, Booking
  <2>2. SumOf(ReceiptsOf(b))' = SumOf(ReceiptsOf(b)) + amount
    BY <1>4, ReceiptsSums
  <2>3. QED
    BY <1>1, <2>1, <2>2, PaymentsAssumption DEF EarlyLedger, Booking
<1>5. QED
  BY <1>2, <1>3, <1>4, BookingStep

(* The amount of a link is fixed early, and receipts only help it.         *)
LEMMA AmountsStep ==
  ASSUME TypeOK, NotesForRows, CancelsAreHeld, CaptureCovers, EarlyLedger, AmountsCover,
         [Next]_vars
  PROVE  AmountsCover'
<1> SUFFICES ASSUME NEW a \in 1..Total, NEW b \in Bookings, Asked(a, b)'
             PROVE  Covers(a, b)'
  BY DEF AmountsCover
<1> SUFFICES Covers(a, b)
  BY CoversStays, PaymentsAssumption
<1>1. CASE Asked(a, b)
  BY <1>1 DEF AmountsCover
<1>2. ASSUME NEW c \in Payers, RequestLink(c, b), a = AtMost(Deposit, booking[b].remaining)
      PROVE  Covers(a, b)
  <2>1. booking[b] \in Booking /\ booking[b].status \in Early /\ SumOf(ReceiptsOf(b)) \in Nat
    BY <1>2, SumsInNat DEF RequestLink, TypeOK, Early
  <2>2. booking[b].remaining = Total - SumOf(ReceiptsOf(b))
    BY <2>1 DEF EarlyLedger
  <2>3. QED
    BY <1>2, <2>1, <2>2, PaymentsAssumption DEF Covers, AtMost, Booking
<1>3. ASSUME NEW c \in Payers, payer'[c] # Idle, payer'[c].amount = a, payer'[c].booking = b
      PROVE  Asked(a, b) \/ (RequestLink(c, b) /\ a = AtMost(Deposit, booking[b].remaining))
  <2>1. CASE payer' = payer
    BY <1>3, <2>1 DEF Asked
  <2>2. ASSUME NEW d \in Payers, CancelLinks(d)
        PROVE  Asked(a, b)
    <3>1. payer[d] # Idle /\ payer[d] \in Linking
      BY <2>2 DEF CancelLinks, TypeOK
    <3>2. payer[c] # Idle /\ payer'[c].amount = payer[c].amount
          /\ payer'[c].booking = payer[c].booking
      BY <1>3, <2>2, <3>1 DEF CancelLinks, TypeOK, Linking
    <3>3. QED
      BY <1>3, <3>2 DEF Asked
  <2>3. ASSUME NEW d \in Payers, NEW e \in Bookings, RequestLink(d, e)
        PROVE  Asked(a, b) \/ (RequestLink(c, b) /\ a = AtMost(Deposit, booking[b].remaining))
    <3>1. CASE d = c
      BY <1>3, <2>3, <3>1 DEF RequestLink, TypeOK
    <3>2. CASE d # c
      BY <1>3, <2>3, <3>2 DEF RequestLink, TypeOK, Asked
    <3>3. QED
      BY <3>1, <3>2
  <2>4. ASSUME NEW d \in Payers, DropLink(d) \/ \E p \in Links : CreateLink(d, p)
        PROVE  Asked(a, b)
    <3>1. payer'[c] = payer[c]
      BY <1>3, <2>4 DEF DropLink, CreateLink, TypeOK
    <3>2. QED
      BY <1>3, <3>1 DEF Asked
  <2>5. \/ payer' = payer
        \/ \E d \in Payers : CancelLinks(d)
        \/ \E d \in Payers, e \in Bookings : RequestLink(d, e)
        \/ \E d \in Payers : DropLink(d) \/ \E p \in Links : CreateLink(d, p)
    BY DEF Next, vars, Capture, Decline, Receive, Open, Duplicate, Sum, CommitCapture,
           CommitDecline, Rollback, Receipt, Transition, NightsChange
  <2>6. QED
    BY <2>1, <2>2, <2>3, <2>4, <2>5
<1>4. ASSUME NEW p \in Links, Used(p)', payment'[p].amount = a, payment'[p].booking = b
      PROVE  Asked(a, b)
  <2>1. CASE Used(p)
    BY <1>4, <2>1, RowsKeep DEF Asked
  <2>2. ASSUME NEW c \in Payers, CreateLink(c, p)
        PROVE  Asked(a, b)
    <3> DEFINE x == payer[c]
               row == [booking |-> x.booking, amount |-> x.amount, status |-> "PENDING"]
    <3>1. payment'[p] = row
      BY <2>2, LinkWritten
    <3>2. x # Idle /\ x.amount = a /\ x.booking = b
      BY <1>4, <2>2, <3>1 DEF CreateLink
    <3>3. QED
      BY <3>2 DEF Asked
  <2>3. CASE ~ Used(p)
    <3>1. payment' # payment /\ payment'[p] # payment[p]
      BY <1>4, <2>3 DEF Used
    <3>2. ASSUME NEW c \in Payers, NEW q \in Links, CreateLink(c, q)
          PROVE  q = p
      BY <1>4, <2>3, <3>2, LinkWritten
    <3>3. ASSUME NEW h \in Handlers, CommitCapture(h) \/ CommitDecline(h)
          PROVE  FALSE
      <4>1. ipn[h].pay \in Links /\ Used(ipn[h].pay)
        BY <3>3, HandledRows DEF CommitCapture, CommitDecline
      <4>2. PICK s \in {"PAID", "FAILED"} : payment' = [payment EXCEPT ![ipn[h].pay].status = s]
        BY <3>3 DEF CommitCapture, CommitDecline
      <4>3. QED
        BY <1>4, <2>3, <4>1, <4>2, StatusWritten
    <3>4. ASSUME NEW d \in Bookings, NEW q \in Requests, NEW amount \in 1..Total,
                 Receipt(d, q, amount)
          PROVE  FALSE
      BY <3>1, <3>4, ReceiptWritten, PaymentsAssumption
    <3>5. \E c \in Payers, q \in Links : CreateLink(c, q)
      BY <3>1, <3>3, <3>4 DEF Next, vars, RequestLink, CancelLinks, DropLink, Capture, Decline,
         Receive, Open, Duplicate, Sum, Rollback, Transition, NightsChange
    <3>6. QED
      BY <2>2, <2>3, <3>2, <3>5
  <2>4. QED
    BY <2>1, <2>3
<1>5. QED
  BY <1>1, <1>2, <1>3, <1>4 DEF Asked

(* What a summed handler has is what it had, or what Sum gave it.          *)
LEMMA SummedBefore ==
  ASSUME TypeOK, NotesForRows, CancelsAreHeld, [Next]_vars, NEW h \in Handlers, Summed(h)'
  PROVE  /\ ipn[h] # Idle /\ ipn'[h].pay = ipn[h].pay
         /\ payment'[ipn[h].pay].booking = payment[ipn[h].pay].booking
         /\ \/ Summed(h) /\ ipn'[h].sum = ipn[h].sum
            \/ /\ Sum(h)
               /\ ipn'[h].sum = SumOf(Paid(payment[ipn[h].pay].booking) \cup {ipn[h].pay})
<1>1. CASE ipn'[h] = ipn[h]
  <2>1. Summed(h)
    BY <1>1 DEF Summed
  <2>2. ipn[h].pay \in Links /\ Used(ipn[h].pay)
    BY <2>1, HandledRows DEF Summed
  <2>3. QED
    BY <1>1, <2>1, <2>2, RowsKeep DEF Summed
<1>2. CASE Sum(h)
  <2>1. ipn[h] # Idle /\ ipn[h] \in Handling
    BY <1>2, HandledRows DEF Sum
  <2>2. ipn'[h] = [ipn[h] EXCEPT !.phase = "summed",
                     !.sum = SumOf(Paid(payment[ipn[h].pay].booking) \cup {ipn[h].pay})]
    BY <1>2 DEF Sum, TypeOK
  <2>3. UNCHANGED payment
    BY <1>2 DEF Sum
  <2>4. QED
    BY <1>2, <2>1, <2>2, <2>3 DEF Handling
<1>3. ipn'[h] = ipn[h] \/ Sum(h)
  <2>1. ASSUME NEW g \in Handlers, NEW m \in Notification, Receive(g, m)
        PROVE  ipn'[h] = ipn[h]
    BY <2>1 DEF Receive, TypeOK, Summed
  <2>2. ASSUME NEW g \in Handlers, Open(g)
        PROVE  ipn'[h] = ipn[h]
    <3>1. ipn[g] \in Handling
      BY <2>2, HandledRows DEF Open
    <3>2. QED
      BY <2>2, <3>1 DEF Open, TypeOK, Summed, Handling
  <2>3. ASSUME NEW g \in Handlers,
               Duplicate(g) \/ CommitCapture(g) \/ CommitDecline(g) \/ Rollback(g)
        PROVE  ipn'[h] = ipn[h]
    BY <2>3 DEF Duplicate, CommitCapture, CommitDecline, Rollback, TypeOK, Summed
  <2>4. ASSUME NEW g \in Handlers, Sum(g)
        PROVE  ipn'[h] = ipn[h] \/ Sum(h)
    BY <2>4 DEF Sum, TypeOK
  <2>5. QED
    BY <2>1, <2>2, <2>3, <2>4 DEF Next, vars, RequestLink, CancelLinks, CreateLink, DropLink,
       Capture, Decline, Receipt, Transition, NightsChange
<1>4. QED
  BY <1>1, <1>2, <1>3

(* The sum counts the receipts and the payment itself, so it covers.       *)
LEMMA CaptureStep ==
  ASSUME TypeOK, NotesForRows, CancelsAreHeld, ReceiptsArePaid, AmountsCover, CaptureCovers,
         [Next]_vars
  PROVE  CaptureCovers'
<1> SUFFICES ASSUME NEW h \in Handlers, Summed(h)'
             PROVE  ipn'[h].sum >= Deposit
  BY DEF CaptureCovers, Summed
<1>1. CASE Summed(h) /\ ipn'[h].sum = ipn[h].sum
  BY <1>1 DEF CaptureCovers, Summed
<1> DEFINE p == ipn[h].pay
           b == payment[p].booking
           S == Paid(b) \cup {p}
<1>2. CASE Sum(h) /\ ipn'[h].sum = SumOf(S)
  <2>1. /\ p \in Links /\ Used(p) /\ b \in Bookings /\ payment[p] \in Payment
        /\ RowsOf(payment, Of(b))
    BY <1>2, HandledRows, UsedRows DEF Sum
  <2>2. RowsOf(payment, S)
    BY <2>1 DEF RowsOf, Paid
  <2>3. /\ S \ {p} \subseteq S /\ ReceiptsOf(b) \subseteq S \ {p} /\ p \in S
        /\ RowsOf(payment, S \ {p}) /\ RowsOf(payment, ReceiptsOf(b))
    BY <2>1, <2>2, PaymentsAssumption DEF RowsOf, ReceiptsOf, ReceiptsArePaid, Paid, Of
  <2> HIDE DEF S, p, b
  <2>4. AmountsSum(payment, S) = payment[p].amount + AmountsSum(payment, S \ {p})
    BY <2>2, <2>3, AmountsAdd
  <2>5. AmountsSum(payment, ReceiptsOf(b)) <= AmountsSum(payment, S \ {p})
    BY <2>3, AmountsGrow
  <2>6. /\ AmountsSum(payment, ReceiptsOf(b)) \in Nat /\ AmountsSum(payment, S \ {p}) \in Nat
        /\ payment[p].amount \in Nat
    BY <2>1, <2>3, AmountsInNat, PaymentsAssumption DEF Payment
  <2>7. payment[p].amount >= Deposit \/ payment[p].amount + AmountsSum(payment, ReceiptsOf(b)) >= Total
    <3>1. Asked(payment[p].amount, b) /\ payment[p].amount \in 1..Total
      BY <2>1 DEF Asked, Payment, b
    <3>2. Covers(payment[p].amount, b)
      BY <2>1, <3>1 DEF AmountsCover
    <3>3. QED
      BY <3>2 DEF Covers, SumOf, AmountsSum
  <2>8. SumOf(S) = AmountsSum(payment, S)
    BY DEF SumOf, AmountsSum
  <2>9. QED
    BY <1>2, <2>4, <2>5, <2>6, <2>7, <2>8, PaymentsAssumption
<1>3. QED
  BY <1>1, <1>2, SummedBefore

(* A status that needs money is reached with it, and the money stays.      *)
LEMMA RoomStep ==
  ASSUME TypeOK, NotesForRows, CancelsAreHeld, CaptureCovers, DepositBeforeRoom,
         ClearedBeforeLeaving, [Next]_vars
  PROVE  DepositBeforeRoom' /\ ClearedBeforeLeaving'
<1> DEFINE InRoom == {"CONFIRMED", "CHECKED_IN", "CHECKED_OUT", "COMPLETED"}
<1> SUFFICES ASSUME NEW b \in Bookings
             PROVE  /\ booking'[b].status \in InRoom => booking'[b].paid >= Deposit
                    /\ booking'[b].status \in {"CHECKED_OUT", "COMPLETED"}
                       => booking'[b].remaining = 0
  BY DEF DepositBeforeRoom, ClearedBeforeLeaving
<1>1. /\ booking[b] \in Booking
      /\ booking[b].status \in InRoom => booking[b].paid >= Deposit
      /\ booking[b].status \in {"CHECKED_OUT", "COMPLETED"} => booking[b].remaining = 0
  BY DEF TypeOK, DepositBeforeRoom, ClearedBeforeLeaving
<1>2. CASE booking'[b] = booking[b]
  BY <1>1, <1>2
<1>3. ASSUME NEW to \in Targets, Moved(b, to)
      PROVE  /\ to \in InRoom => booking'[b].paid >= Deposit
             /\ to \in {"CHECKED_OUT", "COMPLETED"} => booking'[b].remaining = 0
             /\ booking'[b].status = to
  <2>1. /\ booking'[b].status = to /\ booking'[b].paid = booking[b].paid
        /\ booking'[b].remaining = booking[b].remaining
    BY <1>1, <1>3 DEF Moved, Booking
  <2>2. /\ to = "CHECKED_OUT" => booking[b].status = "CHECKED_IN"
        /\ to = "COMPLETED" => booking[b].status = "CHECKED_OUT"
    <3>1. to \in Status /\ booking[b].status \in Status /\ MayMove(booking[b].status, to)
      BY <1>1, <1>3, PaymentsAssumption DEF Moved, Booking
    <3>2. QED
      BY <3>1, TableFacts
  <2>3. QED
    BY <1>1, <1>3, <2>1, <2>2 DEF Moved
<1>4. ASSUME NEW h \in Handlers, Captured(b, h)
      PROVE  booking'[b].status = "CONFIRMED" /\ booking'[b].paid >= Deposit
  BY <1>4 DEF Captured
<1>5. ASSUME NEW q \in Requests, NEW amount \in 1..Total, Receipted(b, q, amount)
      PROVE  /\ booking'[b].status = booking[b].status
             /\ booking'[b].status \notin {"CHECKED_OUT", "COMPLETED"}
             /\ booking'[b].paid = booking[b].paid + amount
  BY <1>1, <1>5 DEF Receipted, Receipt, Booking
<1>6. ASSUME NEW q \in Requests, NEW amount \in 1..Total, Receipted(b, q, amount)
      PROVE  booking'[b].status \in InRoom => booking'[b].paid >= Deposit
  BY <1>1, <1>5, <1>6, PaymentsAssumption DEF Booking
<1>7. QED
  BY <1>2, <1>3, <1>4, <1>5, <1>6, BookingStep DEF Left

(* The bookings that were crossed stay so.                                 *)
LEMMA RacedStays ==
  ASSUME [Next]_vars
  PROVE  raced \subseteq raced'
BY DEF Next, vars, RequestLink, CancelLinks, CreateLink, DropLink, Capture, Decline, Receive, Open,
       Duplicate, Sum, CommitCapture, CommitDecline, Rollback, Receipt, Transition, NightsChange

(* Paying what is outstanding, or less, leaves what is outstanding then.   *)
LEMMA OutstandingLess ==
  ASSUME NEW paid \in Nat, NEW amount \in 1..Total, amount <= Outstanding(paid)
  PROVE  Outstanding(paid) - amount = Outstanding(paid + amount)
BY PaymentsAssumption DEF Outstanding

(* The ledger follows its rows, unless two writers crossed.                *)
LEMMA LedgerStep ==
  ASSUME TypeOK, NotesForRows, CancelsAreHeld, CaptureCovers, SumsAgree,
         LedgerDriftsOnlyByRaces, [Next]_vars
  PROVE  LedgerDriftsOnlyByRaces'
<1> SUFFICES ASSUME NEW b \in Bookings, b \notin raced'
             PROVE  /\ booking'[b].paid = SumOf(Paid(b))'
                    /\ booking'[b].remaining = Outstanding(booking'[b].paid)
  BY DEF LedgerDriftsOnlyByRaces
<1>1. /\ booking[b] \in Booking /\ b \notin raced
      /\ booking[b].paid = SumOf(Paid(b))
      /\ booking[b].remaining = Outstanding(booking[b].paid)
  BY RacedStays DEF TypeOK, LedgerDriftsOnlyByRaces
<1>2. RowsOf(payment, Paid(b))
  BY UsedRows DEF RowsOf, Paid
<1>3. CASE Left(b)
  <2>1. SumOf(Paid(b))' = SumOf(Paid(b))
    BY <1>2, <1>3, SumKept DEF Left, SumOf, AmountsSum
  <2>2. booking'[b].paid = booking[b].paid /\ booking'[b].remaining = booking[b].remaining
    BY <1>1, <1>3 DEF Left, Moved, Booking
  <2>3. QED
    BY <1>1, <2>1, <2>2
<1>4. ASSUME NEW h \in Handlers, Captured(b, h)
      PROVE  /\ booking'[b].paid = SumOf(Paid(b))'
             /\ booking'[b].remaining = Outstanding(booking'[b].paid)
  <2> DEFINE p == ipn[h].pay
             S == Paid(b) \cup {p}
  <2>1. Summed(h) /\ payment[p].booking = b /\ p \in Links /\ payment[p] \in Payment
    BY <1>4, HandledRows DEF Captured, CommitCapture, Summed
  <2>2. ipn[h].sum = SumOf(S)
    BY <1>1, <2>1 DEF SumsAgree
  <2>3. RowsOf(payment, S)
    BY <1>2, <2>1 DEF RowsOf
  <2>4. Paid(b)' = S
    BY <1>4 DEF Captured
  <2>5. SumOf(Paid(b))' = SumOf(S)
    <3> HIDE DEF S
    <3>1. QED
      BY <2>3, <2>4, SumKept DEF SumOf, AmountsSum
  <2>6. QED
    BY <1>4, <2>2, <2>5 DEF Captured
<1>5. ASSUME NEW q \in Requests, NEW amount \in 1..Total, Receipted(b, q, amount)
      PROVE  /\ booking'[b].paid = SumOf(Paid(b))'
             /\ booking'[b].remaining = Outstanding(booking'[b].paid)
  <2>1. /\ booking'[b].paid = booking[b].paid + amount
        /\ booking'[b].remaining = booking[b].remaining - amount
        /\ amount <= booking[b].remaining /\ booking[b].paid \in Nat
    BY <1>1, <1>5 DEF Receipted, Receipt, Booking
  <2>2. SumOf(Paid(b))' = SumOf(Paid(b)) + amount
    BY <1>5, ReceiptsSums
  <2>3. QED
    BY <1>1, <2>1, <2>2, OutstandingLess
<1>6. QED
  BY <1>3, <1>4, <1>5, BookingStep

(* A sum under way goes stale only by a payment that crosses it.           *)
LEMMA SumsStep ==
  ASSUME TypeOK, NotesForRows, CancelsAreHeld, CaptureCovers, SumsAgree, [Next]_vars
  PROVE  SumsAgree'
<1> SUFFICES ASSUME NEW h \in Handlers, Summed(h)',
                    NEW b \in Bookings, payment'[ipn'[h].pay].booking = b, b \notin raced'
             PROVE  ipn'[h].sum = SumOf(Paid(b) \cup {ipn[h].pay})'
  <2>1. \A h \in Handlers : Summed(h)' => payment'[ipn'[h].pay].booking \in Bookings
    BY SummedBefore, HandledRows
  <2>2. QED
    BY <2>1 DEF SumsAgree
<1> DEFINE p == ipn[h].pay
           S == Paid(b) \cup {p}
<1>1. /\ ipn[h] # Idle /\ ipn'[h].pay = p /\ payment[p].booking = b
      /\ p \in Links /\ Used(p) /\ payment[p] \in Payment
  BY SummedBefore, HandledRows
<1>2. ipn'[h].sum = SumOf(S)
  BY <1>1, SummedBefore, RacedStays DEF SumsAgree
<1>3. RowsOf(payment, S)
  BY <1>1, UsedRows DEF RowsOf, Paid
<1>4. Paid(b)' = Paid(b)
  <2>1. ASSUME NEW g \in Handlers, Captured(b, g)
        PROVE  FALSE
    <3>1. ipn'[g] = Idle /\ UNCHANGED sent /\ \A i \in Handlers \ {g} : ipn'[i] = ipn[i]
      BY <2>1 DEF Captured, CommitCapture, TypeOK
    <3>2. h # g /\ Summed(h)
      BY <3>1 DEF Summed
    <3>3. Crossed(b, {g})
      BY <1>1, <3>2 DEF Crossed, Summed
    <3>4. QED
      BY <2>1, <3>3 DEF Captured, CommitCapture
  <2>2. ASSUME NEW q \in Requests, NEW amount \in 1..Total, Receipted(b, q, amount)
        PROVE  FALSE
    <3>1. UNCHANGED ipn
      BY <2>2 DEF Receipted, Receipt
    <3>2. Crossed(b, {})
      BY <1>1, <3>1 DEF Crossed, Summed
    <3>3. QED
      BY <2>2, <3>2 DEF Receipted, Receipt
  <2>3. QED
    BY <2>1, <2>2, BookingStep DEF Left
<1>5. AmountsSum(payment', S) = AmountsSum(payment, S)
  <2> HIDE DEF S
  <2>1. QED
    BY <1>3, SumKept
<1>6. (Paid(b) \cup {ipn[h].pay})' = S
  BY <1>1, <1>4
<1>7. SumOf(Paid(b) \cup {ipn[h].pay})' = AmountsSum(payment', S)
  <2> HIDE DEF S
  <2>1. QED
    BY <1>6 DEF SumOf, AmountsSum
<1>8. QED
  BY <1>2, <1>5, <1>7 DEF SumOf, AmountsSum

(* Nothing has been paid at first.                                         *)
LEMMA InvariantInit == Init => IInv
<1> SUFFICES ASSUME Init PROVE IInv
  OBVIOUS
<1>1. \A p \in Links \cup Requests : ~ Used(p)
  BY DEF Init, Used
<1>2. \A b \in Bookings : ReceiptsOf(b) = {} /\ Paid(b) = {}
  BY <1>1 DEF ReceiptsOf, Paid, Of
<1>3. SumOf({}) = 0
  BY AmountsEmpty DEF SumOf, AmountsSum
<1>4. TypeOK
  BY PaymentsAssumption DEF Init, TypeOK, Booking, Status
<1>5. NotesForRows /\ CancelsAreHeld /\ ReceiptsArePaid /\ AmountsCover /\ SumsAgree /\ CaptureCovers
  BY <1>1 DEF Init, NotesForRows, CancelsAreHeld, ReceiptsArePaid, AmountsCover, Asked, SumsAgree,
              CaptureCovers, Summed
<1>6. EarlyLedger /\ LedgerDriftsOnlyByRaces
  <2>1. Outstanding(0) = Total /\ Total - 0 = Total
    BY PaymentsAssumption DEF Outstanding
  <2>2. \A b \in Bookings : booking[b].paid = 0 /\ booking[b].remaining = Total
    BY DEF Init
  <2>3. \A b \in Bookings : SumOf(ReceiptsOf(b)) = 0 /\ SumOf(Paid(b)) = 0
    BY <1>2, <1>3
  <2>4. QED
    BY <2>1, <2>2, <2>3 DEF EarlyLedger, LedgerDriftsOnlyByRaces
<1>7. DepositBeforeRoom /\ ClearedBeforeLeaving
  BY DEF Init, DepositBeforeRoom, ClearedBeforeLeaving
<1>8. QED
  BY <1>4, <1>5, <1>6, <1>7 DEF IInv

(* The invariant is inductive.                                             *)
LEMMA InvariantStep == IInv /\ [Next]_vars => IInv'
BY TypeStep, NotesStep, CancelsStep, ReceiptsStep, EarlyStep, AmountsStep, SumsStep, CaptureStep,
   RoomStep, LedgerStep DEF IInv

(* It holds of every behaviour.                                            *)
THEOREM Invariance == Spec => []IInv
BY InvariantInit, InvariantStep, PTL DEF Spec

(* The types hold: what remains is never negative, nor more than the total.*)
THEOREM TypeCorrect == Spec => []TypeOK
<1>1. IInv => TypeOK
  BY DEF IInv
<1>2. QED
  BY <1>1, Invariance, PTL

(* CaptureCovers, for any number of receipts and links in between.         *)
THEOREM CapturesCover == Spec => []CaptureCovers
<1>1. IInv => CaptureCovers
  BY DEF IInv
<1>2. QED
  BY <1>1, Invariance, PTL

(* DepositBeforeRoom, whichever of staff and VNPAY confirms.               *)
THEOREM DepositFirst == Spec => []DepositBeforeRoom
<1>1. IInv => DepositBeforeRoom
  BY DEF IInv
<1>2. QED
  BY <1>1, Invariance, PTL

(* ClearedBeforeLeaving, whatever notifications are still under way.       *)
THEOREM ClearedFirst == Spec => []ClearedBeforeLeaving
<1>1. IInv => ClearedBeforeLeaving
  BY DEF IInv
<1>2. QED
  BY <1>1, Invariance, PTL

(* LedgerDriftsOnlyByRaces: the two crossings are the only ways the ledger *)
(* loses money, however many handlers and receipts there are.              *)
THEOREM LedgerKept == Spec => []LedgerDriftsOnlyByRaces
<1>1. IInv => LedgerDriftsOnlyByRaces
  BY DEF IInv
<1>2. QED
  BY <1>1, Invariance, PTL

(* OffTableOnlyByCapture: a step moves a status along the table, or a      *)
(* capture that covers the deposit confirms.                               *)
THEOREM StatusesMoveByTable == Spec => OffTableOnlyByCapture
<1> DEFINE Moves == \A b \in Bookings :
                      LET old == booking[b].status
                          new == booking'[b].status IN
                      new # old =>
                        \/ MayMove(old, new)
                        \/ new = "CONFIRMED" /\ old \notin Frozen /\ booking'[b].paid >= Deposit
<1>1. IInv /\ [Next]_vars => [Moves]_booking
  <2> SUFFICES ASSUME IInv, [Next]_vars, NEW b \in Bookings,
                      booking'[b].status # booking[b].status
               PROVE  \/ MayMove(booking[b].status, booking'[b].status)
                      \/ /\ booking'[b].status = "CONFIRMED" /\ booking[b].status \notin Frozen
                         /\ booking'[b].paid >= Deposit
    OBVIOUS
  <2>1. booking[b] \in Booking
    BY DEF IInv, TypeOK
  <2>2. \/ Left(b)
        \/ \E h \in Handlers : Captured(b, h)
        \/ \E q \in Requests, amount \in 1..Total : Receipted(b, q, amount)
    BY BookingStep DEF IInv
  <2>3. CASE Left(b)
    BY <2>1, <2>3 DEF Left, Moved, Booking
  <2>4. ASSUME NEW h \in Handlers, Captured(b, h)
        PROVE  /\ booking'[b].status = "CONFIRMED" /\ booking[b].status \notin Frozen
               /\ booking'[b].paid >= Deposit
    BY <2>4 DEF Captured
  <2>5. ASSUME NEW q \in Requests, NEW amount \in 1..Total, Receipted(b, q, amount)
        PROVE  FALSE
    BY <2>1, <2>5 DEF Receipted, Booking
  <2>6. QED
    BY <2>2, <2>3, <2>4, <2>5
<1>2. QED
  BY <1>1, Invariance, PTL DEF Spec, OffTableOnlyByCapture

-----------------------------------------------------------------------------
(* Two notifications of success are about the same link, or differ.        *)
LEMMA SuccessNames ==
  ASSUME NEW p, NEW q, NEW ok, [pay |-> p, ok |-> TRUE] = [pay |-> q, ok |-> ok]
  PROVE  p = q /\ ok = TRUE
<1>1. /\ [pay |-> p, ok |-> TRUE].pay = [pay |-> q, ok |-> ok].pay
      /\ [pay |-> p, ok |-> TRUE].ok = [pay |-> q, ok |-> ok].ok
  OBVIOUS
<1>2. QED
  BY <1>1

(* No step makes an answer false: only a commit records an event or pays a *)
(* row, the batches touch rows that are PENDING, and a refusal written over*)
(* a success is a race.                                                    *)
LEMMA AnswersStep ==
  ASSUME TypeOK, NotesForRows, CancelsAreHeld, AnswersAreTrue, [Next]_vars
  PROVE  AnswersAreTrue'
<1> DEFINE True(p) ==
      /\ Used(p)' /\ payment'[p].status = "PAID" => [pay |-> p, ok |-> TRUE] \in events'
      /\ [pay |-> p, ok |-> TRUE] \in events' =>
           /\ Used(p)'
           /\ payment'[p].status = "PAID" \/ payment'[p].booking \in raced'
<1> SUFFICES ASSUME NEW p \in Links PROVE True(p)
  BY DEF AnswersAreTrue
<1>1. /\ raced \subseteq raced'
      /\ Used(p) => Used(p)' /\ payment'[p].booking = payment[p].booking
  BY RacedStays, RowsKeep
<1>2. /\ Used(p) /\ payment[p].status = "PAID" => [pay |-> p, ok |-> TRUE] \in events
      /\ [pay |-> p, ok |-> TRUE] \in events =>
           /\ Used(p)
           /\ payment[p].status = "PAID" \/ payment[p].booking \in raced
  BY DEF AnswersAreTrue
<1>3. CASE /\ UNCHANGED events
           /\ payment'[p] = payment[p]
  BY <1>1, <1>2, <1>3 DEF Used
<1>4. ASSUME NEW c \in Payers, NEW q \in Links, CreateLink(c, q)
      PROVE  True(p)
  <2>1. UNCHANGED events
    BY <1>4 DEF CreateLink
  <2>2. CASE p = q
    <3>1. /\ ~ Used(p)
          /\ payment'[p] = [booking |-> payer[c].booking, amount |-> payer[c].amount,
                            status |-> "PENDING"]
      BY <1>4, <2>2, LinkWritten
    <3>2. payment'[p].status = "PENDING"
      BY <3>1
    <3>3. QED
      BY <1>2, <2>1, <3>1, <3>2
  <2>3. CASE p \in payer[c].cancels
    <3>1. payment[p].status = "PENDING" /\ payment'[p].status = "CANCELLED"
      BY <1>4, <2>3, LinkWritten
    <3>2. QED
      BY <1>1, <1>2, <2>1, <3>1
  <2>4. CASE p # q /\ p \notin payer[c].cancels
    <3>1. payment'[p] = payment[p]
      BY <1>4, <2>4, LinkWritten
    <3>2. QED
      BY <1>3, <2>1, <3>1
  <2>5. QED
    BY <2>2, <2>3, <2>4
<1>5. ASSUME NEW h \in Handlers, CommitCapture(h)
      PROVE  True(p)
  <2>1. /\ ipn[h].pay \in Links /\ Used(ipn[h].pay)
        /\ payment' = [payment EXCEPT ![ipn[h].pay].status = "PAID"]
        /\ events' = events \cup {[pay |-> ipn[h].pay, ok |-> TRUE]}
    BY <1>5, HandledRows DEF CommitCapture
  <2>2. CASE p = ipn[h].pay
    <3>1. Used(p)' /\ payment'[p].status = "PAID"
      BY <2>1, <2>2, StatusWritten
    <3>2. QED
      BY <2>1, <2>2, <3>1
  <2>3. CASE p # ipn[h].pay
    <3>1. payment'[p] = payment[p]
      BY <2>1, <2>3, StatusWritten
    <3>2. [pay |-> p, ok |-> TRUE] \in events' <=> [pay |-> p, ok |-> TRUE] \in events
      BY <2>1, <2>3, SuccessNames
    <3>3. QED
      BY <1>1, <1>2, <3>1, <3>2 DEF Used
  <2>4. QED
    BY <2>2, <2>3
<1>6. ASSUME NEW h \in Handlers, CommitDecline(h)
      PROVE  True(p)
  <2>1. /\ ipn[h].pay \in Links /\ Used(ipn[h].pay)
        /\ payment' = [payment EXCEPT ![ipn[h].pay].status = "FAILED"]
        /\ events' = events \cup {[pay |-> ipn[h].pay, ok |-> FALSE]}
        /\ payment[ipn[h].pay].status = "PAID" => payment[ipn[h].pay].booking \in raced'
    BY <1>6, HandledRows DEF CommitDecline
  <2>2. [pay |-> p, ok |-> TRUE] \in events' <=> [pay |-> p, ok |-> TRUE] \in events
    BY <2>1, SuccessNames
  <2>3. CASE p = ipn[h].pay
    <3>1. Used(p)' /\ payment'[p].status = "FAILED"
      BY <2>1, <2>3, StatusWritten
    <3>2. QED
      BY <1>1, <1>2, <2>1, <2>2, <2>3, <3>1
  <2>4. CASE p # ipn[h].pay
    <3>1. payment'[p] = payment[p]
      BY <2>1, <2>4, StatusWritten
    <3>2. QED
      BY <1>1, <1>2, <2>2, <3>1 DEF Used
  <2>5. QED
    BY <2>3, <2>4
<1>7. ASSUME NEW b \in Bookings, NEW q \in Requests, NEW amount \in 1..Total,
             Receipt(b, q, amount)
      PROVE  True(p)
  <2>1. p # q
    BY PaymentsAssumption
  <2>2. payment'[p] = payment[p] /\ UNCHANGED events
    BY <1>7, <2>1, ReceiptWritten DEF Receipt
  <2>3. QED
    BY <1>3, <2>2
<1>8. \/ UNCHANGED <<payment, events>>
      \/ \E c \in Payers, q \in Links : CreateLink(c, q)
      \/ \E h \in Handlers : CommitCapture(h) \/ CommitDecline(h)
      \/ \E b \in Bookings, q \in Requests, amount \in 1..Total : Receipt(b, q, amount)
  BY DEF Next, vars, RequestLink, CancelLinks, DropLink, Capture, Decline, Receive, Open,
         Duplicate, Sum, Rollback, Transition, NightsChange
<1>9. QED
  BY <1>3, <1>4, <1>5, <1>6, <1>7, <1>8

(* AnswersAreTrue: VNPAY is never told "already confirmed" of money that   *)
(* is not recorded, short of the races that LedgerDriftsOnlyByRaces names. *)
THEOREM AnswersTrue == Spec => []AnswersAreTrue
<1>1. Init => AnswersAreTrue
  BY DEF Init, AnswersAreTrue, Used
<1>2. IInv /\ AnswersAreTrue /\ [Next]_vars => AnswersAreTrue'
  BY AnswersStep DEF IInv
<1>3. QED
  BY <1>1, <1>2, Invariance, PTL DEF Spec

(* The safety half of CapturesAreRecorded: a success that has been summed  *)
(* is refused only when its booking is closed for good or its nights went  *)
(* to someone else; no other state of the ledger stands in its way.        *)
THEOREM OnlyClosedOrTakenRefuse ==
  Spec => [](\A h \in Handlers : Refused(h) =>
               LET b == payment[ipn[h].pay].booking IN
               booking[b].status \in Frozen \/ taken[b])
<1> DEFINE Justified == \A h \in Handlers : Refused(h) =>
                          LET b == payment[ipn[h].pay].booking IN
                          booking[b].status \in Frozen \/ taken[b]
<1>1. IInv => Justified
  <2> SUFFICES ASSUME IInv, NEW h \in Handlers, Refused(h)
               PROVE  LET b == payment[ipn[h].pay].booking IN
                      booking[b].status \in Frozen \/ taken[b]
    OBVIOUS
  <2>1. ipn[h].sum >= Deposit
    BY DEF IInv, CaptureCovers, Refused
  <2>2. ~ Admitted(payment[ipn[h].pay].booking, "CONFIRMED")
    BY <2>1 DEF Refused, NewStatus
  <2>3. QED
    BY <2>2 DEF Admitted, TerminalGuard, Frozen, Cancelled
<1>2. QED
  BY <1>1, Invariance, PTL

-----------------------------------------------------------------------------
(* The refinement of BookingContract, which needs to know besides that the *)
(* balance is what the ledger leaves of the total, that a notification is  *)
(* handled by one transaction at a time and once, and that no one takes    *)
(* the nights of a booking that occupies them.                             *)
BalanceFollows ==
  \A b \in Bookings : booking[b].remaining = Outstanding(booking[b].paid)

HandledOnce ==
  \A h \in Handlers, p \in Links : Holds(h, p) =>
    /\ [pay |-> p, ok |-> ipn[h].ok] \notin events
    /\ \A g \in Handlers \ {h} : ~ Holds(g, p)

NightsKept == \A b \in Bookings : booking[b].status \in OCCUPYING => ~ taken[b]

CInv == IInv /\ BalanceFollows /\ HandledOnce /\ NightsKept

(* The balance is written from the ledger, or both by the same amount.     *)
LEMMA BalanceStep ==
  ASSUME TypeOK, NotesForRows, CancelsAreHeld, CaptureCovers, BalanceFollows, [Next]_vars
  PROVE  BalanceFollows'
<1> SUFFICES ASSUME NEW b \in Bookings
             PROVE  booking'[b].remaining = Outstanding(booking'[b].paid)
  BY DEF BalanceFollows
<1>1. booking[b] \in Booking /\ booking[b].remaining = Outstanding(booking[b].paid)
  BY DEF TypeOK, BalanceFollows
<1>2. CASE Left(b)
  BY <1>1, <1>2 DEF Left, Moved, Booking
<1>3. ASSUME NEW h \in Handlers, Captured(b, h)
      PROVE  booking'[b].remaining = Outstanding(booking'[b].paid)
  BY <1>3 DEF Captured
<1>4. ASSUME NEW q \in Requests, NEW amount \in 1..Total, Receipted(b, q, amount)
      PROVE  booking'[b].remaining = Outstanding(booking'[b].paid)
  <2>1. /\ booking'[b].paid = booking[b].paid + amount
        /\ booking'[b].remaining = booking[b].remaining - amount
        /\ amount <= booking[b].remaining /\ booking[b].paid \in Nat
    BY <1>1, <1>4 DEF Receipted, Receipt, Booking
  <2>2. QED
    BY <1>1, <2>1, OutstandingLess
<1>5. QED
  BY <1>2, <1>3, <1>4, BookingStep

(* A row is taken hold of by Open only, and events are recorded by the     *)
(* handler that holds the row they are about.                              *)
LEMMA HoldingStep ==
  ASSUME TypeOK, NotesForRows, [Next]_vars, NEW h \in Handlers, NEW p \in Links, Holds(h, p)'
  PROVE  /\ ipn[h] # Idle /\ ipn[h].pay = p /\ ipn'[h].ok = ipn[h].ok
         /\ Holds(h, p) \/ Open(h)
<1>1. CASE ipn'[h] = ipn[h]
  BY <1>1 DEF Holds
<1>2. CASE Open(h) \/ Sum(h)
  <2>1. ipn[h] \in Handling /\ ipn[h] # Idle
    BY <1>2, HandledRows DEF Open, Sum
  <2>2. ipn'[h].pay = ipn[h].pay /\ ipn'[h].ok = ipn[h].ok
    BY <1>2, <2>1 DEF Open, Sum, TypeOK, Handling
  <2>3. QED
    BY <1>2, <2>1, <2>2 DEF Holds, Sum
<1>3. ASSUME NEW m \in Notification, Receive(h, m)
      PROVE  FALSE
  <2>1. ipn'[h].phase = "read"
    BY <1>3 DEF Receive, TypeOK
  <2>2. QED
    BY <2>1 DEF Holds
<1>4. \/ ipn'[h] = ipn[h] \/ ipn'[h] = Idle
      \/ \E m \in Notification : Receive(h, m)
      \/ Open(h) \/ Sum(h)
  BY DEF Next, vars, TypeOK, RequestLink, CancelLinks, CreateLink, DropLink, Capture,
         Decline, Receive, Open, Duplicate, Sum, CommitCapture, CommitDecline, Rollback,
         Receipt, Transition, NightsChange
<1>5. QED
  BY <1>1, <1>2, <1>3, <1>4 DEF Holds

LEMMA RecordingStep ==
  ASSUME TypeOK, NotesForRows, [Next]_vars
  PROVE  \/ UNCHANGED events
         \/ \E g \in Handlers :
              /\ ipn[g] # Idle /\ Holds(g, ipn[g].pay) /\ ipn'[g] = Idle
              /\ events' = events \cup {[pay |-> ipn[g].pay, ok |-> ipn[g].ok]}
<1>1. ASSUME NEW g \in Handlers, CommitCapture(g) \/ CommitDecline(g)
      PROVE  /\ ipn[g] # Idle /\ Holds(g, ipn[g].pay) /\ ipn'[g] = Idle
             /\ events' = events \cup {[pay |-> ipn[g].pay, ok |-> ipn[g].ok]}
  <2>1. ipn[g] \in Handling /\ ipn[g] # Idle
    BY <1>1, HandledRows DEF CommitCapture, CommitDecline
  <2>2. Holds(g, ipn[g].pay) /\ ipn'[g] = Idle
    BY <1>1 DEF CommitCapture, CommitDecline, Holds, TypeOK
  <2>3. CASE CommitCapture(g)
    <3>1. ipn[g].ok = TRUE
      BY <2>1, <2>3 DEF NotesForRows, Summed, CommitCapture
    <3>2. QED
      BY <2>1, <2>2, <2>3, <3>1 DEF CommitCapture
  <2>4. CASE CommitDecline(g)
    <3>1. ipn[g].ok = FALSE
      BY <2>1, <2>4 DEF CommitDecline, Handling
    <3>2. QED
      BY <2>1, <2>2, <2>4, <3>1 DEF CommitDecline
  <2>5. QED
    BY <1>1, <2>3, <2>4
<1>2. UNCHANGED events \/ \E g \in Handlers : CommitCapture(g) \/ CommitDecline(g)
  BY DEF Next, vars, RequestLink, CancelLinks, CreateLink, DropLink, Capture, Decline, Receive,
         Open, Duplicate, Sum, Rollback, Receipt, Transition, NightsChange
<1>3. QED
  BY <1>1, <1>2

(* The row lock and the event together: no notification is applied twice.  *)
LEMMA HandledStep ==
  ASSUME TypeOK, NotesForRows, HandledOnce, [Next]_vars
  PROVE  HandledOnce'
<1> SUFFICES ASSUME NEW h \in Handlers, NEW p \in Links, Holds(h, p)'
             PROVE  /\ [pay |-> p, ok |-> ipn'[h].ok] \notin events'
                    /\ \A g \in Handlers \ {h} : ~ Holds(g, p)'
  BY DEF HandledOnce
<1>1. /\ ipn[h] # Idle /\ ipn[h].pay = p /\ ipn'[h].ok = ipn[h].ok
      /\ Holds(h, p) \/ Open(h)
  BY HoldingStep
<1>2. /\ [pay |-> p, ok |-> ipn[h].ok] \notin events
      /\ \A g \in Handlers \ {h} : ~ Holds(g, p)
  BY <1>1 DEF HandledOnce, Open, Recorded
<1>3. ASSUME NEW g \in Handlers \ {h}, Holds(g, p)'
      PROVE  FALSE
  <2>1. ipn[g].pay = p /\ Open(g)
    BY <1>2, <1>3, HoldingStep
  <2>2. ~ Holds(h, p) /\ ipn'[h] = ipn[h]
    BY <1>3, <2>1 DEF Open, TypeOK
  <2>3. QED
    BY <2>2 DEF Holds
<1>4. ASSUME NEW g \in Handlers, ipn[g] # Idle, Holds(g, ipn[g].pay), ipn'[g] = Idle
      PROVE  ipn[g].pay # p
  <2>1. g # h
    BY <1>4 DEF Holds
  <2>2. QED
    BY <1>2, <1>4, <2>1
<1>5. [pay |-> p, ok |-> ipn[h].ok] \notin events'
  BY <1>2, <1>4, RecordingStep
<1>6. QED
  BY <1>1, <1>3, <1>5

(* A booking that comes to occupy its nights finds them free.              *)
LEMMA NightsStep ==
  ASSUME TypeOK, NotesForRows, NightsKept, [Next]_vars
  PROVE  NightsKept'
<1> SUFFICES ASSUME NEW b \in Bookings, booking'[b].status \in OCCUPYING
             PROVE  ~ taken'[b]
  BY DEF NightsKept
<1>1. booking[b] \in Booking /\ (booking[b].status \in OCCUPYING => ~ taken[b])
  BY DEF TypeOK, NightsKept
<1>2. CASE UNCHANGED <<booking, taken>>
  BY <1>1, <1>2
<1>3. ASSUME NEW h \in Handlers, CommitCapture(h)
      PROVE  ~ taken'[b]
  <2> DEFINE a == payment[ipn[h].pay].booking
  <2>1. /\ taken' = taken /\ a \in Bookings
        /\ Admitted(a, NewStatus(ipn[h]))
    BY <1>3, HandledRows DEF CommitCapture
  <2>2. CASE a = b
    <3>1. booking'[b].status = NewStatus(ipn[h])
      BY <1>3, <2>2 DEF CommitCapture, TypeOK
    <3>2. QED
      BY <2>1, <2>2, <3>1 DEF Admitted
  <2>3. CASE a # b
    <3>1. booking'[b] = booking[b]
      BY <1>3, <2>3 DEF CommitCapture, TypeOK
    <3>2. QED
      BY <1>1, <2>1, <3>1
  <2>4. QED
    BY <2>2, <2>3
<1>4. ASSUME NEW d \in Bookings, NEW q \in Requests, NEW amount \in 1..Total,
             Receipt(d, q, amount)
      PROVE  ~ taken'[b]
  <2>1. taken' = taken /\ booking'[b].status = booking[b].status
    BY <1>1, <1>4 DEF Receipt, TypeOK, Booking
  <2>2. QED
    BY <1>1, <2>1
<1>5. ASSUME NEW d \in Bookings, NEW to \in Targets, Transition(d, to)
      PROVE  ~ taken'[b]
  <2>1. /\ taken' = taken /\ Admitted(d, to)
        /\ booking'[b].status = IF d = b THEN to ELSE booking[b].status
    BY <1>1, <1>5 DEF Transition, TypeOK, Booking
  <2>2. QED
    BY <1>1, <2>1 DEF Admitted
<1>6. ASSUME NEW d \in Bookings, NightsChange(d)
      PROVE  ~ taken'[b]
  BY <1>1, <1>6 DEF NightsChange, TypeOK
<1>7. QED
  BY <1>2, <1>3, <1>4, <1>5, <1>6
     DEF Next, vars, RequestLink, CancelLinks, CreateLink, DropLink, Capture, Decline, Receive,
         Open, Duplicate, Sum, CommitDecline, Rollback

LEMMA ContractInvariance == Spec => []CInv
<1>1. Init => CInv
  <2>1. Init => BalanceFollows
    BY PaymentsAssumption DEF Init, BalanceFollows, Outstanding
  <2>2. Init => HandledOnce /\ NightsKept
    BY DEF Init, HandledOnce, NightsKept, Holds
  <2>3. QED
    BY <2>1, <2>2, InvariantInit DEF CInv
<1>2. CInv /\ [Next]_vars => CInv'
  BY InvariantStep, BalanceStep, HandledStep, NightsStep DEF CInv, IInv
<1>3. QED
  BY <1>1, <1>2, PTL DEF Spec

-----------------------------------------------------------------------------
(* The contract's lifecycle is the code's.                                 *)
LEMMA SameLifecycle ==
  /\ Contract!Status = Status /\ Contract!Frozen = Frozen
  /\ Contract!OCCUPYING = OCCUPYING
  /\ \A s \in Status : \A to : Contract!MayMove(s, to) <=> MayMove(s, to)
<1>1. Contract!Status = Status /\ Contract!Frozen = Frozen
  BY DEF Contract!Status, Status, Contract!Cancelled, Cancelled, Contract!Frozen, Frozen
<1>2. Contract!TRANSITIONS = TRANSITIONS
  BY <1>1 DEF Contract!TRANSITIONS, TRANSITIONS, Contract!Cancelled, Cancelled
<1>3. QED
  BY <1>1, <1>2 DEF Contract!MayMove, MayMove, Contract!OCCUPYING, OCCUPYING

(* There are finitely many links and requests for links.                   *)
LEMMA AttemptsAreFinite ==
  ASSUME NEW b \in Bookings
  PROVE  /\ IsFiniteSet(Unsettled(b)) /\ IsFiniteSet(Asking(b))
         /\ Cardinality(Unsettled(b)) \in Nat /\ Cardinality(Asking(b)) \in Nat
<1>1. Unsettled(b) \subseteq Links /\ Asking(b) \subseteq Payers
  BY DEF Unsettled, Asking
<1>2. IsFiniteSet(Unsettled(b)) /\ IsFiniteSet(Asking(b))
  BY <1>1, PaymentsAssumption, FS_Subset
<1>3. QED
  BY <1>2, FS_CardinalityType

(* The account of a booking.                                               *)
LEMMA AccountShape ==
  ASSUME TypeOK, NEW b \in Bookings
  PROVE  /\ Accounts[b] \in Contract!Account /\ Accounts[b] # Idle
         /\ Accounts[b].status = booking[b].status /\ Accounts[b].level = Level(b)
         /\ Accounts[b].deposit = (Deposit > 0)
         /\ Accounts[b].attempts = Cardinality(Unsettled(b)) + Cardinality(Asking(b))
<1> DEFINE d == Deposit > 0
           n == Cardinality(Unsettled(b)) + Cardinality(Asking(b))
<1>1. Accounts[b] = [status |-> booking[b].status, deposit |-> d, level |-> Level(b),
                     attempts |-> n]
  BY DEF Accounts
<1>2. booking[b].status \in Contract!Status /\ Level(b) \in 0..2 /\ n \in Nat /\ d \in BOOLEAN
  BY AttemptsAreFinite, SameLifecycle DEF TypeOK, Booking, Level
<1> HIDE DEF d, n
<1>3. /\ Accounts[b] \in Contract!Account
      /\ Accounts[b].status = booking[b].status /\ Accounts[b].level = Level(b)
      /\ Accounts[b].deposit = d /\ Accounts[b].attempts = n
  BY <1>1, <1>2 DEF Contract!Account
<1>4. QED
  BY <1>3, NoAccountAssumption DEF d, n

(* And after a step.                                                       *)
LEMMA NextAccountShape ==
  ASSUME NEW b \in Bookings
  PROVE  TypeOK' =>
         /\ Accounts'[b] \in Contract!Account /\ Accounts'[b] # Idle
         /\ Accounts'[b].status = booking'[b].status /\ Accounts'[b].level = Level(b)'
         /\ Accounts'[b].deposit = (Deposit > 0)
         /\ Accounts'[b].attempts = Cardinality(Unsettled(b)') + Cardinality(Asking(b)')
<1>1. (TypeOK =>
         /\ Accounts[b] \in Contract!Account /\ Accounts[b] # Idle
         /\ Accounts[b].status = booking[b].status /\ Accounts[b].level = Level(b)
         /\ Accounts[b].deposit = (Deposit > 0)
         /\ Accounts[b].attempts = Cardinality(Unsettled(b)) + Cardinality(Asking(b)))'
  BY AccountShape, PTL
<1>2. QED
  BY <1>1

LEMMA InStatus ==
  ASSUME TypeOK, NEW b \in Bookings, NEW S
  PROVE  Contract!In(b, S) <=> booking[b].status \in S
  BY AccountShape DEF Contract!In

(* Accounts that differ in what a step of the contract changes.            *)
LEMMA AccountUpdates ==
  ASSUME NEW a \in Contract!Account, NEW c \in Contract!Account, a.deposit = c.deposit
  PROVE  /\ a.level = c.level /\ a.attempts = c.attempts
              => [a EXCEPT !.status = c.status] = c
         /\ a.status = c.status /\ a.attempts = c.attempts
              => [a EXCEPT !.level = c.level] = c
         /\ a.status = c.status /\ a.level = c.level
              => [a EXCEPT !.attempts = c.attempts] = c
         /\ [a EXCEPT !.status = c.status, !.level = c.level, !.attempts = c.attempts] = c
  BY DEF Contract!Account

(* A booking that a step leaves alone, with its links and requests.        *)
Untouched(b) ==
  /\ booking'[b] = booking[b]
  /\ Unsettled(b)' = Unsettled(b) /\ Asking(b)' = Asking(b)

LEMMA UntouchedAccount ==
  ASSUME NEW b \in Bookings, Untouched(b)
  PROVE  Accounts'[b] = Accounts[b]
<1>1. Level(b)' = Level(b)
  BY DEF Untouched, Level
<1>2. Accounts[b] = [status |-> booking[b].status, deposit |-> Deposit > 0, level |-> Level(b),
                     attempts |-> Cardinality(Unsettled(b)) + Cardinality(Asking(b))]
  BY DEF Accounts
<1>3. Accounts'[b] = [status |-> booking'[b].status, deposit |-> Deposit > 0,
                      level |-> Level(b)',
                      attempts |-> Cardinality(Unsettled(b)') + Cardinality(Asking(b)')]
  BY DEF Accounts
<1>4. QED
  BY <1>1, <1>2, <1>3 DEF Untouched

(* A step that touches one booking changes its account alone.              *)
LEMMA OneAccount ==
  ASSUME NEW b \in Bookings, \A d \in Bookings \ {b} : Untouched(d)
  PROVE  /\ Accounts' = [Accounts EXCEPT ![b] = Accounts'[b]]
         /\ Untouched(b) => UNCHANGED Accounts
<1>1. \A d \in Bookings \ {b} : Accounts'[d] = Accounts[d]
  BY UntouchedAccount
<1>2. Untouched(b) => Accounts'[b] = Accounts[b]
  BY UntouchedAccount
<1>3. Accounts = [d \in Bookings |-> Accounts[d]] /\ Accounts' = [d \in Bookings |-> Accounts'[d]]
  BY DEF Accounts
<1> DEFINE a == Accounts
           c == Accounts'
<1> HIDE DEF a, c
<1>4. c = [a EXCEPT ![b] = c[b]] /\ (c[b] = a[b] => c = a)
  BY <1>1, <1>3 DEF a, c
<1>5. QED
  BY <1>2, <1>4 DEF a, c

(* The account of a booking before and after a step that touches no other. *)
LEMMA UpdatedAccount ==
  ASSUME TypeOK, TypeOK', NEW b \in Bookings, \A d \in Bookings \ {b} : Untouched(d)
  PROVE  \E a, c \in Contract!Account :
           /\ a = Accounts[b] /\ a.deposit = c.deposit
           /\ Accounts' = [Accounts EXCEPT ![b] = c] /\ DOMAIN Accounts = Bookings
           /\ a.deposit = (Deposit > 0)
           /\ a.status = booking[b].status /\ c.status = booking'[b].status
           /\ a.level = Level(b) /\ c.level = Level(b)'
           /\ a.attempts = Cardinality(Unsettled(b)) + Cardinality(Asking(b))
           /\ c.attempts = Cardinality(Unsettled(b)') + Cardinality(Asking(b)')
<1> DEFINE a == Accounts[b]
           c == Accounts'[b]
<1>1. Accounts' = [Accounts EXCEPT ![b] = c] /\ DOMAIN Accounts = Bookings
  BY OneAccount DEF Accounts
<1>2. /\ a \in Contract!Account /\ c \in Contract!Account
      /\ a.deposit = (Deposit > 0) /\ c.deposit = (Deposit > 0)
      /\ a.status = booking[b].status /\ c.status = booking'[b].status
      /\ a.level = Level(b) /\ c.level = Level(b)'
      /\ a.attempts = Cardinality(Unsettled(b)) + Cardinality(Asking(b))
      /\ c.attempts = Cardinality(Unsettled(b)') + Cardinality(Asking(b)')
  BY AccountShape, NextAccountShape
<1> HIDE DEF a, c
<1>3. QED
  BY <1>1, <1>2 DEF a

(* How the level tells what has been paid.                                 *)
LEMMA LevelTells ==
  ASSUME TypeOK, NEW b \in Bookings
  PROVE  /\ Level(b) \in 0..2
         /\ booking[b].paid >= Deposit => Level(b) >= 1
         /\ Level(b) = 2 <=> booking[b].remaining = 0
         /\ BalanceFollows /\ Level(b) >= 1 => booking[b].paid >= Deposit
<1>1. booking[b] \in Booking
  BY DEF TypeOK
<1>2. BalanceFollows /\ booking[b].remaining = 0 => booking[b].paid >= Deposit
  BY <1>1, PaymentsAssumption DEF BalanceFollows, Outstanding, Booking
<1>3. QED
  BY <1>1, <1>2 DEF Level

(* Staff move a booking on.                                                *)
LEMMA TransitionMeets ==
  ASSUME TypeOK, TypeOK', NEW b \in Bookings, NEW to \in Targets, Transition(b, to)
  PROVE  Contract!Move(b, to)
<1>1. \A d \in Bookings \ {b} : Untouched(d)
  BY DEF Transition, TypeOK, Untouched, Unsettled, Asking, Of, Used
<1>2. PICK a \in Contract!Account, c \in Contract!Account :
        /\ a = Accounts[b] /\ a.deposit = c.deposit
        /\ Accounts' = [Accounts EXCEPT ![b] = c] /\ DOMAIN Accounts = Bookings
        /\ a.status = booking[b].status /\ c.status = booking'[b].status
        /\ a.level = Level(b) /\ c.level = Level(b)'
        /\ a.attempts = Cardinality(Unsettled(b)) + Cardinality(Asking(b))
        /\ c.attempts = Cardinality(Unsettled(b)') + Cardinality(Asking(b)')
  BY <1>1, UpdatedAccount
<1>3. booking[b] \in Booking /\ booking' = [booking EXCEPT ![b].status = to]
  BY DEF TypeOK, Transition
<1>4. /\ booking'[b].status = to /\ booking'[b].paid = booking[b].paid
      /\ booking'[b].remaining = booking[b].remaining
  BY <1>3 DEF TypeOK, Booking
<1>5. Level(b)' = Level(b)
  BY <1>4 DEF Level
<1>6. Unsettled(b)' = Unsettled(b) /\ Asking(b)' = Asking(b)
  BY DEF Transition, Unsettled, Asking, Of, Used
<1>7. c.status = to /\ a.level = c.level /\ a.attempts = c.attempts
  BY <1>2, <1>4, <1>5, <1>6
<1>8. Accounts' = [Accounts EXCEPT ![b].status = to]
  <2>1. a.deposit = c.deposit
    BY <1>2
  <2>2. [a EXCEPT !.status = c.status] = c
    BY <1>7, <2>1, AccountUpdates
  <2>3. QED
    BY <1>2, <1>7, <2>2
<1>9. /\ MayMove(booking[b].status, to) /\ booking[b].status \in Status
      /\ to \in {"CONFIRMED", "CHECKED_IN"} => a.level >= 1
      /\ to = "CHECKED_OUT" => a.level = 2
      /\ to \in OCCUPYING => ~ taken[b]
  BY <1>2, <1>3, LevelTells DEF Transition, Booking, Admitted
<1>10. Contract!In(b, Contract!Status)
  BY <1>9, InStatus, SameLifecycle
<1>11. QED
  BY <1>2, <1>8, <1>9, <1>10, SameLifecycle DEF Contract!Move

(* A receipt never lowers the level.                                       *)
LEMMA ReceiptMeets ==
  ASSUME TypeOK, TypeOK', NEW b \in Bookings, NEW q \in Requests, NEW amount \in 1..Total,
         Receipt(b, q, amount)
  PROVE  UNCHANGED Accounts \/ \E level \in 1..2 : Contract!Receive(b, level)
<1>1. /\ payment'[q] = [booking |-> b, amount |-> amount, status |-> "PAID"]
      /\ \A p \in Links : payment'[p] = payment[p]
  BY ReceiptWritten, PaymentsAssumption
<1>2. \A d \in Bookings : Unsettled(d)' = Unsettled(d) /\ Asking(d)' = Asking(d)
  <2>1. UNCHANGED <<events, payer>>
    BY DEF Receipt
  <2>2. \A d \in Bookings : (Links \cap Of(d))' = Links \cap Of(d)
    BY <1>1 DEF Of, Used
  <2>3. QED
    BY <2>1, <2>2 DEF Unsettled, Asking
<1>3. \A d \in Bookings \ {b} : Untouched(d)
  BY <1>2 DEF Receipt, TypeOK, Untouched
<1>4. PICK a \in Contract!Account, c \in Contract!Account :
        /\ a = Accounts[b] /\ a.deposit = c.deposit
        /\ Accounts' = [Accounts EXCEPT ![b] = c] /\ DOMAIN Accounts = Bookings
        /\ a.status = booking[b].status /\ c.status = booking'[b].status
        /\ a.level = Level(b) /\ c.level = Level(b)'
        /\ a.attempts = Cardinality(Unsettled(b)) + Cardinality(Asking(b))
        /\ c.attempts = Cardinality(Unsettled(b)') + Cardinality(Asking(b)')
  BY <1>3, UpdatedAccount
<1>5. booking[b] \in Booking
  BY DEF TypeOK
<1>6. /\ booking'[b].status = booking[b].status
      /\ booking'[b].paid = booking[b].paid + amount
      /\ booking'[b].remaining = booking[b].remaining - amount
      /\ amount <= booking[b].remaining
  BY <1>5 DEF Receipt, TypeOK, Booking
<1>7. Level(b)' \in 0..2 /\ Level(b)' >= Level(b)
  BY <1>5, <1>6, PaymentsAssumption DEF Level, Booking
<1>8. Accounts' = [Accounts EXCEPT ![b].level = c.level]
  <2>1. a.deposit = c.deposit
    BY <1>4
  <2>2. a.status = c.status /\ a.attempts = c.attempts
    BY <1>2, <1>4, <1>6
  <2>3. [a EXCEPT !.level = c.level] = c
    BY <2>1, <2>2, AccountUpdates
  <2>4. QED
    BY <1>4, <2>3
<1>9. CASE c.level = a.level
  <2>1. [Accounts[b] EXCEPT !.level = c.level] = Accounts[b]
    BY <1>4, <1>9 DEF Contract!Account
  <2>2. QED
    BY <1>4, <1>8, <2>1 DEF Accounts
<1>10. CASE c.level > a.level
  <2>1. c.level \in 1..2
    BY <1>4, <1>10 DEF Contract!Account
  <2>2. Contract!In(b, Contract!OCCUPYING)
    BY InStatus, SameLifecycle DEF Receipt, OCCUPYING
  <2>3. QED
    BY <1>4, <1>8, <1>10, <2>1, <2>2 DEF Contract!Receive
<1>11. QED
  BY <1>4, <1>7, <1>9, <1>10, LevelTells

(* Steps of the attempts at a booking, its status and level unchanged.     *)
LEMMA AttemptsChange ==
  ASSUME TypeOK, TypeOK', NEW b \in Bookings, UNCHANGED booking,
         \A d \in Bookings \ {b} : Untouched(d)
  PROVE  LET old == Cardinality(Unsettled(b)) + Cardinality(Asking(b))
             new == Cardinality(Unsettled(b)') + Cardinality(Asking(b)') IN
         /\ Accounts[b].attempts = old
         /\ Accounts' = [Accounts EXCEPT ![b].attempts = new]
         /\ new = old => UNCHANGED Accounts
<1> DEFINE old == Cardinality(Unsettled(b)) + Cardinality(Asking(b))
           new == Cardinality(Unsettled(b)') + Cardinality(Asking(b)')
<1>1. PICK a \in Contract!Account, c \in Contract!Account :
        /\ a = Accounts[b] /\ a.deposit = c.deposit
        /\ Accounts' = [Accounts EXCEPT ![b] = c] /\ DOMAIN Accounts = Bookings
        /\ a.status = booking[b].status /\ c.status = booking'[b].status
        /\ a.level = Level(b) /\ c.level = Level(b)'
        /\ a.attempts = old /\ c.attempts = new
  BY UpdatedAccount
<1> HIDE DEF old, new
<1>2. Level(b)' = Level(b)
  BY DEF Level
<1>3. Accounts' = [Accounts EXCEPT ![b].attempts = new]
  <2>1. a.deposit = c.deposit
    BY <1>1
  <2>2. a.status = c.status /\ a.level = c.level
    BY <1>1, <1>2
  <2>3. [a EXCEPT !.attempts = c.attempts] = c
    BY <2>1, <2>2, AccountUpdates
  <2>4. QED
    BY <1>1, <2>3
<1>4. ASSUME new = old
      PROVE  UNCHANGED Accounts
  <2>1. [Accounts[b] EXCEPT !.attempts = new] = Accounts[b]
    BY <1>1, <1>4 DEF Contract!Account
  <2>2. QED
    BY <1>1, <1>3, <2>1 DEF Accounts
<1>5. QED
  BY <1>1, <1>3, <1>4 DEF old, new

(* A request for a link is asked while the booking awaits its deposit.     *)
LEMMA RequestMeets ==
  ASSUME TypeOK, TypeOK', NEW c \in Payers, NEW b \in Bookings, RequestLink(c, b)
  PROVE  Contract!Ask(b)
<1>1. \A d \in Bookings : Unsettled(d)' = Unsettled(d)
  BY DEF RequestLink, Unsettled, Of, Used
<1>2. /\ payer[c] = Idle /\ \A x \in Payers \ {c} : payer'[x] = payer[x]
      /\ payer'[c] # Idle /\ payer'[c].booking = b
  <2>1. payer'[c] = [phase |-> "read", booking |-> b,
                     amount |-> AtMost(Deposit, booking[b].remaining), cancels |-> {}]
    BY DEF RequestLink, TypeOK
  <2>2. AtMost(Deposit, booking[b].remaining) \in 1..Total
    BY AmountAsked DEF RequestLink, TypeOK, Booking
  <2>3. payer'[c] \in Linking
    BY <2>1, <2>2 DEF Linking
  <2>4. QED
    BY <2>1, <2>3, AbsentAssumption DEF RequestLink, TypeOK
<1>3. /\ Asking(b)' = Asking(b) \cup {c} /\ c \notin Asking(b)
      /\ \A d \in Bookings \ {b} : Asking(d)' = Asking(d)
  BY <1>2 DEF Asking
<1>4. \A d \in Bookings \ {b} : Untouched(d)
  BY <1>1, <1>3 DEF RequestLink, Untouched
<1>5. Cardinality(Asking(b)') = Cardinality(Asking(b)) + 1
  BY <1>3, AttemptsAreFinite, FS_AddElement
<1>6. Accounts' = [Accounts EXCEPT ![b].attempts = Accounts[b].attempts + 1]
  <2>1. UNCHANGED booking
    BY DEF RequestLink
  <2> DEFINE new == Cardinality(Unsettled(b)') + Cardinality(Asking(b)')
  <2>2. new = Accounts[b].attempts + 1
    BY <1>1, <1>5, AccountShape, AttemptsAreFinite
  <2>3. Accounts' = [Accounts EXCEPT ![b].attempts = new]
    BY <1>4, <2>1, AttemptsChange
  <2> HIDE DEF new
  <2>4. QED
    BY <2>2, <2>3
<1>7. Accounts[b].deposit /\ Accounts[b].level < 2
  <2>1. booking[b] \in Booking /\ Deposit > 0 /\ booking[b].remaining > 0
    BY PaymentsAssumption DEF RequestLink, AtMost, TypeOK, Booking
  <2>2. Level(b) < 2
    BY <2>1, LevelTells
  <2>3. QED
    BY <2>1, <2>2, AccountShape
<1>8. Contract!In(b, {"PENDING_PAYMENT", "PAYMENT_FAILED"})
  BY InStatus DEF RequestLink
<1>9. QED
  BY <1>6, <1>7, <1>8 DEF Contract!Ask

(* A request that fails gives its attempt up.                              *)
LEMMA DropMeets ==
  ASSUME TypeOK, TypeOK', NEW c \in Payers, DropLink(c)
  PROVE  \E b \in Bookings : Contract!GiveUp(b)
<1>1. PICK b \in Bookings : payer[c].booking = b
  BY DEF DropLink, TypeOK, Linking
<1>2. \A d \in Bookings : Unsettled(d)' = Unsettled(d)
  BY DEF DropLink, Unsettled, Of, Used
<1>3. payer[c] # Idle /\ payer'[c] = Idle /\ \A x \in Payers \ {c} : payer'[x] = payer[x]
  BY DEF DropLink, TypeOK
<1>4. /\ Asking(b)' = Asking(b) \ {c} /\ c \in Asking(b)
      /\ \A d \in Bookings \ {b} : Asking(d)' = Asking(d)
  BY <1>1, <1>3 DEF Asking
<1>5. \A d \in Bookings \ {b} : Untouched(d)
  BY <1>2, <1>4 DEF DropLink, Untouched
<1>6. Cardinality(Asking(b)') = Cardinality(Asking(b)) - 1
  BY <1>4, AttemptsAreFinite, FS_RemoveElement
<1>7. Cardinality(Asking(b)) > 0
  BY <1>4, AttemptsAreFinite, FS_EmptySet
<1>8. /\ Accounts' = [Accounts EXCEPT ![b].attempts = Accounts[b].attempts - 1]
      /\ Accounts[b].attempts > 0
  <2>1. UNCHANGED booking
    BY DEF DropLink
  <2> DEFINE new == Cardinality(Unsettled(b)') + Cardinality(Asking(b)')
  <2>2. new = Accounts[b].attempts - 1 /\ Accounts[b].attempts > 0
    BY <1>2, <1>6, <1>7, AccountShape, AttemptsAreFinite
  <2>3. Accounts' = [Accounts EXCEPT ![b].attempts = new]
    BY <1>5, <2>1, AttemptsChange
  <2> HIDE DEF new
  <2>4. QED
    BY <2>2, <2>3
<1>9. Contract!In(b, Contract!Status)
  BY InStatus, SameLifecycle DEF TypeOK, Booking
<1>10. QED
  BY <1>8, <1>9 DEF Contract!GiveUp

(* The link that is made stands for the request that made it.              *)
LEMMA CreateMeets ==
  ASSUME TypeOK, NotesForRows, CancelsAreHeld, TypeOK', NEW c \in Payers, NEW p \in Links,
         CreateLink(c, p)
  PROVE  UNCHANGED Accounts
<1>1. payer[c] \in Linking /\ payer[c] # Idle
  BY DEF CreateLink, TypeOK
<1>2. PICK b \in Bookings : payer[c].booking = b
  BY <1>1 DEF Linking
<1>3. payer'[c] = Idle /\ \A x \in Payers \ {c} : payer'[x] = payer[x]
  BY DEF CreateLink, TypeOK
<1>4. /\ Asking(b)' = Asking(b) \ {c} /\ c \in Asking(b)
      /\ \A d \in Bookings \ {b} : Asking(d)' = Asking(d)
  BY <1>1, <1>2, <1>3 DEF Asking
<1>5. /\ payment'[p].booking = b /\ Used(p)' /\ ~ Used(p)
      /\ \A q \in Links \ {p} : /\ Used(q)' <=> Used(q)
                                /\ Used(q) => payment'[q].booking = payment[q].booking
  <2>1. payment'[p] = [booking |-> payer[c].booking, amount |-> payer[c].amount,
                       status |-> "PENDING"]
    BY LinkWritten
  <2>2. payment'[p].booking = b
    BY <1>2, <2>1
  <2>3. QED
    BY <2>2, LinkWritten
<1>6. UNCHANGED events /\ [pay |-> p, ok |-> TRUE] \notin events
  <2>1. [pay |-> p, ok |-> TRUE] \in events => Used(p)
    BY DEF TypeOK, NotesForRows
  <2>2. QED
    BY <1>5, <2>1 DEF CreateLink
<1>7. /\ Unsettled(b)' = Unsettled(b) \cup {p} /\ p \notin Unsettled(b)
      /\ \A d \in Bookings \ {b} : Unsettled(d)' = Unsettled(d)
  BY <1>5, <1>6 DEF Unsettled, Of
<1>8. \A d \in Bookings \ {b} : Untouched(d)
  BY <1>4, <1>7 DEF CreateLink, Untouched
<1>9. /\ Cardinality(Asking(b)') = Cardinality(Asking(b)) - 1
      /\ Cardinality(Unsettled(b)') = Cardinality(Unsettled(b)) + 1
  <2>1. Cardinality(Asking(b)') = Cardinality(Asking(b)) - 1
    BY <1>2, <1>4, AttemptsAreFinite, FS_RemoveElement
  <2>2. Cardinality(Unsettled(b)') = Cardinality(Unsettled(b)) + 1
    BY <1>2, <1>7, AttemptsAreFinite, FS_AddElement
  <2>3. QED
    BY <2>1, <2>2
<1>10. Cardinality(Unsettled(b)') + Cardinality(Asking(b)')
         = Cardinality(Unsettled(b)) + Cardinality(Asking(b))
  BY <1>2, <1>9, AttemptsAreFinite
<1>11. QED
  BY <1>2, <1>8, <1>10, AttemptsChange DEF CreateLink

(* Rows that keep what they are for, and events that tell of no other      *)
(* success, leave the attempts at a booking as they are.                   *)
LEMMA UnsettledKept ==
  ASSUME NEW b \in Bookings,
         \A p \in Links : /\ Used(p)' <=> Used(p)
                          /\ Used(p) => payment'[p].booking = payment[p].booking,
         \A p \in Links : Used(p) /\ payment[p].booking = b =>
           ([pay |-> p, ok |-> TRUE] \in events' <=> [pay |-> p, ok |-> TRUE] \in events)
  PROVE  Unsettled(b)' = Unsettled(b)
BY DEF Unsettled, Of

(* A capture settles its link: the notification was not recorded before.   *)
LEMMA CaptureMeets ==
  ASSUME TypeOK, NotesForRows, CaptureCovers, HandledOnce, TypeOK', NEW h \in Handlers,
         CommitCapture(h)
  PROVE  \E b \in Bookings, level \in 1..2 : Contract!Capture(b, level)
<1>1. PICK b \in Bookings, p \in Links :
        /\ ipn[h].pay = p /\ payment[p].booking = b /\ Used(p)
        /\ payment' = [payment EXCEPT ![p].status = "PAID"]
        /\ events' = events \cup {[pay |-> p, ok |-> TRUE]}
        /\ ipn[h] \in Handling /\ ipn[h] # Idle /\ ipn[h].phase = "summed"
  BY HandledRows DEF CommitCapture
<1>2. \A q \in Links : /\ Used(q)' <=> Used(q)
                       /\ Used(q) => payment'[q].booking = payment[q].booking
  BY <1>1, StatusWritten
<1>3. [pay |-> p, ok |-> TRUE] \notin events
  <2>1. Holds(h, p) /\ ipn[h].ok = TRUE
    BY <1>1 DEF Holds, NotesForRows, Summed
  <2>2. QED
    BY <2>1 DEF HandledOnce
<1>4. \A q \in Links : [pay |-> q, ok |-> TRUE] \in events'
                       <=> [pay |-> q, ok |-> TRUE] \in events \/ q = p
  <2>1. \A q \in Links : [pay |-> q, ok |-> TRUE] = [pay |-> p, ok |-> TRUE] => q = p
    <3> TAKE q \in Links
    <3> HAVE [pay |-> q, ok |-> TRUE] = [pay |-> p, ok |-> TRUE]
    <3>1. [pay |-> q, ok |-> TRUE].pay = [pay |-> p, ok |-> TRUE].pay
      OBVIOUS
    <3>2. QED
      BY <3>1
  <2>2. QED
    BY <1>1, <2>1
<1>5. Unsettled(b)' = Unsettled(b) \ {p} /\ p \in Unsettled(b)
  BY <1>1, <1>2, <1>3, <1>4 DEF Unsettled, Of
<1>6. \A d \in Bookings \ {b} : Unsettled(d)' = Unsettled(d)
  BY <1>1, <1>2, <1>4, UnsettledKept
<1>7. \A d \in Bookings : Asking(d)' = Asking(d)
  BY DEF CommitCapture, Asking
<1>8. ipn[h].sum \in Nat /\ ipn[h].sum >= Deposit /\ NewStatus(ipn[h]) = "CONFIRMED"
  BY <1>1 DEF CaptureCovers, NewStatus, Handling
<1>9. /\ booking' = [booking EXCEPT ![b] =
                       [status |-> "CONFIRMED", paid |-> ipn[h].sum,
                        remaining |-> Outstanding(ipn[h].sum)]]
      /\ booking'[b].status = "CONFIRMED" /\ booking'[b].paid = ipn[h].sum
      /\ Admitted(b, "CONFIRMED")
  BY <1>1, <1>8 DEF CommitCapture, TypeOK
<1>10. \A d \in Bookings \ {b} : Untouched(d)
  BY <1>6, <1>7, <1>9 DEF TypeOK, Untouched
<1>11. PICK a \in Contract!Account, c \in Contract!Account :
        /\ a = Accounts[b] /\ a.deposit = c.deposit
        /\ Accounts' = [Accounts EXCEPT ![b] = c] /\ DOMAIN Accounts = Bookings
        /\ c.status = booking'[b].status /\ c.level = Level(b)'
        /\ a.attempts = Cardinality(Unsettled(b)) + Cardinality(Asking(b))
        /\ c.attempts = Cardinality(Unsettled(b)') + Cardinality(Asking(b)')
  BY <1>10, UpdatedAccount
<1>12. Cardinality(Unsettled(b)') = Cardinality(Unsettled(b)) - 1
  BY <1>5, AttemptsAreFinite, FS_RemoveElement
<1>13. Cardinality(Unsettled(b)) > 0
  BY <1>5, AttemptsAreFinite, FS_EmptySet
<1>14. a.attempts > 0 /\ c.attempts = a.attempts - 1
  BY <1>7, <1>11, <1>12, <1>13, AttemptsAreFinite
<1>15. Level(b)' \in 1..2
  BY <1>8, <1>9 DEF Level
<1>16. Accounts' = [Accounts EXCEPT ![b].status = "CONFIRMED", ![b].level = Level(b)',
                                    ![b].attempts = a.attempts - 1]
  <2>1. a.deposit = c.deposit
    BY <1>11
  <2>2. [a EXCEPT !.status = c.status, !.level = c.level, !.attempts = c.attempts] = c
    BY <2>1, AccountUpdates
  <2>3. c.status = "CONFIRMED" /\ c.level = Level(b)'
    BY <1>9, <1>11
  <2>4. QED
    BY <1>11, <1>14, <2>2, <2>3
<1>17. Contract!In(b, Contract!Status \ Contract!Frozen) /\ ~ taken[b]
  <2>1. booking[b].status \in Status \ Frozen
    BY <1>9 DEF Admitted, TerminalGuard, Frozen, Cancelled, TypeOK, Booking
  <2>2. QED
    BY <1>9, <2>1, InStatus, SameLifecycle DEF Admitted, OCCUPYING
<1>18. Contract!Capture(b, Level(b)')
  BY <1>11, <1>14, <1>16, <1>17 DEF Contract!Capture
<1>19. QED
  BY <1>15, <1>18

(* What is left: steps that no account shows.                              *)
LEMMA SilentMeets ==
  ASSUME TypeOK, NotesForRows,
         \/ UNCHANGED vars
         \/ \E c \in Payers : CancelLinks(c)
         \/ \E p \in Links : Capture(p) \/ Decline(p)
         \/ \E h \in Handlers, m \in Notification : Receive(h, m)
         \/ \E h \in Handlers : Open(h) \/ Duplicate(h) \/ Sum(h) \/ Rollback(h)
         \/ \E h \in Handlers : CommitDecline(h)
         \/ \E b \in Bookings : NightsChange(b)
  PROVE  UNCHANGED Accounts
<1>1. ASSUME \A b \in Bookings : Untouched(b)
      PROVE  UNCHANGED Accounts
  <2>1. \A b \in Bookings : Accounts'[b] = Accounts[b]
    BY <1>1, UntouchedAccount
  <2>2. Accounts = [d \in Bookings |-> Accounts[d]] /\ Accounts' = [d \in Bookings |-> Accounts'[d]]
    BY DEF Accounts
  <2>3. QED
    BY <2>1, <2>2
<1>2. CASE UNCHANGED <<booking, payment, events, payer>>
  BY <1>1, <1>2 DEF Untouched, Unsettled, Asking, Of, Used
<1>3. ASSUME NEW c \in Payers, CancelLinks(c)
      PROVE  \A b \in Bookings : Untouched(b)
  <2>1. payer[c] # Idle /\ payer[c] \in Linking
    BY <1>3 DEF CancelLinks, TypeOK
  <2>2. payer'[c] \in Linking /\ payer'[c].booking = payer[c].booking
        /\ \A x \in Payers \ {c} : payer'[x] = payer[x]
    BY <1>3, <2>1 DEF CancelLinks, TypeOK, Linking
  <2>3. payer'[c] # Idle
    BY <2>2, AbsentAssumption
  <2>4. \A b \in Bookings : Asking(b)' = Asking(b)
    BY <2>1, <2>2, <2>3 DEF Asking
  <2>5. QED
    BY <1>3, <2>4 DEF CancelLinks, Untouched, Unsettled, Of, Used
<1>4. ASSUME NEW h \in Handlers, CommitDecline(h)
      PROVE  \A b \in Bookings : Untouched(b)
  <2>1. /\ ipn[h].pay \in Links /\ Used(ipn[h].pay)
        /\ payment' = [payment EXCEPT ![ipn[h].pay].status = "FAILED"]
        /\ events' = events \cup {[pay |-> ipn[h].pay, ok |-> FALSE]}
    BY <1>4, HandledRows DEF CommitDecline
  <2>2. \A q \in Links : /\ Used(q)' <=> Used(q)
                         /\ Used(q) => payment'[q].booking = payment[q].booking
    BY <2>1, StatusWritten
  <2>3. \A q \in Links : [pay |-> q, ok |-> TRUE] # [pay |-> ipn[h].pay, ok |-> FALSE]
    <3> TAKE q \in Links
    <3>1. [pay |-> q, ok |-> TRUE].ok # [pay |-> ipn[h].pay, ok |-> FALSE].ok
      OBVIOUS
    <3>2. QED
      BY <3>1
  <2>4. \A b \in Bookings : Unsettled(b)' = Unsettled(b)
    BY <2>1, <2>2, <2>3, UnsettledKept
  <2>5. QED
    BY <1>4, <2>4 DEF CommitDecline, Untouched, Asking
<1>5. \/ UNCHANGED <<booking, payment, events, payer>>
      \/ \E c \in Payers : CancelLinks(c)
      \/ \E h \in Handlers : CommitDecline(h)
  BY DEF vars, Capture, Decline, Receive, Open, Duplicate, Sum, Rollback, NightsChange
<1>6. QED
  BY <1>1, <1>2, <1>3, <1>4, <1>5

(* No booking that occupies its unit has its nights taken.                 *)
LEMMA NightsAreClear == TypeOK /\ NightsKept => Contract!Clear
BY InStatus, SameLifecycle DEF NightsKept, Contract!Clear

LEMMA NightsStayClear == (TypeOK /\ NightsKept)' => Contract!Clear'
BY NightsAreClear, PTL

(* Every step is the contract's, or no account shows it.                   *)
LEMMA ContractStep ==
  ASSUME CInv, CInv', [Next]_vars
  PROVE  [Contract!Next]_<<Accounts, taken>>
<1> DEFINE Step == UNCHANGED Accounts \/ \E b \in Bookings : Contract!Reserve(b) \/ Contract!Settle(b)
<1>1. /\ TypeOK /\ NotesForRows /\ CancelsAreHeld /\ CaptureCovers /\ HandledOnce
      /\ TypeOK'
  BY DEF CInv, IInv
<1>2. ASSUME NEW c \in Payers, NEW b \in Bookings, RequestLink(c, b)
      PROVE  Step
  BY <1>1, <1>2, RequestMeets DEF Contract!Settle
<1>3. ASSUME NEW c \in Payers, DropLink(c)
      PROVE  Step
  BY <1>1, <1>3, DropMeets DEF Contract!Settle
<1>4. ASSUME NEW c \in Payers, NEW p \in Links, CreateLink(c, p)
      PROVE  Step
  BY <1>1, <1>4, CreateMeets
<1>5. ASSUME NEW h \in Handlers, CommitCapture(h)
      PROVE  Step
  BY <1>1, <1>5, CaptureMeets DEF Contract!Settle
<1>6. ASSUME NEW b \in Bookings, NEW q \in Requests, NEW amount \in 1..Total,
             Receipt(b, q, amount)
      PROVE  Step
  BY <1>1, <1>6, ReceiptMeets DEF Contract!Settle
<1>7. ASSUME NEW b \in Bookings, NEW to \in Targets, Transition(b, to)
      PROVE  Step
  <2>1. to \in Contract!Status
    BY PaymentsAssumption, SameLifecycle
  <2>2. QED
    BY <1>1, <1>7, <2>1, TransitionMeets DEF Contract!Reserve
<1>8. Step
  <2>1. \/ UNCHANGED vars
        \/ \E c \in Payers : CancelLinks(c)
        \/ \E p \in Links : Capture(p) \/ Decline(p)
        \/ \E h \in Handlers, m \in Notification : Receive(h, m)
        \/ \E h \in Handlers : Open(h) \/ Duplicate(h) \/ Sum(h) \/ Rollback(h)
        \/ \E h \in Handlers : CommitDecline(h)
        \/ \E b \in Bookings : NightsChange(b)
      => Step
    BY <1>1, SilentMeets
  <2>2. QED
    BY <2>1, <1>2, <1>3, <1>4, <1>5, <1>6, <1>7 DEF Next
<1>9. taken' \in [Bookings -> BOOLEAN] /\ Contract!Clear'
  <2>1. NightsKept' /\ TypeOK'
    BY DEF CInv, IInv
  <2>2. QED
    BY <2>1, NightsStayClear DEF TypeOK
<1>10. QED
  BY <1>8, <1>9 DEF Contract!Next

(* The payments keep their half of the contract: whatever notifications    *)
(* are repeated, late or handled side by side, each link confirms its      *)
(* booking once at most, with the deposit covered, and never writes a      *)
(* status that staff have closed.                                          *)
THEOREM PaymentsMeetContract == Spec => MeetsContract
<1>1. Init => Contract!Init
  <2> SUFFICES ASSUME Init PROVE Contract!Init
    OBVIOUS
  <2>1. TypeOK /\ NightsKept
    BY InvariantInit DEF IInv, Init, NightsKept
  <2>2. ASSUME NEW b \in Bookings
        PROVE  Accounts[b] \in Contract!Fresh
    <3>1. Unsettled(b) = {} /\ Asking(b) = {}
      BY DEF Init, Unsettled, Asking, Of, Used
    <3>2. Accounts[b].attempts = 0
      BY <2>1, <3>1, AccountShape, FS_EmptySet
    <3>3. /\ booking[b].status = "PENDING_PAYMENT" /\ booking[b].paid = 0
          /\ booking[b].remaining = Total
      BY DEF Init
    <3>4. (Deposit > 0) <=> Level(b) = 0
      BY <3>3, PaymentsAssumption DEF Level
    <3>5. Accounts[b].deposit <=> Accounts[b].level = 0
      BY <2>1, <3>4, AccountShape
    <3>6. Accounts[b] \in Contract!Account /\ Accounts[b].status = "PENDING_PAYMENT"
      BY <2>1, <3>3, AccountShape
    <3>7. Accounts[b] \in [status: {"PENDING_PAYMENT"}, deposit: BOOLEAN, level: 0..2,
                           attempts: {0}]
      BY <3>2, <3>6 DEF Contract!Account
    <3>8. QED
      BY <3>5, <3>7 DEF Contract!Fresh
  <2>3. Accounts \in [Bookings -> Contract!Fresh \cup {Idle}]
    BY <2>2 DEF Accounts
  <2>4. Contract!Clear
    BY <2>1, NightsAreClear
  <2>5. QED
    BY <2>1, <2>3, <2>4 DEF Contract!Init, TypeOK
<1>2. QED
  BY <1>1, ContractStep, ContractInvariance, PTL DEF Spec, MeetsContract, Contract!Spec

(* What VnpayPayments assumes of the reservations is no more than the      *)
(* contract: it reckons with every move of a booking that the contract's   *)
(* other half may bring, for the statuses the bound Targets lets staff ask *)
(* for, and with every change of its nights.                               *)
THEOREM ReservationsAreReckonedWith ==
  ASSUME TypeOK, BalanceFollows, NightsKept, NEW b \in Bookings,
         UNCHANGED <<payment, events, sent, ipn, payer, raced>>
  PROVE  /\ \A to \in Targets :
              /\ booking' = [booking EXCEPT ![b].status = to] /\ UNCHANGED taken
              /\ Contract!Move(b, to)
              => Transition(b, to)
         /\ /\ taken' = [taken EXCEPT ![b] = ~ @] /\ UNCHANGED booking
            /\ TypeOK' /\ Contract!Clear'
            => NightsChange(b)
<1>1. /\ booking[b] \in Booking /\ booking[b].status \in Status
      /\ Accounts[b].status = booking[b].status /\ Accounts[b].level = Level(b)
  BY AccountShape DEF TypeOK, Booking
<1>2. ASSUME NEW to \in Targets, Contract!Move(b, to), UNCHANGED taken,
             booking' = [booking EXCEPT ![b].status = to]
      PROVE  Transition(b, to)
  <2>1. /\ MayMove(booking[b].status, to)
        /\ to \in {"CONFIRMED", "CHECKED_IN"} => Level(b) >= 1
        /\ to = "CHECKED_OUT" => Level(b) = 2
        /\ to \in OCCUPYING => ~ taken[b]
    BY <1>1, <1>2, SameLifecycle DEF Contract!Move
  <2>2. booking[b].status \notin Frozen
    BY <1>1, <2>1 DEF MayMove, TRANSITIONS, Frozen, Cancelled
  <2>3. /\ to \in {"CONFIRMED", "CHECKED_IN"} => booking[b].paid >= Deposit
        /\ to = "CHECKED_OUT" => booking[b].remaining = 0
    BY <2>1, LevelTells
  <2>4. QED
    BY <1>2, <2>1, <2>2, <2>3 DEF Transition, Admitted, TerminalGuard
<1>3. ASSUME taken' = [taken EXCEPT ![b] = ~ @], UNCHANGED booking, TypeOK', Contract!Clear'
      PROVE  NightsChange(b)
  <2>1. CASE booking[b].status \in OCCUPYING
    <3>1. ~ taken[b] /\ taken'[b]
      BY <1>3, <2>1 DEF NightsKept, TypeOK
    <3>2. /\ Accounts'[b] # Idle /\ Accounts'[b].status = booking'[b].status
      BY <1>3, NextAccountShape
    <3>3. QED
      BY <1>3, <2>1, <3>1, <3>2, SameLifecycle DEF Contract!Clear, Contract!In
  <2>2. CASE booking[b].status \notin OCCUPYING
    BY <1>3, <2>2 DEF NightsChange
  <2>3. QED
    BY <2>1, <2>2
<1>4. QED
  BY <1>2, <1>3

-----------------------------------------------------------------------------
(* What the contract promises, said of the payments.                       *)

(* No booking is confirmed or has its guest in the room before the deposit *)
(* is paid, and none is left before the total is, whichever notifications  *)
(* are half-way through.                                                   *)
THEOREM RoomsArePaidFor == Spec => []Contract!PaidAsFar
<1>1. CInv => Contract!PaidAsFar
  <2> SUFFICES ASSUME CInv, NEW b \in Bookings
               PROVE  /\ Accounts[b].status \in
                           {"CONFIRMED", "CHECKED_IN", "CHECKED_OUT", "COMPLETED"}
                           => Accounts[b].level >= 1
                      /\ Accounts[b].status \in {"CHECKED_OUT", "COMPLETED"}
                           => Accounts[b].level = 2
    BY DEF Contract!PaidAsFar, Contract!In
  <2>1. TypeOK /\ Accounts[b].status = booking[b].status /\ Accounts[b].level = Level(b)
    BY AccountShape DEF CInv, IInv
  <2>2. QED
    BY <2>1, LevelTells DEF CInv, IInv, DepositBeforeRoom, ClearedBeforeLeaving
<1>2. QED
  BY <1>1, ContractInvariance, PTL

(* Where no deposit is asked, no link is ever made.                        *)
NoDepositNoLink ==
  Deposit = 0 => (\A c \in Payers : payer[c] = Idle) /\ (\A p \in Links : ~ Used(p))

LEMMA NoLinkStep ==
  ASSUME TypeOK, NotesForRows, NoDepositNoLink, [Next]_vars
  PROVE  NoDepositNoLink'
<1> SUFFICES ASSUME Deposit = 0
             PROVE  (\A c \in Payers : payer'[c] = Idle) /\ (\A p \in Links : ~ Used(p)')
  BY DEF NoDepositNoLink
<1>1. (\A c \in Payers : payer[c] = Idle) /\ (\A p \in Links : ~ Used(p))
  BY DEF NoDepositNoLink
<1>2. ASSUME NEW c \in Payers, NEW b \in Bookings, RequestLink(c, b)
      PROVE  FALSE
  <2>1. booking[b].remaining \in Nat
    BY PaymentsAssumption DEF TypeOK, Booking
  <2>2. QED
    BY <1>2, <2>1 DEF RequestLink, AtMost
<1>3. ASSUME NEW h \in Handlers, ipn[h] # Idle
      PROVE  FALSE
  BY <1>1, <1>3, HandledRows
<1>4. ASSUME NEW b \in Bookings, NEW q \in Requests, NEW amount \in 1..Total,
             Receipt(b, q, amount)
      PROVE  UNCHANGED payer /\ \A p \in Links : payment'[p] = payment[p]
  BY <1>4, ReceiptWritten, PaymentsAssumption DEF Receipt
<1>5. \/ UNCHANGED <<payment, payer>>
      \/ \E b \in Bookings, q \in Requests, amount \in 1..Total : Receipt(b, q, amount)
  BY <1>1, <1>2, <1>3
     DEF Next, vars, CancelLinks, CreateLink, DropLink, Capture, Decline, Receive, Open, Duplicate,
         Sum, CommitCapture, CommitDecline, Rollback, Transition, NightsChange
<1>6. QED
  BY <1>1, <1>4, <1>5 DEF Used

(* Money moves a booking only while a deposit was asked for it.            *)
THEOREM LinksAreForDeposits == Spec => []Contract!OnlyDepositsAreCaptured
<1>1. Init => NoDepositNoLink
  BY DEF Init, NoDepositNoLink, Used
<1>2. IInv /\ NoDepositNoLink /\ [Next]_vars => NoDepositNoLink'
  BY NoLinkStep DEF IInv
<1>3. TypeOK /\ NoDepositNoLink => Contract!OnlyDepositsAreCaptured
  <2> SUFFICES ASSUME TypeOK, NoDepositNoLink, NEW b \in Bookings, ~ Accounts[b].deposit
               PROVE  Accounts[b].attempts = 0
    BY DEF Contract!OnlyDepositsAreCaptured, Contract!In
  <2>1. /\ Accounts[b].deposit = (Deposit > 0)
        /\ Accounts[b].attempts = Cardinality(Unsettled(b)) + Cardinality(Asking(b))
    BY AccountShape
  <2>2. Deposit = 0
    <3>1. ~ (Deposit > 0)
      BY <2>1, Zenon
    <3>2. QED
      BY <3>1, PaymentsAssumption
  <2>3. Unsettled(b) = {} /\ Asking(b) = {}
    BY <2>2 DEF NoDepositNoLink, Unsettled, Asking, Of
  <2>4. QED
    BY <2>1, <2>3, FS_EmptySet
<1>4. QED
  BY <1>1, <1>2, <1>3, Invariance, TypeCorrect, PTL DEF Spec

(* A status that is closed stays, and a deposit that was covered stays     *)
(* covered, though a notification writes the whole ledger from a sum that  *)
(* may have gone stale.                                                    *)
THEOREM BookingsAreNeverUndone == Spec => Contract!NeverUndone
<1> DEFINE Kept == \A b \in Bookings : Contract!In(b, Contract!Status) =>
             /\ Contract!In(b, Contract!Status)' /\ (Accounts'[b].deposit <=> Accounts[b].deposit)
             /\ Contract!In(b, Contract!Frozen) => Accounts'[b].status = Accounts[b].status
             /\ Accounts[b].level >= 1 => Accounts'[b].level >= 1
<1>1. ASSUME CInv, CInv', [Next]_vars
      PROVE  Kept
  <2> SUFFICES ASSUME NEW b \in Bookings
               PROVE  /\ Accounts'[b] # Idle /\ Accounts'[b].status \in Contract!Status
                      /\ Accounts'[b].deposit = Accounts[b].deposit
                      /\ Accounts[b].status \in Contract!Frozen
                           => Accounts'[b].status = Accounts[b].status
                      /\ Accounts[b].level >= 1 => Accounts'[b].level >= 1
    BY DEF Contract!In
  <2>1. /\ TypeOK /\ TypeOK' /\ BalanceFollows /\ BalanceFollows'
        /\ booking[b] \in Booking /\ booking'[b] \in Booking
    BY <1>1 DEF CInv, IInv, TypeOK
  <2>2. /\ Accounts[b].status = booking[b].status /\ Accounts[b].level = Level(b)
        /\ Accounts'[b].status = booking'[b].status /\ Accounts'[b].level = Level(b)'
        /\ Accounts'[b].deposit = Accounts[b].deposit
        /\ Accounts'[b] # Idle
    BY <2>1, AccountShape, NextAccountShape
  <2>3. booking'[b].status \in Contract!Status
    BY <2>1, SameLifecycle DEF Booking
  <2>4. Level(b) >= 1 => booking[b].paid >= Deposit
    BY <2>1, LevelTells
  <2>5. booking'[b].paid >= Deposit => Level(b)' >= 1
    BY DEF Level
  <2>6. \/ Left(b)
        \/ \E h \in Handlers : Captured(b, h)
        \/ \E q \in Requests, amount \in 1..Total : Receipted(b, q, amount)
    BY <1>1, BookingStep DEF CInv, IInv
  <2>7. booking[b].paid >= Deposit => booking'[b].paid >= Deposit
    <3>1. CASE Left(b)
      BY <2>1, <3>1 DEF Left, Moved, Booking
    <3>2. ASSUME NEW h \in Handlers, Captured(b, h)
          PROVE  booking'[b].paid >= Deposit
      BY <3>2 DEF Captured
    <3>3. ASSUME NEW q \in Requests, NEW amount \in 1..Total, Receipted(b, q, amount)
          PROVE  booking[b].paid >= Deposit => booking'[b].paid >= Deposit
      <4>1. booking'[b].paid = booking[b].paid + amount /\ booking[b].paid \in Nat
        BY <2>1, <3>3 DEF Receipted, Booking
      <4>2. QED
        BY <4>1, PaymentsAssumption
    <3>4. QED
      BY <2>6, <3>1, <3>2, <3>3
  <2>8. booking[b].status \in Frozen => booking'[b].status = booking[b].status
    <3>1. CASE Left(b)
      <4>1. ASSUME NEW to \in Targets, Moved(b, to)
            PROVE  booking[b].status \notin Frozen
        <5>1. MayMove(booking[b].status, to) /\ booking[b].status \in Status
          BY <2>1, <4>1 DEF Moved, Booking
        <5>2. QED
          BY <5>1 DEF MayMove, TRANSITIONS, Status, Frozen, Cancelled
      <4>2. QED
        BY <3>1, <4>1 DEF Left
    <3>2. ASSUME NEW h \in Handlers, Captured(b, h)
          PROVE  booking[b].status \notin Frozen
      BY <3>2 DEF Captured
    <3>3. ASSUME NEW q \in Requests, NEW amount \in 1..Total, Receipted(b, q, amount)
          PROVE  booking'[b].status = booking[b].status
      BY <2>1, <3>3 DEF Receipted, Booking
    <3>4. QED
      BY <2>6, <3>1, <3>2, <3>3
  <2>9. QED
    BY <2>2, <2>3, <2>4, <2>5, <2>7, <2>8, SameLifecycle
<1>2. CInv /\ CInv' /\ [Next]_vars => [Kept]_Accounts
  BY <1>1
<1>3. QED
  BY <1>2, ContractInvariance, PTL DEF Spec, Contract!NeverUndone
=============================================================================
