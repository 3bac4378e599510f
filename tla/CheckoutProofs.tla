----------------------------- MODULE CheckoutProofs -----------------------------
(***************************************************************************)
(* What a booking costs, for any units, terms, promotions and requests:    *)
(* the stay and total of a quote, at a price in force during the request.  *)
(* The argument follows one request: from its price on, what it carries    *)
(* and the quote it was accepted with agree, for quotes are never changed. *)
(***************************************************************************)
EXTENDS Checkout, FiniteSums

(* The rows and requests that there are, and the parts of their amounts.   *)
Shape ==
  /\ request = [r \in Requests |-> request[r]]
  /\ quotes = [q \in Quotes |-> quotes[q]]
  /\ bookings = [b \in Bookings |-> bookings[b]]
  /\ inForce = [r \in Requests |-> inForce[r]]
  /\ \A r \in Requests : request[r] # None =>
       /\ DOMAIN request[r] = {"op", "phase", "ask", "quote", "amounts"}
       /\ request[r].op \in {"quote", "create", "createBooking"}
       /\ "total" \in DOMAIN request[r].amounts /\ "deposit" \in DOMAIN request[r].amounts
  /\ \A q \in Quotes : quotes[q] # None =>
       "total" \in DOMAIN quotes[q].amounts /\ "deposit" \in DOMAIN quotes[q].amounts

(* Only a request to book is ever accepted.                                *)
QuotesAreAnswered ==
  \A r \in Requests : request[r] # None /\ request[r].phase # "priced"
    => request[r].op # "quote"

Agreement ==
  Shape /\ QuotesAreAnswered /\ RequestsInForce /\ BookedAsQuoted /\ PricedInForce

LEMMA AgreementInit == Init => Agreement
BY DEF Init, Agreement, Shape, QuotesAreAnswered, RequestsInForce, BookedAsQuoted,
       PricedInForce

(* A price has a total and a deposit, and without a promotion they are due.*)
LEMMA PricedParts ==
  ASSUME NEW ask, NEW terms, NEW promotion
  PROVE  LET amounts == Priced(ask, terms, promotion) IN
         /\ "total" \in DOMAIN amounts /\ "deposit" \in DOMAIN amounts
         /\ promotion = None => [total |-> amounts.total, deposit |-> amounts.deposit]
                                = Due(ask, terms)
BY DEF Priced, Due

LEMMA PriceKeeps ==
  ASSUME Agreement, NEW r \in Requests, NEW op \in {"quote", "create", "createBooking"},
         NEW ask \in Ask, NEW promotion \in Promotions \cup {None},
         Price(r, op, ask, promotion)
  PROVE  Agreement'
<1> DEFINE amounts == Priced(ask, unit[ask.unit].terms, promotion)
<1>1. "total" \in DOMAIN amounts /\ "deposit" \in DOMAIN amounts
  BY PricedParts
<1>2. op # "quote" =>
        [total |-> amounts.total, deposit |-> amounts.deposit] \in inForce'[r]
  <2>1. inForce'[r] = {Due(ask, unit[ask.unit].terms)}
    BY DEF Price, Agreement, Shape
  <2>2. op # "quote" => promotion = None
    BY DEF Price
  <2> QED
    BY <2>1, <2>2, PricedParts
<1>3. request' = [request EXCEPT ![r] = [op |-> op, phase |-> "priced", ask |-> ask,
                                         quote |-> None, amounts |-> amounts]]
      /\ inForce' = [inForce EXCEPT ![r] = inForce'[r]]
      /\ UNCHANGED <<quotes, bookings>>
  BY DEF Price, Agreement, Shape
<1> HIDE DEF amounts
<1>4. Shape'
  BY <1>1, <1>3 DEF Agreement, Shape
<1>5. QuotesAreAnswered' /\ RequestsInForce'
  BY <1>2, <1>3 DEF Agreement, Shape, QuotesAreAnswered, RequestsInForce
<1>6. BookedAsQuoted' /\ PricedInForce'
  BY <1>3 DEF Agreement, BookedAsQuoted, PricedInForce
<1> QED
  BY <1>4, <1>5, <1>6 DEF Agreement

LEMMA IssueKeeps ==
  ASSUME Agreement, NEW r \in Requests, NEW q \in Quotes, Issue(r, q)
  PROVE  Agreement'
<1>1. /\ quotes[q] = None /\ request[r] # None
      /\ \A p \in Quotes : p # q => quotes'[p] = quotes[p]
      /\ \A s \in Requests : s # r => request'[s] = request[s]
      /\ request'[r] = None /\ UNCHANGED <<bookings, inForce>>
  BY DEF Issue, Agreement, Shape
<1>2. Shape'
  BY DEF Issue, Agreement, Shape
<1>3. QuotesAreAnswered' /\ RequestsInForce'
  BY <1>1 DEF Agreement, QuotesAreAnswered, RequestsInForce
<1>4. BookedAsQuoted' /\ PricedInForce'
  <2>1. ASSUME NEW b \in Bookings, bookings[b] # None
        PROVE  bookings[b].quote # q \/ bookings[b].quote \notin Quotes
    BY <1>1, <2>1 DEF Agreement, BookedAsQuoted
  <2>2. ASSUME NEW b \in Bookings, bookings[b] # None
        PROVE  quotes'[bookings[b].quote] = quotes[bookings[b].quote]
    BY <2>1, <2>2 DEF Issue, Agreement, Shape
  <2> QED
    BY <1>1, <2>2 DEF Agreement, BookedAsQuoted, PricedInForce
<1> QED
  BY <1>2, <1>3, <1>4 DEF Agreement

(* What a request becomes when it is accepted and when it has begun.       *)
LEMMA RequestUpdates ==
  ASSUME NEW x, DOMAIN x = {"op", "phase", "ask", "quote", "amounts"}, NEW p, NEW q
  PROVE  /\ LET y == [x EXCEPT !.phase = p, !.quote = q] IN
            /\ DOMAIN y = {"op", "phase", "ask", "quote", "amounts"}
            /\ y.op = x.op /\ y.phase = p /\ y.ask = x.ask /\ y.quote = q
            /\ y.amounts = x.amounts
         /\ LET y == [x EXCEPT !.phase = p] IN
            /\ DOMAIN y = {"op", "phase", "ask", "quote", "amounts"}
            /\ y.op = x.op /\ y.phase = p /\ y.ask = x.ask /\ y.quote = x.quote
            /\ y.amounts = x.amounts
OBVIOUS

LEMMA AcceptKeeps ==
  ASSUME Agreement, NEW r \in Requests, NEW q \in Quotes, Accept(r, q)
  PROVE  Agreement'
<1>1. /\ request[r] # None /\ request[r].op # "quote"
      /\ request' = [request EXCEPT ![r].phase = "accepted", ![r].quote = q]
      /\ quotes[q] # None /\ quotes[q].ask = request[r].ask
      /\ quotes[q].amounts.total = request[r].amounts.total
      /\ request[r].op = "createBooking" =>
           quotes[q].amounts.deposit = request[r].amounts.deposit
      /\ UNCHANGED <<quotes, bookings, inForce>>
  BY DEF Accept
<1>2. /\ \A s \in Requests : s # r => request'[s] = request[s]
      /\ DOMAIN request'[r] = {"op", "phase", "ask", "quote", "amounts"}
      /\ request'[r].op = request[r].op /\ request'[r].phase = "accepted"
      /\ request'[r].ask = request[r].ask /\ request'[r].quote = q
      /\ request'[r].amounts = request[r].amounts
  <2>1. DOMAIN request[r] = {"op", "phase", "ask", "quote", "amounts"}
    BY <1>1 DEF Agreement, Shape
  <2>2. /\ request'[r] = [request[r] EXCEPT !.phase = "accepted", !.quote = q]
        /\ \A s \in Requests : s # r => request'[s] = request[s]
    BY <1>1 DEF Agreement, Shape
  <2> QED
    BY <2>1, <2>2, RequestUpdates
<1>3. Shape'
  <2>1. request' = [s \in Requests |-> request'[s]]
    BY <1>1 DEF Agreement, Shape
  <2>2. request[r] # None /\ UNCHANGED <<quotes, bookings, inForce>>
    BY <1>1
  <2> QED
    BY <2>1, <2>2, <1>2 DEF Agreement, Shape
<1>4. QuotesAreAnswered' /\ RequestsInForce'
  BY <1>1, <1>2 DEF Agreement, Shape, QuotesAreAnswered, RequestsInForce
<1>5. BookedAsQuoted' /\ PricedInForce'
  BY <1>1 DEF Agreement, BookedAsQuoted, PricedInForce
<1> QED
  BY <1>3, <1>4, <1>5 DEF Agreement

LEMMA BeginKeeps ==
  ASSUME Agreement, NEW r \in Requests, Begin(r)
  PROVE  Agreement'
<1>1. /\ request[r] # None /\ request[r].phase = "accepted"
      /\ request' = [request EXCEPT ![r].phase = "begun"]
      /\ UNCHANGED <<quotes, bookings, inForce>>
  BY DEF Begin
<1>2. /\ \A s \in Requests : s # r => request'[s] = request[s]
      /\ DOMAIN request'[r] = {"op", "phase", "ask", "quote", "amounts"}
      /\ request'[r].op = request[r].op /\ request'[r].phase = "begun"
      /\ request'[r].ask = request[r].ask /\ request'[r].quote = request[r].quote
      /\ request'[r].amounts = request[r].amounts
  <2>1. DOMAIN request[r] = {"op", "phase", "ask", "quote", "amounts"}
    BY <1>1 DEF Agreement, Shape
  <2>2. /\ request'[r] = [request[r] EXCEPT !.phase = "begun"]
        /\ \A s \in Requests : s # r => request'[s] = request[s]
    BY <1>1 DEF Agreement, Shape
  <2> QED
    BY <2>1, <2>2, RequestUpdates
<1>3. Shape'
  <2>1. request' = [s \in Requests |-> request'[s]]
    BY <1>1 DEF Agreement, Shape
  <2> QED
    BY <2>1, <1>1, <1>2 DEF Agreement, Shape
<1>4. QuotesAreAnswered' /\ RequestsInForce'
  BY <1>1, <1>2 DEF Agreement, Shape, QuotesAreAnswered, RequestsInForce
<1>5. BookedAsQuoted' /\ PricedInForce'
  BY <1>1 DEF Agreement, BookedAsQuoted, PricedInForce
<1> QED
  BY <1>3, <1>4, <1>5 DEF Agreement

LEMMA BookKeeps ==
  ASSUME Agreement, NEW r \in Requests, NEW b \in Bookings, Book(r, b)
  PROVE  Agreement'
<1> DEFINE x == request[r]
           amounts == IF x.op = "create" THEN x.amounts ELSE quotes[x.quote].amounts
           row == [op |-> x.op, ask |-> x.ask, quote |-> x.quote, inForce |-> inForce[r],
                   amounts |-> [amounts EXCEPT !.remaining = amounts.total]]
<1>1. /\ x # None /\ x.phase = "begun"
      /\ bookings' = [bookings EXCEPT ![b] = row]
      /\ request' = [request EXCEPT ![r] = None]
      /\ UNCHANGED <<quotes, inForce>>
  BY DEF Book
<1>2. /\ x.op # "quote" /\ x.quote \in Quotes /\ quotes[x.quote] # None
      /\ quotes[x.quote].ask = x.ask
      /\ [total |-> x.amounts.total, deposit |-> x.amounts.deposit] \in inForce[r]
      /\ quotes[x.quote].amounts.total = x.amounts.total
      /\ x.op = "createBooking" => quotes[x.quote].amounts.deposit = x.amounts.deposit
  BY <1>1 DEF Agreement, QuotesAreAnswered, RequestsInForce
<1>3. "total" \in DOMAIN amounts /\ "deposit" \in DOMAIN amounts
  BY <1>1, <1>2 DEF Agreement, Shape
<1>4. amounts.total = x.amounts.total /\ amounts.deposit = x.amounts.deposit
      /\ (x.op = "createBooking" => amounts.deposit = quotes[x.quote].amounts.deposit)
  BY <1>1, <1>2 DEF Agreement, Shape
<1>5. row.amounts.total = amounts.total /\ row.amounts.deposit = amounts.deposit
  BY <1>3
<1>6. /\ row.quote = x.quote /\ row.ask = x.ask /\ row.op = x.op
      /\ row.inForce = inForce[r]
  OBVIOUS
<1> HIDE DEF row, amounts
<1>7. Shape'
  BY <1>1 DEF Agreement, Shape
<1>8. QuotesAreAnswered' /\ RequestsInForce'
  BY <1>1 DEF Agreement, Shape, QuotesAreAnswered, RequestsInForce
<1>9. BookedAsQuoted' /\ PricedInForce'
  BY <1>1, <1>2, <1>4, <1>5, <1>6 DEF Agreement, Shape, BookedAsQuoted, PricedInForce
<1> QED
  BY <1>7, <1>8, <1>9 DEF Agreement

LEMMA DropKeeps ==
  ASSUME Agreement, NEW r \in Requests, Drop(r)
  PROVE  Agreement'
<1>1. Shape'
  BY DEF Drop, Agreement, Shape
<1>2. QuotesAreAnswered' /\ RequestsInForce'
  BY DEF Drop, Agreement, Shape, QuotesAreAnswered, RequestsInForce
<1>3. BookedAsQuoted' /\ PricedInForce'
  BY DEF Drop, Agreement, BookedAsQuoted, PricedInForce
<1> QED
  BY <1>1, <1>2, <1>3 DEF Agreement

LEMMA EditUnitKeeps ==
  ASSUME Agreement, NEW u \in Units, NEW value \in Unit, EditUnit(u, value)
  PROVE  Agreement'
<1>1. /\ inForce' = [r \in Requests |-> inForce'[r]]
      /\ \A r \in Requests : inForce[r] \subseteq inForce'[r]
      /\ UNCHANGED <<quotes, bookings, request>>
  BY DEF EditUnit
<1> QED
  BY <1>1 DEF Agreement, Shape, QuotesAreAnswered, RequestsInForce, BookedAsQuoted,
              PricedInForce

LEMMA AgreementStep == Agreement /\ [Next]_vars => Agreement'
<1> SUFFICES ASSUME Agreement, [Next]_vars PROVE Agreement'
  OBVIOUS
<1>1. ASSUME NEW r \in Requests, NEW op \in {"quote", "create", "createBooking"},
             NEW ask \in Ask, NEW promotion \in Promotions \cup {None},
             Price(r, op, ask, promotion)
      PROVE  Agreement'
  BY <1>1, PriceKeeps
<1>2. ASSUME NEW r \in Requests, NEW q \in Quotes, Issue(r, q) \/ Accept(r, q)
      PROVE  Agreement'
  BY <1>2, IssueKeeps, AcceptKeeps
<1>3. ASSUME NEW r \in Requests, NEW b \in Bookings, Book(r, b)
      PROVE  Agreement'
  BY <1>3, BookKeeps
<1>4. ASSUME NEW r \in Requests, Begin(r) \/ Drop(r)
      PROVE  Agreement'
  BY <1>4, BeginKeeps, DropKeeps
<1>5. ASSUME NEW u \in Units, NEW value \in Unit, EditUnit(u, value)
      PROVE  Agreement'
  BY <1>5, EditUnitKeeps
<1>6. ASSUME Tick \/ (\E p \in Properties : EditProperty(p)) \/ UNCHANGED vars
      PROVE  Agreement'
  <2>1. UNCHANGED <<quotes, bookings, request, inForce>>
    BY <1>6 DEF Tick, EditProperty, vars
  <2> QED
    BY <2>1 DEF Agreement, Shape, QuotesAreAnswered, RequestsInForce, BookedAsQuoted,
                PricedInForce
<1> QED
  BY <1>1, <1>2, <1>3, <1>4, <1>5, <1>6 DEF Next

(* Every booking is for the stay and the total of a quote the guest was    *)
(* given, and one made by staff for its deposit.                           *)
THEOREM BookingsMatchQuotes == Spec => []BookedAsQuoted
<1>1. Agreement => BookedAsQuoted
  BY DEF Agreement
<1> QED
  BY <1>1, AgreementInit, AgreementStep, PTL DEF Spec

(* Every booking is at a price that was in force during its request.       *)
THEOREM PricesAreInForce == Spec => []PricedInForce
<1>1. Agreement => PricedInForce
  BY DEF Agreement
<1> QED
  BY <1>1, AgreementInit, AgreementStep, PTL DEF Spec
-----------------------------------------------------------------------------
(* Arithmetic of a quote. Amounts rounded to a cent are at most half a     *)
(* cent off, and rounding keeps order; the rest is linear.                 *)

(* The price of a stay is a sum of amounts that are not negative.          *)
LEMMA SubtotalInNat ==
  ASSUME NEW ask \in Ask, NEW terms \in Terms
  PROVE  Subtotal(ask, terms) \in Nat
<1> DEFINE nights == EachNight(ask.stay)
           f == [day \in nights |-> NightAmount(ask.unit, terms, day)]
<1>1. /\ ask.unit \in Units /\ ask.stay \in Stay
      /\ ask.stay[1] \in Int /\ ask.stay[2] \in Int
  BY DaysAssumption DEF Ask, Stay
<1>2. IsFiniteSet(nights)
  <2>1. ask.stay[2] - 1 \in Int
    BY <1>1
  <2>2. IsFiniteSet(ask.stay[1] .. (ask.stay[2] - 1))
    BY <1>1, <2>1, FS_Interval
  <2> QED
    BY <2>2 DEF EachNight
<1>3. ASSUME NEW day \in nights
      PROVE  NightAmount(ask.unit, terms, day) \in Nat
  <2>1. Special[ask.unit][day] # None => Special[ask.unit][day].amount \in Nat
    BY <1>1, AmountsAssumption
  <2>2. terms.basePrice \in Nat /\ Multiplier \in Nat
    BY AmountsAssumption
  <2>3. terms.basePrice * Multiplier \in Nat
    BY <2>2
  <2>4. \A n \in Nat : Rounded(n, 100) \in Nat
    BY DEF Rounded
  <2>5. Rounded(terms.basePrice * Multiplier, 100) \in Nat
    BY <2>3, <2>4
  <2> QED
    BY <2>1, <2>2, <2>5 DEF NightAmount
<1>4. \A day \in nights : f[day] \in Nat
  BY <1>3
<1> HIDE DEF nights, f
<1>5. SumFunctionOnSet(f, nights) \in Nat
  BY <1>2, <1>4, SumInNat
<1> QED
  BY <1>5 DEF Subtotal, nights, f

LEMMA RoundsToCents ==
  ASSUME NEW n \in Int
  PROVE  /\ Rounded(n, 10000) \in Int
         /\ 2 * n - 10000 <= 20000 * Rounded(n, 10000)
         /\ 20000 * Rounded(n, 10000) <= 2 * n + 10000
         /\ n >= 0 => Rounded(n, 10000) >= 0
  BY DEF Rounded

LEMMA RoundedShare ==
  ASSUME NEW m \in Nat, NEW n \in Nat, m <= 10000 * n
  PROVE  Rounded(m, 100000000) \in Nat /\ Rounded(m, 100000000) <= Rounded(n, 10000)
  BY DEF Rounded

LEMMA RatesAreNumbers == Rate \subseteq Nat
  BY DEF Rate

(* What QuotesAddUp says of one quote.                                     *)
AddsUp(a) ==
  /\ 0 <= a.discount /\ a.discount <= a.subtotal
  /\ 0 <= a.deposit /\ a.deposit <= a.total
  /\ a.subtotal + a.fees - a.discount - a.total \in -1..1
  /\ a.deposit + a.remaining - a.total \in -1..1

LEMMA PricesAddUp ==
  ASSUME NEW ask \in Ask, NEW terms \in Terms, NEW promotion \in Promotions \cup {None}
  PROVE  Priced(ask, terms, promotion) \in Quoted /\ AddsUp(Priced(ask, terms, promotion))
<1> DEFINE subtotal == Subtotal(ask, terms)
           service  == Rounded(subtotal * terms.serviceFeeRate, 10000)
           discount == RawDiscount(promotion, subtotal)
           total    == 10000 * (subtotal + terms.cleaningFee + service) - discount
           deposit  == Rounded(total * terms.depositRate, 100000000)
<1>1. /\ subtotal \in Nat /\ terms.cleaningFee \in Nat
      /\ terms.serviceFeeRate \in Rate /\ terms.depositRate \in Rate
  BY SubtotalInNat, AmountsAssumption
<1>2. service \in Nat
  <2>1. PICK rate \in Nat : rate = terms.serviceFeeRate
    BY <1>1, RatesAreNumbers
  <2>2. ASSUME NEW m \in Nat, NEW n \in Nat
        PROVE  Rounded(m * n, 10000) \in Nat
    <3>1. m * n \in Nat
      OBVIOUS
    <3> QED
      BY <3>1, RoundsToCents
  <2> HIDE DEF subtotal
  <2>3. Rounded(subtotal * rate, 10000) \in Nat
    BY <1>1, <2>2
  <2> QED
    BY <2>1, <2>3
<1>3. discount \in 0..(10000 * subtotal)
  <2>1. CASE promotion = None
    BY <1>1, <2>1 DEF RawDiscount
  <2>2. CASE promotion # None /\ promotion.percentOff # None
    <3>1. subtotal * promotion.percentOff \in Nat
      BY <1>1, <2>2, AmountsAssumption
    <3> QED
      BY <1>1, <2>2, <3>1 DEF RawDiscount
  <2>3. CASE promotion # None /\ promotion.percentOff = None
    <3>1. promotion.amountOff \in Nat
      BY <2>3, AmountsAssumption
    <3> QED
      BY <1>1, <2>3, <3>1 DEF RawDiscount
  <2> QED
    BY <2>1, <2>2, <2>3
<1> HIDE DEF subtotal, service, discount
<1>4. total \in Nat
  BY <1>1, <1>2, <1>3
<1>5. total * terms.depositRate \in Nat /\ total * terms.depositRate <= 10000 * total
  <2>1. ASSUME NEW n \in Nat, NEW rate \in Rate
        PROVE  n * rate \in Nat /\ n * rate <= 10000 * n
    BY SMT DEF Rate
  <2> HIDE DEF total
  <2>2. PICK rate \in Rate : rate = terms.depositRate
    BY <1>1
  <2>3. total * rate \in Nat /\ total * rate <= 10000 * total
    BY <1>4, <2>1
  <2> QED
    BY <2>2, <2>3
<1>6. deposit \in Nat /\ deposit <= Rounded(total, 10000)
  <2>1. PICK m \in Nat : m = total * terms.depositRate
    BY <1>5
  <2>2. m <= 10000 * total
    BY <1>5, <2>1
  <2> HIDE DEF total
  <2>3. Rounded(m, 100000000) \in Nat /\ Rounded(m, 100000000) <= Rounded(total, 10000)
    BY <1>4, <2>1, <2>2, RoundedShare
  <2> QED
    BY <2>1, <2>3
<1> DEFINE cut == Rounded(discount, 10000)
           paid == Rounded(total, 10000)
           rest == Rounded(total - 10000 * deposit, 10000)
<1>7. /\ cut \in Nat /\ paid \in Nat /\ rest \in Int
      /\ 2 * discount - 10000 <= 20000 * cut /\ 20000 * cut <= 2 * discount + 10000
      /\ 2 * total - 10000 <= 20000 * paid /\ 20000 * paid <= 2 * total + 10000
      /\ 2 * (total - 10000 * deposit) - 10000 <= 20000 * rest
      /\ 20000 * rest <= 2 * (total - 10000 * deposit) + 10000
  <2>1. discount \in Nat
    BY <1>1, <1>3
  <2> HIDE DEF total, deposit
  <2>2. PICK left \in Int : left = total - 10000 * deposit
    BY <1>4, <1>6
  <2>3. /\ Rounded(left, 10000) \in Int
        /\ 2 * left - 10000 <= 20000 * Rounded(left, 10000)
        /\ 20000 * Rounded(left, 10000) <= 2 * left + 10000
    BY RoundsToCents
  <2>4. /\ cut \in Nat
        /\ 2 * discount - 10000 <= 20000 * cut /\ 20000 * cut <= 2 * discount + 10000
    BY <2>1, RoundsToCents
  <2>5. /\ paid \in Nat
        /\ 2 * total - 10000 <= 20000 * paid /\ 20000 * paid <= 2 * total + 10000
    BY <1>4, RoundsToCents
  <2> QED
    BY <2>2, <2>3, <2>4, <2>5
<1>8. Priced(ask, terms, promotion) =
        [subtotal |-> subtotal, fees |-> terms.cleaningFee + service, discount |-> cut,
         total |-> paid, deposit |-> deposit, remaining |-> rest]
  BY DEF Priced, subtotal, service, discount
<1>9. cut <= subtotal
  <2> HIDE DEF cut
  <2> QED
    BY <1>1, <1>3, <1>7
<1>10. /\ subtotal + (terms.cleaningFee + service) - cut - paid \in -1..1
       /\ deposit + rest - paid \in -1..1
  <2>1. total = 10000 * (subtotal + terms.cleaningFee + service) - discount
    OBVIOUS
  <2>2. discount \in Int
    BY <1>1, <1>3
  <2> HIDE DEF total, deposit, cut, paid, rest
  <2> QED
    BY <1>1, <1>2, <1>4, <1>6, <1>7, <2>1, <2>2
<1> HIDE DEF total, deposit, cut, paid, rest
<1>11. deposit <= paid
  BY <1>6 DEF paid
<1> QED
  BY <1>1, <1>2, <1>6, <1>7, <1>8, <1>9, <1>10, <1>11 DEF Quoted, AddsUp

-----------------------------------------------------------------------------
(* Types and sums: every amount a request carries or a quote shows is one  *)
(* that quote computed from terms staff may set.                           *)
CarriedAddsUp == \A r \in Requests : request[r] # None => AddsUp(request[r].amounts)

Sums == TypeOK /\ CarriedAddsUp /\ QuotesAddUp

LEMMA DueIsTyped ==
  ASSUME NEW ask \in Ask, NEW terms \in Terms
  PROVE  Due(ask, terms) \in DueAmounts
  BY PricesAddUp DEF Due, Quoted, DueAmounts

LEMMA SumsInit == Init => Sums
  BY AmountsAssumption DEF Init, Sums, TypeOK, CarriedAddsUp, QuotesAddUp

LEMMA SumsStep == Agreement /\ Sums /\ [Next]_vars => Sums'
<1> SUFFICES ASSUME Agreement, Sums, [Next]_vars PROVE Sums'
  OBVIOUS
<1> USE DEF Sums
<1>1. ASSUME NEW r \in Requests, NEW op \in {"quote", "create", "createBooking"},
             NEW ask \in Ask, NEW promotion \in Promotions \cup {None},
             Price(r, op, ask, promotion)
      PROVE  Sums'
  <2>1. unit[ask.unit].terms \in Terms
    BY DEF TypeOK, Unit, Ask
  <2> DEFINE amounts == Priced(ask, unit[ask.unit].terms, promotion)
             new == [op |-> op, phase |-> "priced", ask |-> ask, quote |-> None,
                     amounts |-> amounts]
  <2>2. amounts \in Quoted /\ AddsUp(amounts)
    BY <2>1, PricesAddUp
  <2>3. /\ request' = [request EXCEPT ![r] = new]
        /\ inForce' = [inForce EXCEPT ![r] = {Due(ask, unit[ask.unit].terms)}]
        /\ UNCHANGED <<clock, unit, active, quotes, bookings>>
    BY <1>1 DEF Price
  <2>4. Due(ask, unit[ask.unit].terms) \in DueAmounts
    BY <2>1, DueIsTyped
  <2> HIDE DEF amounts
  <2>5. ASSUME NEW s \in Requests, request'[s] # None
        PROVE  request'[s] = new \/ request'[s] = request[s]
    BY <2>3, <2>5 DEF Agreement, Shape
  <2>6. inForce' \in [Requests -> SUBSET DueAmounts]
    BY <2>3, <2>4 DEF TypeOK
  <2>7. new \in [op: {"quote", "create", "createBooking"},
                 phase: {"priced", "accepted", "begun"}, ask: Ask,
                 quote: Quotes \cup {None}, amounts: Quoted]
    BY <2>2
  <2>8. TypeOK'
    BY <2>3, <2>5, <2>6, <2>7 DEF TypeOK
  <2>9. CarriedAddsUp' /\ QuotesAddUp'
    BY <2>2, <2>3, <2>5 DEF CarriedAddsUp, QuotesAddUp, AddsUp
  <2> QED
    BY <2>8, <2>9
<1>2. ASSUME NEW r \in Requests, NEW q \in Quotes, Issue(r, q)
      PROVE  Sums'
  <2> DEFINE new == [ask |-> request[r].ask, amounts |-> request[r].amounts,
                     expiresAt |-> clock + QuoteTicks]
  <2>1. /\ request[r] # None
        /\ quotes' = [quotes EXCEPT ![q] = new]
        /\ request' = [request EXCEPT ![r] = None]
        /\ UNCHANGED <<clock, unit, active, bookings, inForce>>
    BY <1>2 DEF Issue
  <2>2. new \in [ask: Ask, amounts: Quoted, expiresAt: Int] /\ AddsUp(new.amounts)
    BY <2>1, AmountsAssumption DEF TypeOK, CarriedAddsUp
  <2> HIDE DEF new
  <2>3. ASSUME NEW p \in Quotes, quotes'[p] # None
        PROVE  quotes'[p] = new \/ quotes'[p] = quotes[p]
    BY <2>1, <2>3 DEF Agreement, Shape
  <2>4. ASSUME NEW s \in Requests, request'[s] # None
        PROVE  request'[s] = request[s]
    BY <2>1, <2>4 DEF Agreement, Shape
  <2>5. TypeOK'
    BY <2>1, <2>2, <2>3, <2>4 DEF TypeOK
  <2>6. CarriedAddsUp' /\ QuotesAddUp'
    BY <2>2, <2>3, <2>4 DEF CarriedAddsUp, QuotesAddUp, AddsUp
  <2> QED
    BY <2>5, <2>6
<1>3. ASSUME NEW r \in Requests, UNCHANGED <<clock, unit, active, quotes, bookings, inForce>>,
             request[r] # None, NEW phase \in {"accepted", "begun"},
             NEW q \in Quotes \cup {None},
             request' = [request EXCEPT ![r].phase = phase, ![r].quote = q]
      PROVE  Sums'
  <2> DEFINE new == [request[r] EXCEPT !.phase = phase, !.quote = q]
  <2>1. /\ new \in [op: {"quote", "create", "createBooking"},
                    phase: {"priced", "accepted", "begun"}, ask: Ask,
                    quote: Quotes \cup {None}, amounts: Quoted]
        /\ new.amounts = request[r].amounts
    <3>1. request[r] \in [op: {"quote", "create", "createBooking"},
                          phase: {"priced", "accepted", "begun"}, ask: Ask,
                          quote: Quotes \cup {None}, amounts: Quoted]
      BY <1>3 DEF TypeOK
    <3>2. phase \in {"priced", "accepted", "begun"}
      BY <1>3
    <3> QED
      BY <3>1, <3>2
  <2>2. request' = [request EXCEPT ![r] = new]
    BY <1>3 DEF Agreement, Shape
  <2> HIDE DEF new
  <2>3. ASSUME NEW s \in Requests, request'[s] # None
        PROVE  request'[s] = request[s] \/ (request'[s] = new /\ s = r)
    BY <2>2, <2>3 DEF Agreement, Shape
  <2>4. TypeOK'
    BY <1>3, <2>1, <2>3 DEF TypeOK
  <2>5. CarriedAddsUp' /\ QuotesAddUp'
    BY <1>3, <2>1, <2>3 DEF CarriedAddsUp, QuotesAddUp
  <2> QED
    BY <2>4, <2>5
<1>4. ASSUME NEW r \in Requests, NEW q \in Quotes, Accept(r, q)
      PROVE  Sums'
  BY <1>3, <1>4 DEF Accept
<1>5. ASSUME NEW r \in Requests, Begin(r)
      PROVE  Sums'
  <2>1. /\ request[r] # None /\ request[r].quote \in Quotes \cup {None}
        /\ request' = [request EXCEPT ![r].phase = "begun"]
        /\ UNCHANGED <<clock, unit, active, quotes, bookings, inForce>>
    BY <1>5 DEF Begin, TypeOK
  <2>2. request' = [request EXCEPT ![r].phase = "begun", ![r].quote = request[r].quote]
    <3>1. [request[r] EXCEPT !.phase = "begun"] =
            [request[r] EXCEPT !.phase = "begun", !.quote = request[r].quote]
      BY <2>1 DEF TypeOK
    <3> QED
      BY <2>1, <3>1 DEF Agreement, Shape
  <2> QED
    BY <1>3, <2>1, <2>2
<1>6. ASSUME NEW r \in Requests, NEW b \in Bookings, Book(r, b)
      PROVE  Sums'
  <2> DEFINE x == request[r]
             amounts == IF x.op = "create" THEN x.amounts ELSE quotes[x.quote].amounts
             new == [op |-> x.op, ask |-> x.ask, quote |-> x.quote, inForce |-> inForce[r],
                     amounts |-> [amounts EXCEPT !.remaining = amounts.total]]
  <2>1. /\ x # None /\ x.phase = "begun"
        /\ bookings' = [bookings EXCEPT ![b] = new]
        /\ request' = [request EXCEPT ![r] = None]
        /\ UNCHANGED <<clock, unit, active, quotes, inForce>>
    BY <1>6 DEF Book
  <2>2. x.op # "quote" /\ x.quote \in Quotes /\ quotes[x.quote] # None
    BY <2>1 DEF Agreement, QuotesAreAnswered, RequestsInForce
  <2>3. amounts \in Quoted
    BY <2>1, <2>2 DEF TypeOK
  <2>4. [amounts EXCEPT !.remaining = amounts.total] \in Quoted
    <3> HIDE DEF amounts
    <3> QED
      BY <2>3 DEF Quoted
  <2>5. /\ x.op \in {"create", "createBooking"} /\ x.ask \in Ask
        /\ inForce[r] \in SUBSET DueAmounts
    BY <2>1, <2>2 DEF TypeOK
  <2> DEFINE written == [amounts EXCEPT !.remaining = amounts.total]
  <2> HIDE DEF amounts, written
  <2>6. new = [op |-> x.op, ask |-> x.ask, quote |-> x.quote, inForce |-> inForce[r],
               amounts |-> written]
    BY DEF written
  <2>7. new \in [op: {"create", "createBooking"}, ask: Ask, quote: Quotes,
                 inForce: SUBSET DueAmounts, amounts: Quoted]
    BY <2>2, <2>4, <2>5, <2>6 DEF written
  <2> HIDE DEF new
  <2>8. ASSUME NEW c \in Bookings, bookings'[c] # None
        PROVE  bookings'[c] = new \/ bookings'[c] = bookings[c]
    BY <2>1, <2>8 DEF Agreement, Shape
  <2>9. ASSUME NEW s \in Requests, request'[s] # None
        PROVE  request'[s] = request[s]
    BY <2>1, <2>9 DEF Agreement, Shape
  <2>10. TypeOK'
    BY <2>1, <2>7, <2>8, <2>9 DEF TypeOK
  <2>11. CarriedAddsUp' /\ QuotesAddUp'
    BY <2>1, <2>9 DEF CarriedAddsUp, QuotesAddUp
  <2> QED
    BY <2>10, <2>11
<1>7. ASSUME NEW r \in Requests, Drop(r)
      PROVE  Sums'
  <2>1. ASSUME NEW s \in Requests, request'[s] # None
        PROVE  request'[s] = request[s]
    BY <1>7, <2>1 DEF Drop, Agreement, Shape
  <2>2. UNCHANGED <<clock, unit, active, quotes, bookings, inForce>>
    BY <1>7 DEF Drop
  <2> QED
    BY <2>1, <2>2 DEF TypeOK, CarriedAddsUp, QuotesAddUp
<1>8. ASSUME NEW u \in Units, NEW value \in Unit, EditUnit(u, value)
      PROVE  Sums'
  <2>1. ASSUME NEW r \in Requests, request[r] # None
        PROVE  Due(request[r].ask, value.terms) \in DueAmounts
    BY <2>1, DueIsTyped DEF TypeOK, Unit
  <2>2. inForce' \in [Requests -> SUBSET DueAmounts]
    BY <1>8, <2>1 DEF EditUnit, TypeOK
  <2>3. unit' \in [Units -> Unit] /\ UNCHANGED <<clock, active, quotes, bookings, request>>
    BY <1>8 DEF EditUnit, TypeOK
  <2> QED
    BY <2>2, <2>3 DEF TypeOK, CarriedAddsUp, QuotesAddUp
<1>9. ASSUME NEW p \in Properties, EditProperty(p)
      PROVE  Sums'
  BY <1>9 DEF EditProperty, TypeOK, CarriedAddsUp, QuotesAddUp
<1>10. ASSUME Tick
       PROVE  Sums'
  BY <1>10, AmountsAssumption DEF Tick, TypeOK, CarriedAddsUp, QuotesAddUp
<1>11. ASSUME UNCHANGED vars
       PROVE  Sums'
  BY <1>11 DEF vars, TypeOK, CarriedAddsUp, QuotesAddUp
<1> QED
  BY <1>1, <1>2, <1>4, <1>5, <1>6, <1>7, <1>8, <1>9, <1>10, <1>11 DEF Next

LEMMA SumsHold == Spec => []Sums
<1> QED
  BY AgreementInit, AgreementStep, SumsInit, SumsStep, PTL DEF Spec

(* Every state is well typed.                                              *)
THEOREM CheckoutTypeCorrect == Spec => []TypeOK
<1>1. Sums => TypeOK
  BY DEF Sums
<1> QED
  BY <1>1, SumsHold, PTL

(* The amounts of every quote fit together, for any terms within the       *)
(* validators' bounds, any daily rates and any promotion.                  *)
THEOREM EveryQuoteAddsUp == Spec => []QuotesAddUp
<1>1. Sums => QuotesAddUp
  BY DEF Sums
<1> QED
  BY <1>1, SumsHold, PTL

-----------------------------------------------------------------------------
(* Bookings start as VnpayPayments and BookingContract take them to: the   *)
(* whole total is open, and the deposit is a part of it.                   *)
OpenBalances ==
  \A b \in Bookings : bookings[b] # None =>
    LET a == bookings[b].amounts IN
    a.total \in Nat /\ a.deposit \in 0..a.total /\ a.remaining = a.total

LEMMA BalancesStep ==
  Agreement /\ Sums /\ OpenBalances /\ [Next]_vars => OpenBalances'
<1> SUFFICES ASSUME Agreement, Sums, OpenBalances, [Next]_vars PROVE OpenBalances'
  OBVIOUS
<1>1. ASSUME NEW r \in Requests, NEW b \in Bookings, Book(r, b)
      PROVE  OpenBalances'
  <2> DEFINE x == request[r]
             amounts == IF x.op = "create" THEN x.amounts ELSE quotes[x.quote].amounts
             written == [amounts EXCEPT !.remaining = amounts.total]
             new == [op |-> x.op, ask |-> x.ask, quote |-> x.quote, inForce |-> inForce[r],
                     amounts |-> written]
  <2>1. x # None /\ x.phase = "begun" /\ bookings' = [bookings EXCEPT ![b] = new]
    BY <1>1 DEF Book
  <2>2. x.op # "quote" /\ x.quote \in Quotes /\ quotes[x.quote] # None
    BY <2>1 DEF Agreement, QuotesAreAnswered, RequestsInForce
  <2>3. amounts \in Quoted
    BY <2>1, <2>2 DEF Sums, TypeOK
  <2>4. 0 <= amounts.deposit /\ amounts.deposit <= amounts.total
    BY <2>1, <2>2 DEF Sums, CarriedAddsUp, QuotesAddUp, AddsUp
  <2> HIDE DEF amounts
  <2>5. /\ written.total \in Nat /\ written.deposit \in 0..written.total
        /\ written.remaining = written.total
    BY <2>3, <2>4 DEF Quoted
  <2>6. new.amounts = written
    OBVIOUS
  <2> HIDE DEF written, new
  <2>7. ASSUME NEW c \in Bookings, bookings'[c] # None
        PROVE  bookings'[c] = new \/ bookings'[c] = bookings[c]
    BY <2>1, <2>7 DEF Agreement, Shape
  <2> QED
    BY <2>5, <2>6, <2>7 DEF OpenBalances
<1>2. CASE UNCHANGED bookings
  BY <1>2 DEF OpenBalances
<1> QED
  BY <1>1, <1>2 DEF Next, Price, Issue, Accept, Begin, Drop, EditUnit, EditProperty,
     Tick, vars

(* A booking is made with its whole total open and a deposit of at most    *)
(* the total, whichever price create computed and whichever quote staff    *)
(* booked: what the ledger and the contract of bookings start from.        *)
THEOREM BookingsOpenInFull == Spec => []OpenBalances
<1>1. Init => OpenBalances
  BY DEF Init, OpenBalances
<1> QED
  BY <1>1, AgreementInit, AgreementStep, SumsInit, SumsStep, BalancesStep, PTL DEF Spec
=================================================================================
