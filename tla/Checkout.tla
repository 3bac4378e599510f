------------------------------- MODULE Checkout -------------------------------
(***************************************************************************)
(* From a price quote to the terms of a booking: PricingService.quote, and *)
(* what BookingsService.create and AdminService.createBooking make of the  *)
(* quote they are given, while staff edit the unit (AdminService.unit).    *)
(*                                                                         *)
(* The two booking operations compute the price again, compare it with the *)
(* quote, and only then open the transaction that writes the booking; each *)
(* of these is a step. Whether the nights are free is the matter of        *)
(* Reservations: a request may be dropped at any step. Daily rates, rate   *)
(* plans and promotions are constants, for no operation writes them.       *)
(*                                                                         *)
(* Amounts are integers in cents; "raw" ones, in ten-thousandths of a      *)
(* cent, are the Decimals before toFixed(2) rounds them. Rates have the    *)
(* decimals of their columns: the rates of a unit are in ten-thousandths,  *)
(* discounts in hundredths of a per cent.                                  *)
(***************************************************************************)
EXTENDS StayIntervals, Functions

CONSTANTS
  Units,
  Properties,  \* the buildings
  PropertyOf,  \* the building of each unit
  Terms,       \* bound: the prices, rates and capacities staff may set
  Guests,      \* bound: the sizes of the parties
  Weekend,     \* the days whose night is a Saturday's or a Sunday's
  Multiplier,  \* the weekend multiplier of the rate plan, in hundredths
  Special,     \* the daily rates, by unit and day: an amount and a minStay
  Promotions,  \* the promotion codes, with their discount and last tick
  MaxNights,   \* the longest stay, 365 nights
  QuoteTicks,  \* the life of a quote, 15 minutes
  MaxClock,    \* bound: the last tick of a behaviour
  Quotes,      \* keys of PriceQuote rows
  Bookings,    \* keys of Booking rows
  Requests,    \* requests being handled at one time
  None         \* no row, no request, no daily rate, no promotion

(* From nothing to all of an amount.                                       *)
Rate == 0..10000

(* What amounts and rates may be: the validators of the DTOs bound those   *)
(* of a unit; rate plans, daily rates and promotions are rows that no      *)
(* operation writes, whose amounts are taken not to be negative.           *)
ASSUME AmountsAssumption ==
  /\ Terms \subseteq [basePrice: Nat, cleaningFee: Nat, serviceFeeRate: Rate,
                      depositRate: Rate, maxGuests: Nat]
  /\ Multiplier \in Nat
  /\ \A u \in Units, s \in Stay : \A day \in EachNight(s) :
       Special[u][day] # None => Special[u][day].amount \in Nat
  /\ \A p \in Promotions :
       IF p.percentOff # None THEN p.percentOff \in Nat ELSE p.amountOff \in Nat
  /\ QuoteTicks \in Nat /\ MaxClock \in Nat

VARIABLES
  clock,
  unit,        \* the terms of each unit, and whether its status is PUBLISHED
  active,      \* the buildings whose status is ACTIVE
  quotes,
  bookings,
  request,     \* the requests being handled
  inForce      \* history: what the unit cost during each request

vars == <<clock, unit, active, quotes, bookings, request, inForce>>

(* unitId, dates and number of guests of a request.                        *)
Ask == [unit: Units, stay: Stay, guests: Guests]

Unit == [published: BOOLEAN, terms: Terms]

(* A unit guests may be quoted a price for.                                *)
OnSale(u) == unit[u].published /\ PropertyOf[u] \in active

-----------------------------------------------------------------------------
(* toFixed(2) and toDecimalPlaces(2) round half away from zero.            *)
Rounded(amount, scale) ==
  IF amount < 0 THEN -((scale - 2 * amount) \div (2 * scale))
  ELSE (2 * amount + scale) \div (2 * scale)

(* The price of one night: the daily rate, or the base price with the      *)
(* weekend multiplier.                                                     *)
NightAmount(u, terms, day) ==
  IF Special[u][day] # None THEN Special[u][day].amount
  ELSE IF day \in Weekend THEN Rounded(terms.basePrice * Multiplier, 100)
  ELSE terms.basePrice

Subtotal(ask, terms) ==
  LET nights == EachNight(ask.stay)
  IN SumFunctionOnSet([day \in nights |-> NightAmount(ask.unit, terms, day)], nights)

(* Mutant: a discount may exceed the price of the nights.                  *)
RawDiscount_Uncapped(promotion, subtotal) ==
  IF promotion = None THEN 0
  ELSE IF promotion.percentOff # None THEN subtotal * promotion.percentOff
  ELSE 10000 * promotion.amountOff

(* The discount, no more than the price of the nights.                     *)
RawDiscount(promotion, subtotal) ==
  LET off == IF promotion = None THEN 0
             ELSE IF promotion.percentOff # None THEN subtotal * promotion.percentOff
             ELSE 10000 * promotion.amountOff
  IN IF off <= 10000 * subtotal THEN off ELSE 10000 * subtotal

(* The amounts quote returns.                                              *)
Priced(ask, terms, promotion) ==
  LET subtotal == Subtotal(ask, terms)
      service  == Rounded(subtotal * terms.serviceFeeRate, 10000)
      discount == RawDiscount(promotion, subtotal)
      total    == 10000 * (subtotal + terms.cleaningFee + service) - discount
      deposit  == Rounded(total * terms.depositRate, 100000000)
  IN [subtotal |-> subtotal, fees |-> terms.cleaningFee + service,
      discount |-> Rounded(discount, 10000), total |-> Rounded(total, 10000),
      deposit |-> deposit, remaining |-> Rounded(total - 10000 * deposit, 10000)]

(* What a booking of the stay costs: no promotion reaches a booking.       *)
Due(ask, terms) ==
  LET full == Priced(ask, terms, None)
  IN [total |-> full.total, deposit |-> full.deposit]

(* The conditions under which quote prices a stay.                         *)
MayBePriced(ask) ==
  LET nights == ask.stay[2] - ask.stay[1] IN
  /\ nights <= MaxNights
  /\ OnSale(ask.unit)
  /\ ask.guests <= unit[ask.unit].terms.maxGuests
  /\ \A day \in EachNight(ask.stay) :
       Special[ask.unit][day] # None => nights >= Special[ask.unit][day].minStay

Current(promotion) == promotion # None => clock <= promotion.endsAt

-----------------------------------------------------------------------------
Init ==
  /\ clock = 0
  /\ unit \in [Units -> {x \in Unit : x.published}]
  /\ active = Properties
  /\ quotes = [q \in Quotes |-> None]
  /\ bookings = [b \in Bookings |-> None]
  /\ request = [r \in Requests |-> None]
  /\ inForce = [r \in Requests |-> {}]

(* quote prices the stay: for the answer to a pricing request, or at the   *)
(* start of a booking, which passes no promotion code.                     *)
Price(r, op, ask, promotion) ==
  /\ request[r] = None
  /\ MayBePriced(ask)
  /\ op # "quote" => promotion = None
  /\ Current(promotion)
  /\ request' = [request EXCEPT ![r] =
       [op |-> op, phase |-> "priced", ask |-> ask, quote |-> None,
        amounts |-> Priced(ask, unit[ask.unit].terms, promotion)]]
  /\ inForce' = [inForce EXCEPT ![r] = {Due(ask, unit[ask.unit].terms)}]
  /\ UNCHANGED <<clock, unit, active, quotes, bookings>>

(* The quote is stored, with its expiry.                                   *)
Issue(r, q) ==
  /\ request[r] # None /\ request[r].op = "quote" /\ quotes[q] = None
  /\ quotes' = [quotes EXCEPT ![q] =
       [ask |-> request[r].ask, amounts |-> request[r].amounts,
        expiresAt |-> clock + QuoteTicks]]
  /\ request' = [request EXCEPT ![r] = None]
  /\ UNCHANGED <<clock, unit, active, bookings, inForce>>

(* Mutant: the total of the quote is not compared.                         *)
Accept_Unmatched(r, q) ==
  LET x == request[r] IN
  /\ x # None /\ x.op # "quote" /\ x.phase = "priced"
  /\ quotes[q] # None /\ quotes[q].expiresAt > clock /\ quotes[q].ask = x.ask
  /\ request' = [request EXCEPT ![r].phase = "accepted", ![r].quote = q]
  /\ UNCHANGED <<clock, unit, active, quotes, bookings, inForce>>

(* The quote the request names is found, unexpired, for the same stay, and *)
(* with the total computed now; staff requests compare the deposit too.    *)
Accept(r, q) ==
  LET x == request[r] IN
  /\ x # None /\ x.op # "quote" /\ x.phase = "priced"
  /\ quotes[q] # None /\ quotes[q].expiresAt > clock /\ quotes[q].ask = x.ask
  /\ quotes[q].amounts.total = x.amounts.total
  /\ x.op = "createBooking" => quotes[q].amounts.deposit = x.amounts.deposit
  /\ request' = [request EXCEPT ![r].phase = "accepted", ![r].quote = q]
  /\ UNCHANGED <<clock, unit, active, quotes, bookings, inForce>>

(* Mutant: a guest's request goes on without the quote it names.           *)
Begin_Unquoted(r) ==
  LET x == request[r] IN
  /\ x # None
  /\ x.phase = "accepted" \/ (x.phase = "priced" /\ x.op = "create")
  /\ x.op = "createBooking" => unit[x.ask.unit].published
  /\ request' = [request EXCEPT ![r].phase = "begun"]
  /\ UNCHANGED <<clock, unit, active, quotes, bookings, inForce>>

(* The transaction begins with the lock, whose statement takes the         *)
(* snapshot; createBooking reads the status of the unit again, from it.    *)
Begin(r) ==
  LET x == request[r] IN
  /\ x # None /\ x.phase = "accepted"
  /\ x.op = "createBooking" => unit[x.ask.unit].published
  /\ request' = [request EXCEPT ![r].phase = "begun"]
  /\ UNCHANGED <<clock, unit, active, quotes, bookings, inForce>>

(* The transaction writes the booking: create with the amounts it computed,*)
(* createBooking with those of the quote. Its remaining amount starts as   *)
(* the total.                                                              *)
Book(r, b) ==
  LET x == request[r]
      amounts == IF x.op = "create" THEN x.amounts ELSE quotes[x.quote].amounts IN
  /\ x # None /\ x.phase = "begun" /\ bookings[b] = None
  /\ bookings' = [bookings EXCEPT ![b] =
       [op |-> x.op, ask |-> x.ask, quote |-> x.quote, inForce |-> inForce[r],
        amounts |-> [amounts EXCEPT !.remaining = amounts.total]]]
  /\ request' = [request EXCEPT ![r] = None]
  /\ UNCHANGED <<clock, unit, active, quotes, inForce>>

(* An error, nights that are taken, a crash.                               *)
Drop(r) ==
  /\ request[r] # None
  /\ request' = [request EXCEPT ![r] = None]
  /\ UNCHANGED <<clock, unit, active, quotes, bookings, inForce>>

(* AdminService.unit: the unit is published or not, or costs another price.*)
EditUnit(u, value) ==
  /\ unit' = [unit EXCEPT ![u] = value]
  /\ inForce' = [r \in Requests |->
       IF request[r] # None /\ request[r].ask.unit = u
       THEN inForce[r] \cup {Due(request[r].ask, value.terms)}
       ELSE inForce[r]]
  /\ UNCHANGED <<clock, active, quotes, bookings, request>>

(* AdminService.property.                                                  *)
EditProperty(p) ==
  /\ active' = IF p \in active THEN active \ {p} ELSE active \cup {p}
  /\ UNCHANGED <<clock, unit, quotes, bookings, request, inForce>>

Tick ==
  /\ clock < MaxClock
  /\ clock' = clock + 1
  /\ UNCHANGED <<unit, active, quotes, bookings, request, inForce>>

Next ==
  \/ \E r \in Requests, op \in {"quote", "create", "createBooking"}, ask \in Ask,
        promotion \in Promotions \cup {None} : Price(r, op, ask, promotion)
  \/ \E r \in Requests, q \in Quotes : Issue(r, q) \/ Accept(r, q)
  \/ \E r \in Requests, b \in Bookings : Book(r, b)
  \/ \E r \in Requests : Begin(r) \/ Drop(r)
  \/ \E u \in Units, value \in Unit : EditUnit(u, value)
  \/ \E p \in Properties : EditProperty(p)
  \/ Tick

Spec == Init /\ [][Next]_vars

-----------------------------------------------------------------------------
Quoted == [subtotal: Int, fees: Int, discount: Int, total: Int, deposit: Int,
           remaining: Int]

DueAmounts == [total: Int, deposit: Int]

TypeOK ==
  /\ clock \in 0..MaxClock
  /\ unit \in [Units -> Unit]
  /\ active \subseteq Properties
  /\ \A q \in Quotes : quotes[q] # None =>
       quotes[q] \in [ask: Ask, amounts: Quoted, expiresAt: Int]
  /\ \A b \in Bookings : bookings[b] # None =>
       /\ bookings[b] \in [op: {"create", "createBooking"}, ask: Ask, quote: Quotes,
                           inForce: SUBSET DueAmounts, amounts: Quoted]
  /\ \A r \in Requests : request[r] # None =>
       request[r] \in [op: {"quote", "create", "createBooking"},
                       phase: {"priced", "accepted", "begun"}, ask: Ask,
                       quote: Quotes \cup {None}, amounts: Quoted]
  /\ inForce \in [Requests -> SUBSET DueAmounts]

(* The amounts of a quote fit together whatever the rates, the promotion   *)
(* and the daily rates are: no discount beyond the nights, no deposit      *)
(* beyond the total, and rounding loses at most a cent.                    *)
QuotesAddUp ==
  \A q \in Quotes : quotes[q] # None =>
    LET a == quotes[q].amounts IN
    /\ 0 <= a.discount /\ a.discount <= a.subtotal
    /\ 0 <= a.deposit /\ a.deposit <= a.total
    /\ a.subtotal + a.fees - a.discount - a.total \in -1..1
    /\ a.deposit + a.remaining - a.total \in -1..1

(* A booking is for the stay and the total of a quote the guest was given; *)
(* one made by staff asks for the deposit of the quote as well.            *)
BookedAsQuoted ==
  \A b \in Bookings : bookings[b] # None =>
    LET x == bookings[b]
        q == quotes[x.quote] IN
    /\ q # None /\ q.ask = x.ask /\ q.amounts.total = x.amounts.total
    /\ x.op = "createBooking" => q.amounts.deposit = x.amounts.deposit

(* No booking is at a price from before the request: its total and deposit *)
(* are what the unit cost at some moment while the request was handled,    *)
(* however old the quote is and whatever promotion it was for.             *)
PricedInForce ==
  \A b \in Bookings : bookings[b] # None =>
    [total |-> bookings[b].amounts.total, deposit |-> bookings[b].amounts.deposit]
      \in bookings[b].inForce

-----------------------------------------------------------------------------
(* What makes PricedInForce inductive: a request carries amounts that were *)
(* in force, and the quote it was accepted with agrees with them.          *)
RequestsInForce ==
  \A r \in Requests : request[r] # None /\ request[r].op # "quote" =>
    /\ [total |-> request[r].amounts.total, deposit |-> request[r].amounts.deposit]
         \in inForce[r]
    /\ request[r].phase # "priced" =>
         LET q == quotes[request[r].quote] IN
         /\ request[r].quote \in Quotes /\ q # None
         /\ q.ask = request[r].ask /\ q.amounts.total = request[r].amounts.total
         /\ request[r].op = "createBooking" =>
              q.amounts.deposit = request[r].amounts.deposit
=============================================================================
