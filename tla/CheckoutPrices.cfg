SPECIFICATION Spec
CONSTANTS
  Days = {0, 1, 2}
  u1 = u1
  p1 = p1
  Units = {u1}
  Properties = {p1}
  PropertyOf <- MCPropertyOf
  Terms <- MCTerms
  Special <- MCSpecial
  Promotions <- MCPromotions
  Guests = {2}
  Weekend = {0}
  Multiplier = 125
  MaxNights = 2
  QuoteTicks = 1
  MaxClock = 1
  Quotes = {q1}
  Bookings = {b1}
  Requests = {r1}
  None = None
INVARIANTS TypeOK QuotesAddUp BookedAsQuoted PricedInForce
