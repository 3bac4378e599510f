--------------------------- MODULE PromisesProofs ---------------------------
(***************************************************************************)
(* The promises of the two abstract specifications, for every set of       *)
(* holders, units, days and bookings: what Inventory promises of the       *)
(* nights, and what BookingContract promises of a booking and its money.   *)
(***************************************************************************)
EXTENDS Inventory, TLAPS

CONSTANTS
  Bookings,   \* of the contract
  None

VARIABLES account, taken

Contract == INSTANCE BookingContract

-----------------------------------------------------------------------------
(* Inventory: both invariants are inductive once the type of granted is    *)
(* known, because the conflict of two claims is symmetric.                 *)

(* Sharing a night is symmetric, so a check made by the newcomer protects  *)
(* the claims already there.                                               *)
LEMMA ConflictSymmetric ==
  ASSUME NEW a \in Claim, NEW b \in Claim
  PROVE  Conflict(a, b) <=> Conflict(b, a)
  BY DEF Conflict, Overlaps

(* Every grant, reinstatement and release leaves granted a map from        *)
(* holders to claims.                                                      *)
THEOREM InventoryTypeCorrect == Spec => []TypeOK
<1>1. Init => TypeOK
  BY DEF Init, TypeOK
<1>2. TypeOK /\ [Next]_granted => TypeOK'
  BY DEF TypeOK, Next, Grant, Reinstate, Release
<1>3. QED
  BY <1>1, <1>2, PTL DEF Spec

(* No two bookings ever hold a common night of one unit: the exclusion     *)
(* constraint is the guard of both ways to claim for a booking.            *)
THEOREM NoDoubleBooking == Spec => []BookingsDisjoint
<1>1. Init => BookingsDisjoint
  BY DEF Init, BookingsDisjoint, Held
<1>2. TypeOK /\ BookingsDisjoint /\ [Next]_granted => BookingsDisjoint'
  <2> SUFFICES ASSUME TypeOK, BookingsDisjoint, [Next]_granted,
                      NEW c \in Holders, NEW d \in Holders,
                      c # d, Held(c)', Held(d)',
                      (granted[c].kind = "booking")',
                      (granted[d].kind = "booking")'
               PROVE  ~ Conflict(granted[c], granted[d])'
    BY DEF BookingsDisjoint
  <2>1. ASSUME NEW e \in Holders, NEW r \in Claim, Grant(e, r) \/ Reinstate(e, r)
        PROVE  ~ Conflict(granted[c], granted[d])'
    <3>1. /\ granted' = [granted EXCEPT ![e] = r]
          /\ r.kind = "booking" => ClearOfBookings(e, r)
      BY <2>1 DEF Grant, Reinstate
    <3>2. CASE c = e
      <4>1. granted'[c] = r /\ granted'[d] = granted[d]
        BY <3>1, <3>2 DEF TypeOK
      <4>2. ~ Conflict(r, granted[d])
        BY <3>1, <3>2, <4>1 DEF ClearOfBookings, Held
      <4>3. QED
        BY <4>1, <4>2 DEF Conflict
    <3>3. CASE d = e
      <4>1. granted'[d] = r /\ granted'[c] = granted[c]
        BY <3>1, <3>3 DEF TypeOK
      <4>2. ~ Conflict(r, granted[c])
        BY <3>1, <3>3, <4>1 DEF ClearOfBookings, Held
      <4>3. granted[c] \in Claim
        BY <4>1 DEF TypeOK, Held
      <4>4. QED
        BY <4>1, <4>2, <4>3, ConflictSymmetric DEF Conflict
    <3>4. CASE c # e /\ d # e
      BY <3>1, <3>4 DEF TypeOK, BookingsDisjoint, Held, Conflict
    <3>5. QED
      BY <3>2, <3>3, <3>4
  <2>2. ASSUME NEW S \in SUBSET Holders, Release(S)
        PROVE  ~ Conflict(granted[c], granted[d])'
    BY <2>2 DEF Release, TypeOK, BookingsDisjoint, Held, Conflict
  <2>3. CASE UNCHANGED granted
    BY <2>3 DEF BookingsDisjoint, Held, Conflict
  <2>4. QED
    BY <2>1, <2>2, <2>3 DEF Next
<1>3. QED
  BY <1>1, <1>2, InventoryTypeCorrect, PTL DEF Spec

(* Only a payment notification makes a conflict: two claims that share a   *)
(* night include one it reinstated.                                        *)
THEOREM LockedClaimsNeverConflict == Spec => []ConflictsAreReinstated
<1>1. Init => ConflictsAreReinstated
  BY DEF Init, ConflictsAreReinstated, Held
<1>2. TypeOK /\ ConflictsAreReinstated /\ [Next]_granted => ConflictsAreReinstated'
  <2> SUFFICES ASSUME TypeOK, ConflictsAreReinstated, [Next]_granted,
                      NEW c \in Holders, NEW d \in Holders,
                      c # d, Held(c)', Held(d)',
                      Conflict(granted[c], granted[d])',
                      ~ granted'[c].reinstated, ~ granted'[d].reinstated
               PROVE  FALSE
    BY DEF ConflictsAreReinstated
  <2>1. ASSUME NEW e \in Holders, NEW r \in Claim, Grant(e, r) \/ Reinstate(e, r)
        PROVE  FALSE
    <3>1. /\ granted' = [granted EXCEPT ![e] = r]
          /\ r.reinstated \/ ClearOfClaims(e, r)
      BY <2>1 DEF Grant, Reinstate
    <3>2. CASE c = e
      <4>1. granted'[c] = r /\ granted'[d] = granted[d]
        BY <3>1, <3>2 DEF TypeOK
      <4>2. QED
        BY <3>1, <3>2, <4>1 DEF ClearOfClaims, Held, Conflict
    <3>3. CASE d = e
      <4>1. granted'[d] = r /\ granted'[c] = granted[c]
        BY <3>1, <3>3 DEF TypeOK
      <4>2. ~ Conflict(r, granted[c])
        BY <3>1, <3>3, <4>1 DEF ClearOfClaims, Held
      <4>3. granted[c] \in Claim
        BY <4>1 DEF TypeOK, Held
      <4>4. QED
        BY <4>1, <4>2, <4>3, ConflictSymmetric DEF Conflict
    <3>4. CASE c # e /\ d # e
      BY <3>1, <3>4 DEF TypeOK, ConflictsAreReinstated, Held, Conflict
    <3>5. QED
      BY <3>2, <3>3, <3>4
  <2>2. ASSUME NEW S \in SUBSET Holders, Release(S)
        PROVE  FALSE
    BY <2>2 DEF Release, TypeOK, ConflictsAreReinstated, Held, Conflict
  <2>3. CASE UNCHANGED granted
    BY <2>3 DEF ConflictsAreReinstated, Held, Conflict
  <2>4. QED
    BY <2>1, <2>2, <2>3 DEF Next
<1>3. QED
  BY <1>1, <1>2, InventoryTypeCorrect, PTL DEF Spec

-----------------------------------------------------------------------------
(* BookingContract: staff move a booking on only when it is paid for, and  *)
(* the level only grows, but for what a capture writes.                    *)

(* What one step does to a booking that is there: staff move it, or the    *)
(* payments settle something of it, or it is left alone.                   *)
MovedOn(b) ==
  \E to \in Contract!Status :
    /\ Contract!MayMove(account[b].status, to)
    /\ to \in {"CONFIRMED", "CHECKED_IN"} => account[b].level >= 1
    /\ to = "CHECKED_OUT" => account[b].level = 2
    /\ account'[b] = [account[b] EXCEPT !.status = to]

Settled(b) ==
  \/ \E level \in 1..2 :
       /\ account[b].status \in Contract!OCCUPYING /\ level > account[b].level
       /\ account'[b] = [account[b] EXCEPT !.level = level]
  \/ \E level \in 1..2 :
       /\ account[b].status \notin Contract!Frozen /\ account[b].attempts > 0
       /\ account'[b] = [account[b] EXCEPT !.status = "CONFIRMED", !.level = level,
                                           !.attempts = @ - 1]
  \/ /\ account[b].deposit
     /\ account'[b] = [account[b] EXCEPT !.attempts = @ + 1]
  \/ /\ account[b].attempts > 0
     /\ account'[b] = [account[b] EXCEPT !.attempts = @ - 1]

(* The table of transitions leads nowhere from a closed status, and to     *)
(* COMPLETED only from CHECKED_OUT.                                        *)
LEMMA ContractTable ==
  ASSUME NEW old \in Contract!Status, NEW to \in Contract!Status, Contract!MayMove(old, to)
  PROVE  /\ old \notin Contract!Frozen
         /\ to = "CHECKED_OUT" => old = "CHECKED_IN"
         /\ to = "COMPLETED" => old = "CHECKED_OUT"
BY DEF Contract!MayMove, Contract!TRANSITIONS, Contract!Status, Contract!Cancelled,
       Contract!Frozen

LEMMA ContractSteps ==
  ASSUME Contract!TypeOK, [Contract!Next]_<<account, taken>>, NEW b \in Bookings
  PROVE  \/ account'[b] = account[b]
         \/ account[b] = None /\ account'[b] \in Contract!Fresh
         \/ account[b] # None /\ (MovedOn(b) \/ Settled(b))
<1>1. CASE UNCHANGED account
  BY <1>1
<1>2. ASSUME NEW d \in Bookings, Contract!Reserve(d)
      PROVE  \/ account'[b] = account[b]
             \/ account[b] = None /\ account'[b] \in Contract!Fresh
             \/ account[b] # None /\ MovedOn(b)
  <2>1. CASE d # b
    BY <1>2, <2>1 DEF Contract!Reserve, Contract!Make, Contract!Move, Contract!TypeOK
  <2>2. CASE d = b
    <3>1. ASSUME NEW a \in Contract!Fresh, Contract!Make(b, a)
          PROVE  account[b] = None /\ account'[b] = a
      BY <3>1 DEF Contract!Make, Contract!TypeOK
    <3>2. ASSUME NEW to \in Contract!Status, Contract!Move(b, to)
          PROVE  account[b] # None /\ MovedOn(b)
      BY <3>2 DEF Contract!Move, Contract!In, Contract!TypeOK, MovedOn
    <3>3. QED
      BY <1>2, <2>2, <3>1, <3>2 DEF Contract!Reserve
  <2>3. QED
    BY <2>1, <2>2
<1>3. ASSUME NEW d \in Bookings, Contract!Settle(d)
      PROVE  account'[b] = account[b] \/ (account[b] # None /\ Settled(b))
  <2>1. CASE d # b
    BY <1>3, <2>1 DEF Contract!Settle, Contract!Receive, Contract!Capture, Contract!Ask,
                      Contract!GiveUp, Contract!TypeOK
  <2>2. CASE d = b
    <3>1. ASSUME NEW level \in 1..2, Contract!Receive(b, level)
          PROVE  account[b] # None /\ Settled(b)
      BY <3>1 DEF Contract!Receive, Contract!In, Contract!TypeOK, Settled
    <3>2. ASSUME NEW level \in 1..2, Contract!Capture(b, level)
          PROVE  account[b] # None /\ Settled(b)
      BY <3>2 DEF Contract!Capture, Contract!In, Contract!TypeOK, Settled
    <3>3. ASSUME Contract!Ask(b)
          PROVE  account[b] # None /\ Settled(b)
      BY <3>3 DEF Contract!Ask, Contract!In, Contract!TypeOK, Settled
    <3>4. ASSUME Contract!GiveUp(b)
          PROVE  account[b] # None /\ Settled(b)
      BY <3>4 DEF Contract!GiveUp, Contract!In, Contract!TypeOK, Settled
    <3>5. QED
      BY <1>3, <2>2, <3>1, <3>2, <3>3, <3>4 DEF Contract!Settle
  <2>3. QED
    BY <2>1, <2>2
<1>4. QED
  BY <1>1, <1>2, <1>3 DEF Contract!Next

(* What those steps leave of a typed account.                              *)
LEMMA MovedOnKeeps ==
  ASSUME NEW b \in Bookings, account[b] \in Contract!Account, MovedOn(b)
  PROVE  /\ account'[b] \in Contract!Account
         /\ account'[b].deposit = account[b].deposit
         /\ account'[b].level = account[b].level
         /\ account'[b].attempts = account[b].attempts
         /\ account[b].status \notin Contract!Frozen
         /\ account'[b].status \in {"CONFIRMED", "CHECKED_IN"} => account[b].level >= 1
         /\ account'[b].status = "CHECKED_OUT" => account[b].level = 2
         /\ account'[b].status = "COMPLETED" => account[b].status = "CHECKED_OUT"
<1>1. PICK to \in Contract!Status :
        /\ Contract!MayMove(account[b].status, to)
        /\ to \in {"CONFIRMED", "CHECKED_IN"} => account[b].level >= 1
        /\ to = "CHECKED_OUT" => account[b].level = 2
        /\ account'[b] = [account[b] EXCEPT !.status = to]
  BY DEF MovedOn
<1>2. /\ account'[b] \in Contract!Account /\ account'[b].status = to
      /\ account'[b].deposit = account[b].deposit
      /\ account'[b].level = account[b].level
      /\ account'[b].attempts = account[b].attempts
  BY <1>1 DEF Contract!Account
<1>3. account[b].status \in Contract!Status
  BY DEF Contract!Account
<1>4. QED
  BY <1>1, <1>2, <1>3, ContractTable

LEMMA SettledKeeps ==
  ASSUME NEW b \in Bookings, account[b] \in Contract!Account, Settled(b)
  PROVE  /\ account'[b] \in Contract!Account
         /\ account'[b].deposit = account[b].deposit
         /\ account[b].status \in Contract!Frozen => account'[b].status = account[b].status
         /\ account[b].level >= 1 => account'[b].level >= 1
         /\ \/ account'[b].status = account[b].status /\ account'[b].level >= account[b].level
            \/ account'[b].status = "CONFIRMED" /\ account'[b].level >= 1
         /\ account'[b].attempts > 0 => account[b].attempts > 0 \/ account[b].deposit
<1>1. ASSUME NEW level \in 1..2, level > account[b].level,
             account'[b] = [account[b] EXCEPT !.level = level]
      PROVE  /\ account'[b] \in Contract!Account /\ account'[b].level = level
             /\ account'[b].deposit = account[b].deposit
             /\ account'[b].status = account[b].status
             /\ account'[b].attempts = account[b].attempts
  BY <1>1 DEF Contract!Account
<1>2. ASSUME NEW level \in 1..2, NEW n \in Nat,
             account'[b] = [account[b] EXCEPT !.status = "CONFIRMED", !.level = level,
                                              !.attempts = n]
      PROVE  /\ account'[b] \in Contract!Account /\ account'[b].level = level
             /\ account'[b].deposit = account[b].deposit
             /\ account'[b].status = "CONFIRMED"
  <2>1. "CONFIRMED" \in Contract!Status
    BY DEF Contract!Status
  <2>2. QED
    <3>1. account'[b] \in Contract!Account
      <4> DEFINE x == [account[b] EXCEPT !.status = "CONFIRMED"]
                 y == [x EXCEPT !.level = level]
                 z == [y EXCEPT !.attempts = n]
      <4>1. account'[b] = z
        BY <1>2
      <4>2. x \in Contract!Account
        BY <2>1 DEF Contract!Account
      <4> HIDE DEF x
      <4>3. y \in Contract!Account
        BY <4>2 DEF Contract!Account
      <4> HIDE DEF y
      <4>4. z \in Contract!Account
        BY <4>3 DEF Contract!Account
      <4>5. QED
        BY <4>1, <4>4
    <3>2. account'[b].deposit = account[b].deposit
      BY <1>2 DEF Contract!Account
    <3>3. account'[b].level = level /\ account'[b].status = "CONFIRMED"
      BY <1>2 DEF Contract!Account
    <3>4. QED
      BY <3>1, <3>2, <3>3
<1>3. ASSUME NEW n \in Nat, account'[b] = [account[b] EXCEPT !.attempts = n]
      PROVE  /\ account'[b] \in Contract!Account /\ account'[b].level = account[b].level
             /\ account'[b].deposit = account[b].deposit
             /\ account'[b].status = account[b].status
  BY <1>3 DEF Contract!Account
<1>4. account[b].level \in 0..2 /\ account[b].attempts \in Nat
  BY DEF Contract!Account
<1>5. CASE \E level \in 1..2 :
             /\ account[b].status \in Contract!OCCUPYING /\ level > account[b].level
             /\ account'[b] = [account[b] EXCEPT !.level = level]
  BY <1>1, <1>4, <1>5
<1>6. CASE \E level \in 1..2 :
             /\ account[b].status \notin Contract!Frozen /\ account[b].attempts > 0
             /\ account'[b] = [account[b] EXCEPT !.status = "CONFIRMED", !.level = level,
                                                 !.attempts = @ - 1]
  <2>1. account[b].attempts - 1 \in Nat
    BY <1>4, <1>6
  <2>2. PICK level \in 1..2 :
          account'[b] = [account[b] EXCEPT !.status = "CONFIRMED", !.level = level,
                                           !.attempts = account[b].attempts - 1]
    BY <1>6
  <2>3. account'[b].level = level /\ account'[b].level \in 1..2
    BY <1>2, <2>1, <2>2
  <2>4. /\ account'[b] \in Contract!Account /\ account'[b].deposit = account[b].deposit
        /\ account'[b].status = "CONFIRMED" /\ account[b].attempts > 0
        /\ account[b].status \notin Contract!Frozen
    BY <1>2, <1>6, <2>1, <2>2
  <2>5. QED
    BY <2>3, <2>4
<1>7. CASE /\ account[b].deposit
           /\ account'[b] = [account[b] EXCEPT !.attempts = @ + 1]
  <2>1. account[b].attempts + 1 \in Nat
    BY <1>4
  <2>2. /\ account'[b] \in Contract!Account /\ account'[b].level = account[b].level
        /\ account'[b].deposit = account[b].deposit
        /\ account'[b].status = account[b].status
    BY <1>3, <1>7, <2>1
  <2>3. QED
    <3>1. account'[b].level >= account[b].level
      BY <1>4, <2>2
    <3>2. QED
      BY <1>7, <2>2, <3>1, Zenon
<1>8. CASE /\ account[b].attempts > 0
           /\ account'[b] = [account[b] EXCEPT !.attempts = @ - 1]
  <2>1. account[b].attempts - 1 \in Nat
    BY <1>4, <1>8
  <2>2. QED
    BY <1>3, <1>4, <1>8, <2>1
<1>9. QED
  BY <1>5, <1>6, <1>7, <1>8 DEF Settled

(* A fresh booking is an account on which nothing is awaited.              *)
LEMMA FreshAccounts ==
  ASSUME NEW a \in Contract!Fresh
  PROVE  /\ a \in Contract!Account /\ a.status = "PENDING_PAYMENT" /\ a.attempts = 0
BY DEF Contract!Fresh, Contract!Account, Contract!Status

(* Accounts stay accounts.                                                 *)
THEOREM ContractTypeCorrect == Contract!Spec => []Contract!TypeOK
<1>1. Contract!Init => Contract!TypeOK
  BY FreshAccounts DEF Contract!Init, Contract!TypeOK
<1>2. Contract!TypeOK /\ [Contract!Next]_<<account, taken>> => Contract!TypeOK'
  <2> SUFFICES ASSUME Contract!TypeOK, [Contract!Next]_<<account, taken>>
               PROVE  Contract!TypeOK'
    OBVIOUS
  <2>1. \A b \in Bookings : account'[b] \in Contract!Account \cup {None}
    <3> TAKE b \in Bookings
    <3>1. account[b] \in Contract!Account \cup {None}
      BY DEF Contract!TypeOK
    <3>2. QED
      BY <3>1, ContractSteps, MovedOnKeeps, SettledKeeps, FreshAccounts
  <2>2. account' = [b \in Bookings |-> account'[b]]
    BY DEF Contract!TypeOK, Contract!Next, Contract!Reserve, Contract!Make, Contract!Move,
           Contract!Settle, Contract!Receive, Contract!Capture, Contract!Ask, Contract!GiveUp
  <2>3. taken' \in [Bookings -> BOOLEAN]
    BY DEF Contract!TypeOK, Contract!Next
  <2>4. QED
    BY <2>1, <2>2, <2>3 DEF Contract!TypeOK
<1>3. QED
  BY <1>1, <1>2, PTL DEF Contract!Spec

(* PaidAsFar: between staff, receipts and captures that may come at any    *)
(* time, no guest is in the room without the deposit or out of it in debt. *)
THEOREM ContractPaysAsFar == Contract!Spec => []Contract!PaidAsFar
<1>1. Contract!Init => Contract!PaidAsFar
  BY FreshAccounts DEF Contract!Init, Contract!PaidAsFar, Contract!In
<1>2. Contract!TypeOK /\ Contract!PaidAsFar /\ [Contract!Next]_<<account, taken>>
        => Contract!PaidAsFar'
  <2> SUFFICES ASSUME Contract!TypeOK, Contract!PaidAsFar, [Contract!Next]_<<account, taken>>,
                      NEW b \in Bookings, account'[b] # None
               PROVE  /\ account'[b].status \in
                           {"CONFIRMED", "CHECKED_IN", "CHECKED_OUT", "COMPLETED"}
                           => account'[b].level >= 1
                      /\ account'[b].status \in {"CHECKED_OUT", "COMPLETED"}
                           => account'[b].level = 2
    BY DEF Contract!PaidAsFar, Contract!In
  <2>1. /\ account[b] = None \/ account[b] \in Contract!Account
        /\ account[b] # None =>
             /\ account[b].status \in {"CONFIRMED", "CHECKED_IN", "CHECKED_OUT", "COMPLETED"}
                  => account[b].level >= 1
             /\ account[b].status \in {"CHECKED_OUT", "COMPLETED"} => account[b].level = 2
    BY DEF Contract!TypeOK, Contract!PaidAsFar, Contract!In
  <2>2. CASE account'[b] = account[b]
    BY <2>1, <2>2
  <2>3. CASE account'[b] \in Contract!Fresh
    BY <2>3, FreshAccounts
  <2>4. CASE account[b] # None /\ MovedOn(b)
    BY <2>1, <2>4, MovedOnKeeps
  <2>5. CASE account[b] # None /\ Settled(b)
    <3>1. account'[b].level \in 0..2 /\ account[b].level \in 0..2
      BY <2>1, <2>5, SettledKeeps DEF Contract!Account
    <3>2. QED
      BY <2>1, <2>5, <3>1, SettledKeeps
  <2>6. QED
    BY <2>2, <2>3, <2>4, <2>5, ContractSteps
<1>3. QED
  BY <1>1, <1>2, ContractTypeCorrect, PTL DEF Contract!Spec

(* OnlyDepositsAreCaptured: without a deposit there is no link to pay.     *)
THEOREM ContractAsksForDeposits == Contract!Spec => []Contract!OnlyDepositsAreCaptured
<1>1. Contract!Init => Contract!OnlyDepositsAreCaptured
  BY FreshAccounts DEF Contract!Init, Contract!OnlyDepositsAreCaptured, Contract!In
<1>2. Contract!TypeOK /\ Contract!OnlyDepositsAreCaptured /\ [Contract!Next]_<<account, taken>>
        => Contract!OnlyDepositsAreCaptured'
  <2> SUFFICES ASSUME Contract!TypeOK, Contract!OnlyDepositsAreCaptured,
                      [Contract!Next]_<<account, taken>>, NEW b \in Bookings,
                      account'[b] # None, ~ account'[b].deposit
               PROVE  account'[b].attempts = 0
    BY DEF Contract!OnlyDepositsAreCaptured, Contract!In
  <2>1. /\ account[b] = None \/ account[b] \in Contract!Account
        /\ account[b] # None /\ ~ account[b].deposit => account[b].attempts = 0
    BY DEF Contract!TypeOK, Contract!OnlyDepositsAreCaptured, Contract!In, Contract!Account
  <2>2. CASE account'[b] = account[b]
    BY <2>1, <2>2
  <2>3. CASE account'[b] \in Contract!Fresh
    BY <2>3, FreshAccounts
  <2>4. CASE account[b] # None /\ MovedOn(b)
    BY <2>1, <2>4, MovedOnKeeps
  <2>5. CASE account[b] # None /\ Settled(b)
    <3>1. account'[b].attempts \in Nat /\ account[b].attempts \in Nat
      BY <2>1, <2>5, SettledKeeps DEF Contract!Account
    <3>2. QED
      BY <2>1, <2>5, <3>1, SettledKeeps
  <2>6. QED
    BY <2>2, <2>3, <2>4, <2>5, ContractSteps
<1>3. QED
  BY <1>1, <1>2, ContractTypeCorrect, PTL DEF Contract!Spec

(* NeverUndone: a closed booking is closed for good, and a deposit that    *)
(* was covered stays so, as long as an account is never the absent one.    *)
THEOREM ContractIsNeverUndone ==
  ASSUME None \notin Contract!Account
  PROVE  Contract!Spec => Contract!NeverUndone
<1>1. Contract!TypeOK /\ [Contract!Next]_<<account, taken>> =>
        [\A b \in Bookings : Contract!In(b, Contract!Status) =>
           /\ Contract!In(b, Contract!Status)' /\ (account'[b].deposit <=> account[b].deposit)
           /\ Contract!In(b, Contract!Frozen) => account'[b].status = account[b].status
           /\ account[b].level >= 1 => account'[b].level >= 1]_account
  <2> SUFFICES ASSUME Contract!TypeOK, [Contract!Next]_<<account, taken>>, NEW b \in Bookings,
                      account[b] # None
               PROVE  /\ account'[b] \in Contract!Account
                      /\ account'[b].deposit = account[b].deposit
                      /\ account[b].status \in Contract!Frozen
                           => account'[b].status = account[b].status
                      /\ account[b].level >= 1 => account'[b].level >= 1
    BY DEF Contract!In, Contract!Account
  <2>1. account[b] \in Contract!Account
    BY DEF Contract!TypeOK
  <2>2. QED
    BY <2>1, ContractSteps, MovedOnKeeps, SettledKeeps
<1>2. QED
  BY <1>1, ContractTypeCorrect, PTL DEF Contract!Spec, Contract!NeverUndone

=============================================================================
