---------------------------- MODULE StayIntervals ----------------------------
(***************************************************************************)
(* Stays as half-open intervals of days, [checkIn, checkOut).              *)
(***************************************************************************)
EXTENDS Integers

CONSTANT Days        \* the calendar days a request may name

ASSUME DaysAssumption == Days \subseteq Int

(* parseStay accepts a pair of real dates with checkIn before checkOut.    *)
Stay == {s \in Days \X Days : s[1] < s[2]}

(* Two stays that share a night; a check-out on the day of a check-in is   *)
(* not an overlap.                                                         *)
Overlaps(a, b) == a[1] < b[2] /\ b[1] < a[2]

(* eachNight: the nights slept, the check-out day not among them.          *)
EachNight(s) == s[1] .. (s[2] - 1)

(* The part of s inside window, as unavailableNights clips it.             *)
Clip(s, window) ==
  << IF s[1] > window[1] THEN s[1] ELSE window[1],
     IF s[2] < window[2] THEN s[2] ELSE window[2] >>
=============================================================================
