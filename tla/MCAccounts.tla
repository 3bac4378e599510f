------------------------------ MODULE MCAccounts ------------------------------
(* Only roles are told apart from the start: by what they grant.            *)
EXTENDS Accounts, TLC

CONSTANT MaxRows  \* bound: accounts, sessions and sign-ins that are there at once

Symmetry == Permutations(Sessions) \cup Permutations(Users) \cup Permutations(SignIns)

(* Three accounts and two sessions, or one account and two sign-ins that    *)
(* make three sessions: no behaviour has all of them at once.               *)
FewRows ==
  LET Count(S, row) == Cardinality({x \in S : row[x] # None}) IN
  Count(Users, account) + Count(Sessions, session) + Count(SignIns, signIn) <= MaxRows
===============================================================================
