----------------------------- MODULE AccountsProofs -----------------------------
(***************************************************************************)
(* Theorems about Accounts, for any users, roles and permissions and any   *)
(* number of sign-ins and staff requests at one time.                      *)
(*                                                                         *)
(* Everything rests on the version of the account: what was read before a  *)
(* change carries a version that the account has no longer.                *)
(***************************************************************************)
EXTENDS Accounts, TLAPS

(* The role an access would give is one its actor may give, and the account*)
(* it would change is no owner's while its version is the one seen.        *)
AccessesAreSound ==
  \A a \in Actors : actor[a] # None /\ actor[a].access # None =>
    LET x == actor[a].access IN
    /\ role[x.role] # None /\ x.role # Owner
    /\ role[x.role] \subseteq actor[a].permissions
    /\ account[x.user] # None /\ x.version <= account[x.user].version
    /\ x.version = account[x.user].version => Owner \notin account[x.user].roles

(* Sessions and sign-ins are of users that are there, at a version they    *)
(* have or had.                                                            *)
VersionsAreSeen ==
  /\ \A s \in Sessions : session[s] # None =>
       /\ account[session[s].user] # None
       /\ session[s].version <= account[session[s].user].version
  /\ \A f \in SignIns : signIn[f] # None =>
       /\ account[signIn[f].user] # None
       /\ signIn[f].version <= account[signIn[f].user].version
       /\ signIn[f].op = "refresh" =>
            signIn[f].from \in Sessions /\ session[signIn[f].from] # None
       /\ signIn[f].phase = "issued" => signIn[f].op = "refresh"

(* What was read at the present version is what the account has.           *)
ReadsAreCurrent ==
  /\ \A s \in Sessions :
       session[s] # None /\ session[s].version = account[session[s].user].version
       => session[s].permissions = Granted(account[session[s].user].roles)
  /\ \A f \in SignIns :
       /\ signIn[f] # None /\ signIn[f].phase = "roles"
       /\ signIn[f].version = account[signIn[f].user].version
       => signIn[f].permissions = Granted(account[signIn[f].user].roles)

(* What anyone but an owner carries is below the ceiling.                  *)
CeilingHolds ==
  /\ \A s \in Sessions :
       session[s] # None /\ Owner \notin account[session[s].user].roles
       => session[s].permissions \subseteq ceiling
  /\ \A f \in SignIns :
       signIn[f] # None /\ Owner \notin account[signIn[f].user].roles
       => signIn[f].permissions \subseteq ceiling
  /\ \A a \in Actors :
       actor[a] # None => /\ account[actor[a].user] # None
                          /\ ~ByOwner(a) => actor[a].permissions \subseteq ceiling

Sound ==
  /\ TypeOK /\ AccessesAreSound /\ VersionsAreSeen /\ ReadsAreCurrent
  /\ CeilingHolds /\ NoPermissionAppears

LEMMA SoundInit == Init => Sound
<1> SUFFICES ASSUME Init PROVE Sound
  OBVIOUS
<1>1. PICK first \in [Users -> Roles \cup {None}] :
        /\ \A u \in Users : first[u] # None => role[first[u]] # None
        /\ account = [u \in Users |->
             IF first[u] = None THEN None
             ELSE [active |-> TRUE, version |-> 0, roles |-> {first[u]}]]
        /\ ceiling = Granted({first[u] : u \in Users} \ {Owner, None})
  BY DEF Init
<1>2. /\ role \in [Roles -> (SUBSET Permissions) \cup {None}]
      /\ \A s \in Sessions : session[s] = None
      /\ \A f \in SignIns : signIn[f] = None
      /\ \A a \in Actors : actor[a] = None
  BY DEF Init
<1>3. \A u \in Users : account[u] # None => account[u].roles = {first[u]} /\ first[u] \in Roles
  BY <1>1
<1>4. ceiling \subseteq Permissions
  <2>1. ASSUME NEW u \in Users, first[u] # None PROVE role[first[u]] \in SUBSET Permissions
    BY <1>1, <1>2, <2>1
  <2> QED BY <1>1, <2>1 DEF Granted
<1>5. TypeOK
  <2>1. account \in [Users -> Account \cup {None}]
    BY <1>1, AccountsAssumption DEF Account
  <2>2. /\ session \in [Sessions -> Session \cup {None}]
        /\ signIn \in [SignIns -> SignIn \cup {None}]
        /\ actor \in [Actors -> Actor \cup {None}]
    BY DEF Init
  <2> QED BY <1>1, <1>2, <1>3, <1>4, <2>1, <2>2 DEF TypeOK
<1>6. AccessesAreSound /\ VersionsAreSeen /\ ReadsAreCurrent /\ CeilingHolds
  BY <1>2 DEF AccessesAreSound, VersionsAreSeen, ReadsAreCurrent, CeilingHolds
<1>7. NoPermissionAppears
  <2> SUFFICES ASSUME NEW u \in Users, account[u] # None, Owner \notin account[u].roles
               PROVE  Granted(account[u].roles) \subseteq ceiling
    BY DEF NoPermissionAppears
  <2>1. first[u] \in {first[v] : v \in Users} \ {Owner, None}
    BY <1>1, <1>3
  <2> QED BY <1>1, <1>3, <2>1 DEF Granted
<1> QED BY <1>5, <1>6, <1>7 DEF Sound

(***************************************************************************)
(* The steps of a sign-in.                                                 *)
(***************************************************************************)
LEMMA LoginKeeps ==
  ASSUME Sound, NEW f \in SignIns, NEW u \in Users, NEW op \in {"login", "customerLogin"},
         Login(f, u, op)
  PROVE  Sound'
<1> USE DEF Login, Sound
<1>1. TypeOK'
  BY DEF TypeOK, SignIn, Account
<1>2. AccessesAreSound' /\ NoPermissionAppears'
  BY DEF AccessesAreSound, NoPermissionAppears, Granted
<1>3. VersionsAreSeen'
  BY DEF VersionsAreSeen, TypeOK, Account
<1>4. ReadsAreCurrent'
  BY DEF ReadsAreCurrent, TypeOK, Granted
<1>5. CeilingHolds'
  BY DEF CeilingHolds, TypeOK, ByOwner
<1> QED BY <1>1, <1>2, <1>3, <1>4, <1>5

LEMMA RegisterKeeps ==
  ASSUME Sound, NEW f \in SignIns, NEW u \in Users, Register(f, u)
  PROVE  Sound'
<1> USE DEF Register, Sound
<1>1. TypeOK'
  BY AccountsAssumption DEF TypeOK, SignIn, Account
<1>2. AccessesAreSound'
  BY DEF AccessesAreSound, TypeOK, Actor, AccessRequest
<1>3. NoPermissionAppears'
  BY DEF NoPermissionAppears, TypeOK, Granted
<1>4. VersionsAreSeen'
  <2>1. /\ \A v \in Users : v # u => account'[v] = account[v]
        /\ account'[u] = [active |-> TRUE, version |-> 0, roles |-> {}]
        /\ session' = session
        /\ \A g \in SignIns : g # f => signIn'[g] = signIn[g]
        /\ signIn'[f] = [op |-> "register", phase |-> "roles", user |-> u, version |-> 0,
                         permissions |-> {}, from |-> None]
    BY DEF TypeOK
  <2>2. \A s \in Sessions : session[s] # None =>
          session[s].user \in Users /\ session[s].user # u
    BY DEF VersionsAreSeen, TypeOK, Session
  <2>3. \A g \in SignIns : signIn[g] # None =>
          signIn[g].user \in Users /\ signIn[g].user # u
    BY DEF VersionsAreSeen, TypeOK, SignIn
  <2>4. account'[u] # None
    <3>1. [active |-> TRUE, version |-> 0, roles |-> {}] \in Account
      BY AccountsAssumption DEF Account
    <3> QED BY <2>1, <3>1, NoneAssumption
  <2> QED BY <2>1, <2>2, <2>3, <2>4 DEF VersionsAreSeen
<1>5. ReadsAreCurrent'
  BY DEF ReadsAreCurrent, VersionsAreSeen, TypeOK, Granted, Session, SignIn
<1>6. CeilingHolds'
  BY DEF CeilingHolds, VersionsAreSeen, TypeOK, ByOwner, Session, SignIn, Actor
<1> QED BY <1>1, <1>2, <1>3, <1>4, <1>5, <1>6

LEMMA ReadTokenKeeps ==
  ASSUME Sound, NEW f \in SignIns, NEW s \in Sessions, ReadToken(f, s)
  PROVE  Sound'
<1> USE DEF ReadToken, Sound
<1>1. TypeOK'
  BY AccountsAssumption DEF TypeOK, SignIn, Session
<1>2. AccessesAreSound' /\ NoPermissionAppears'
  BY DEF AccessesAreSound, NoPermissionAppears, Granted
<1>3. VersionsAreSeen'
  BY DEF VersionsAreSeen, TypeOK, Account, Session
<1>4. ReadsAreCurrent'
  BY DEF ReadsAreCurrent, TypeOK, Granted
<1>5. CeilingHolds'
  BY DEF CeilingHolds, TypeOK, ByOwner
<1> QED BY <1>1, <1>2, <1>3, <1>4, <1>5

LEMMA ReadUserKeeps ==
  ASSUME Sound, NEW f \in SignIns, ReadUser(f)
  PROVE  Sound'
<1> USE DEF Sound
<1>1. /\ signIn[f] # None /\ signIn[f] \in SignIn
      /\ signIn' = [signIn EXCEPT ![f] =
           [signIn[f] EXCEPT !.phase = "user", !.version = account[signIn[f].user].version]]
      /\ UNCHANGED <<account, role, session, actor, ceiling>>
      /\ account[signIn[f].user].version \in 0..MaxVersion
  BY DEF ReadUser, TypeOK, VersionsAreSeen, SignIn, Account
<1>2. TypeOK'
  BY <1>1 DEF TypeOK, SignIn
<1>3. /\ signIn'[f].user = signIn[f].user /\ signIn'[f].op = signIn[f].op
      /\ signIn'[f].from = signIn[f].from /\ signIn'[f].permissions = signIn[f].permissions
      /\ signIn'[f].phase = "user"
      /\ signIn'[f].version = account[signIn[f].user].version
      /\ \A g \in SignIns : g # f => signIn'[g] = signIn[g]
  BY <1>1 DEF TypeOK, SignIn
<1>4. AccessesAreSound' /\ NoPermissionAppears'
  BY <1>1 DEF AccessesAreSound, NoPermissionAppears, Granted
<1>5. VersionsAreSeen'
  BY <1>1, <1>3 DEF VersionsAreSeen
<1>6. ReadsAreCurrent'
  BY <1>1, <1>3 DEF ReadsAreCurrent, Granted
<1>7. CeilingHolds'
  BY <1>1, <1>3 DEF CeilingHolds, ByOwner
<1> QED BY <1>2, <1>4, <1>5, <1>6, <1>7

LEMMA ReadRolesKeeps ==
  ASSUME Sound, NEW f \in SignIns, ReadRoles(f)
  PROVE  Sound'
<1> USE DEF Sound
<1> DEFINE granted == Granted(account[signIn[f].user].roles)
<1>1. /\ signIn[f] # None /\ signIn[f] \in SignIn
      /\ signIn' = [signIn EXCEPT ![f] =
           [signIn[f] EXCEPT !.phase = "roles", !.permissions = granted]]
      /\ UNCHANGED <<account, role, session, actor, ceiling>>
  BY DEF ReadRoles, TypeOK
<1>2. granted \subseteq Permissions
  <2>1. account[signIn[f].user] \in Account
    BY <1>1 DEF TypeOK, VersionsAreSeen, SignIn
  <2>2. \A c \in account[signIn[f].user].roles : role[c] \in SUBSET Permissions
    BY <1>1, <2>1, NoneAssumption DEF TypeOK, SignIn, Account
  <2> QED BY <2>2 DEF Granted
<1>3. Owner \notin account[signIn[f].user].roles => granted \subseteq ceiling
  BY <1>1 DEF NoPermissionAppears, VersionsAreSeen, SignIn
<1> HIDE DEF granted
<1>4. TypeOK'
  BY <1>1, <1>2 DEF TypeOK, SignIn
<1>5. /\ signIn'[f].user = signIn[f].user /\ signIn'[f].op = signIn[f].op
      /\ signIn'[f].from = signIn[f].from /\ signIn'[f].permissions = granted
      /\ signIn'[f].phase = "roles" /\ signIn'[f].version = signIn[f].version
      /\ \A g \in SignIns : g # f => signIn'[g] = signIn[g]
  BY <1>1 DEF TypeOK, SignIn
<1>6. AccessesAreSound' /\ NoPermissionAppears'
  BY <1>1 DEF AccessesAreSound, NoPermissionAppears, Granted
<1>7. VersionsAreSeen'
  BY <1>1, <1>5 DEF VersionsAreSeen
<1>8. ReadsAreCurrent'
  <2>1. \A roles : Granted(roles)' = Granted(roles)
    BY <1>1 DEF Granted
  <2>2. signIn'[f].permissions = Granted(account[signIn[f].user].roles)
    BY <1>5 DEF granted
  <2> QED BY <1>1, <1>5, <2>1, <2>2 DEF ReadsAreCurrent
<1>9. CeilingHolds'
  BY <1>1, <1>3, <1>5 DEF CeilingHolds, ByOwner
<1> QED BY <1>4, <1>6, <1>7, <1>8, <1>9

LEMMA IssueKeeps ==
  ASSUME Sound, NEW f \in SignIns, NEW s \in Sessions, Issue(f, s)
  PROVE  Sound'
<1> USE DEF Sound
<1> DEFINE x == signIn[f]
           made == [user |-> x.user, version |-> x.version,
                    permissions |-> x.permissions, revoked |-> FALSE]
<1>1. /\ x # None /\ x \in SignIn /\ x.phase = "roles" /\ session[s] = None
      /\ session' = [session EXCEPT ![s] = made]
      /\ signIn' = [signIn EXCEPT ![f] =
           IF x.op = "refresh" THEN [x EXCEPT !.phase = "issued"] ELSE None]
      /\ UNCHANGED <<account, role, actor, ceiling>>
  BY DEF Issue, TypeOK
<1>2. made \in Session
  BY <1>1 DEF SignIn, Session
<1>3. TypeOK'
  BY <1>1, <1>2 DEF TypeOK, SignIn
<1>4. /\ session'[s] = made /\ \A t \in Sessions : t # s => session'[t] = session[t]
      /\ \A g \in SignIns : g # f => signIn'[g] = signIn[g]
  BY <1>1 DEF TypeOK
<1>5. signIn'[f] # None =>
        /\ signIn'[f].user = x.user /\ signIn'[f].op = x.op
        /\ signIn'[f].from = x.from /\ signIn'[f].permissions = x.permissions
        /\ signIn'[f].phase = "issued" /\ signIn'[f].version = x.version
        /\ x.op = "refresh"
  BY <1>1 DEF TypeOK, SignIn
<1>6. /\ made.user = x.user /\ made.version = x.version
      /\ made.permissions = x.permissions /\ session'[s] # None
  BY <1>2, <1>4, NoneAssumption
<1> HIDE DEF made
<1>7. AccessesAreSound' /\ NoPermissionAppears'
  BY <1>1 DEF AccessesAreSound, NoPermissionAppears, Granted
<1>8. VersionsAreSeen'
  BY <1>1, <1>4, <1>5, <1>6 DEF VersionsAreSeen
<1>9. ReadsAreCurrent'
  <2>1. \A roles : Granted(roles)' = Granted(roles)
    BY <1>1 DEF Granted
  <2> QED BY <1>1, <1>4, <1>5, <1>6, <2>1 DEF ReadsAreCurrent
<1>10. CeilingHolds'
  BY <1>1, <1>4, <1>5, <1>6 DEF CeilingHolds, ByOwner
<1> QED BY <1>3, <1>7, <1>8, <1>9, <1>10

LEMMA RevokeKeeps ==
  ASSUME Sound, NEW f \in SignIns, Revoke(f)
  PROVE  Sound'
<1> USE DEF Sound
<1> DEFINE s == signIn[f].from
<1>1. /\ signIn[f] # None /\ s \in Sessions /\ session[s] # None
      /\ session[s] \in Session
      /\ session' = [session EXCEPT ![s] = [session[s] EXCEPT !.revoked = TRUE]]
      /\ signIn' = [signIn EXCEPT ![f] = None]
      /\ UNCHANGED <<account, role, actor, ceiling>>
  BY DEF Revoke, TypeOK, VersionsAreSeen
<1>2. TypeOK'
  BY <1>1 DEF TypeOK, Session
<1>3. \A t \in Sessions :
        /\ session'[t] # None => session[t] # None
        /\ session[t] # None => session'[t] # None
        /\ session[t] # None => /\ session'[t].user = session[t].user
                                /\ session'[t].version = session[t].version
                                /\ session'[t].permissions = session[t].permissions
  BY <1>1, NoneAssumption DEF TypeOK, Session
<1>4. \A g \in SignIns : signIn'[g] # None => signIn'[g] = signIn[g]
  BY <1>1 DEF TypeOK
<1> HIDE DEF s
<1>5. AccessesAreSound' /\ NoPermissionAppears'
  BY <1>1 DEF AccessesAreSound, NoPermissionAppears, Granted
<1>6. VersionsAreSeen'
  BY <1>1, <1>3, <1>4 DEF VersionsAreSeen
<1>7. ReadsAreCurrent'
  <2>1. \A roles : Granted(roles)' = Granted(roles)
    BY <1>1 DEF Granted
  <2> QED BY <1>1, <1>3, <1>4, <2>1 DEF ReadsAreCurrent
<1>8. CeilingHolds'
  BY <1>1, <1>3, <1>4 DEF CeilingHolds, ByOwner
<1> QED BY <1>2, <1>5, <1>6, <1>7, <1>8

(***************************************************************************)
(* The steps of a staff request.                                           *)
(***************************************************************************)
LEMMA AuthorizeKeeps ==
  ASSUME Sound, NEW a \in Actors, NEW s \in Sessions, Authorize(a, s)
  PROVE  Sound'
<1> USE DEF Sound
<1> DEFINE made == [user |-> session[s].user, permissions |-> session[s].permissions,
                    access |-> None]
<1>1. /\ session[s] # None /\ session[s] \in Session
      /\ actor' = [actor EXCEPT ![a] = made]
      /\ UNCHANGED <<account, role, session, signIn, ceiling>>
  BY DEF Authorize, Accepted, TypeOK
<1>2. made \in Actor
  BY <1>1 DEF Session, Actor
<1>3. TypeOK'
  BY <1>1, <1>2 DEF TypeOK
<1>4. /\ actor'[a] = made /\ \A b \in Actors : b # a => actor'[b] = actor[b]
      /\ made.access = None /\ made.user = session[s].user
      /\ made.permissions = session[s].permissions
  BY <1>1 DEF TypeOK
<1> HIDE DEF made
<1>5. AccessesAreSound'
  BY <1>1, <1>4 DEF AccessesAreSound
<1>6. NoPermissionAppears' /\ VersionsAreSeen'
  BY <1>1 DEF NoPermissionAppears, VersionsAreSeen, Granted
<1>7. ReadsAreCurrent'
  <2>1. \A roles : Granted(roles)' = Granted(roles)
    BY <1>1 DEF Granted
  <2> QED BY <1>1, <2>1 DEF ReadsAreCurrent
<1>8. CeilingHolds'
  <2>1. account[session[s].user] # None
    BY <1>1 DEF VersionsAreSeen
  <2> QED BY <1>1, <1>4, <2>1 DEF CeilingHolds, ByOwner
<1> QED BY <1>3, <1>5, <1>6, <1>7, <1>8

LEMMA AccessKeeps ==
  ASSUME Sound, NEW a \in Actors, NEW u \in Users, NEW c \in Roles, NEW active \in BOOLEAN,
         Access(a, u, c, active)
  PROVE  Sound'
<1> USE DEF Sound
<1> DEFINE opened == [user |-> u, role |-> c, active |-> active,
                      version |-> account[u].version, live |-> Live(u)]
<1>1. /\ actor[a] # None /\ actor[a] \in Actor /\ account[u] # None /\ account[u] \in Account
      /\ role[c] # None /\ c # Owner /\ role[c] \subseteq actor[a].permissions
      /\ account[u].version < MaxVersion /\ Owner \notin account[u].roles
      /\ actor' = [actor EXCEPT ![a] = [actor[a] EXCEPT !.access = opened]]
      /\ UNCHANGED <<account, role, session, signIn, ceiling>>
  BY DEF Access, Acting, Assignable, TypeOK
<1>2. opened \in AccessRequest
  BY <1>1 DEF AccessRequest, Account, Live
<1>3. opened.user = u /\ opened.role = c /\ opened.version = account[u].version
  OBVIOUS
<1> HIDE DEF opened
<1>4. TypeOK'
  BY <1>1, <1>2 DEF TypeOK, Actor
<1>5. /\ actor'[a].access = opened /\ actor'[a].user = actor[a].user
      /\ actor'[a].permissions = actor[a].permissions
      /\ \A b \in Actors : b # a => actor'[b] = actor[b]
  BY <1>1 DEF TypeOK, Actor
<1>6. AccessesAreSound'
  BY <1>1, <1>3, <1>5 DEF AccessesAreSound, Account
<1>7. NoPermissionAppears' /\ VersionsAreSeen'
  BY <1>1 DEF NoPermissionAppears, VersionsAreSeen, Granted
<1>8. ReadsAreCurrent'
  <2>1. \A roles : Granted(roles)' = Granted(roles)
    BY <1>1 DEF Granted
  <2> QED BY <1>1, <2>1 DEF ReadsAreCurrent
<1>9. CeilingHolds'
  BY <1>1, <1>5 DEF CeilingHolds, ByOwner
<1> QED BY <1>4, <1>6, <1>7, <1>8, <1>9

(* A role that is not there yet is made: what the roles people have grant  *)
(* stays as it is.                                                         *)
LEMMA CreateRoleKeeps ==
  ASSUME Sound, NEW a \in Actors, NEW c \in Roles, NEW permissions \in SUBSET Permissions,
         CreateRole(a, c, permissions)
  PROVE  Sound'
<1> USE DEF Sound
<1>1. /\ role[c] = None /\ role' = [role EXCEPT ![c] = permissions]
      /\ actor' = [actor EXCEPT ![a] = None]
      /\ UNCHANGED <<account, session, signIn, ceiling>>
  BY DEF CreateRole
<1>2. \A u \in Users : account[u] # None =>
        Granted(account[u].roles)' = Granted(account[u].roles)
  <2> SUFFICES ASSUME NEW u \in Users, account[u] # None
               PROVE  Granted(account[u].roles)' = Granted(account[u].roles)
    OBVIOUS
  <2>1. \A d \in account[u].roles : role'[d] = role[d]
    BY <1>1 DEF TypeOK, Account
  <2> QED BY <1>1, <2>1 DEF Granted
<1>3. TypeOK'
  <2>1. \A d \in Roles : role[d] # None => role'[d] = role[d]
    BY <1>1 DEF TypeOK
  <2>2. role' \in [Roles -> (SUBSET Permissions) \cup {None}]
        /\ actor' \in [Actors -> Actor \cup {None}]
    BY <1>1 DEF TypeOK
  <2> QED BY <1>1, <2>1, <2>2 DEF TypeOK, Account
<1>4. AccessesAreSound'
  <2>1. \A b \in Actors : actor'[b] # None => actor'[b] = actor[b]
    BY <1>1 DEF TypeOK
  <2>2. \A d \in Roles : role[d] # None => role'[d] = role[d]
    BY <1>1 DEF TypeOK
  <2> QED BY <1>1, <2>1, <2>2 DEF AccessesAreSound, TypeOK, Actor, AccessRequest
<1>5. VersionsAreSeen'
  BY <1>1 DEF VersionsAreSeen
<1>6. ReadsAreCurrent'
  <2>1. \A s \in Sessions : session[s] # None =>
          account[session[s].user] # None /\ session[s].user \in Users
    BY DEF VersionsAreSeen, TypeOK, Session
  <2>2. \A f \in SignIns : signIn[f] # None =>
          account[signIn[f].user] # None /\ signIn[f].user \in Users
    BY DEF VersionsAreSeen, TypeOK, SignIn
  <2> QED BY <1>1, <1>2, <2>1, <2>2 DEF ReadsAreCurrent
<1>7. NoPermissionAppears'
  BY <1>1, <1>2 DEF NoPermissionAppears
<1>8. CeilingHolds'
  <2>1. \A b \in Actors : actor'[b] # None => actor'[b] = actor[b]
    BY <1>1 DEF TypeOK
  <2> QED BY <1>1, <2>1 DEF CeilingHolds, ByOwner
<1> QED BY <1>3, <1>4, <1>5, <1>6, <1>7, <1>8

(* What an actor gives is below the new ceiling.                           *)
LEMMA GivingCovers ==
  ASSUME Sound, NEW a \in Actors, NEW c \in Roles,
         actor[a] # None, role[c] # None, role[c] \subseteq actor[a].permissions,
         ceiling' = Giving(a, c)
  PROVE  /\ ceiling \subseteq ceiling' /\ role[c] \subseteq ceiling'
         /\ ceiling' \subseteq Permissions
<1> USE DEF Sound
<1>1. role[c] \in SUBSET Permissions
  BY DEF TypeOK
<1>2. CASE ByOwner(a)
  BY <1>1, <1>2 DEF Giving, TypeOK
<1>3. CASE ~ByOwner(a)
  BY <1>1, <1>3 DEF Giving, TypeOK, CeilingHolds
<1> QED BY <1>2, <1>3

LEMMA CreateStaffKeeps ==
  ASSUME Sound, NEW a \in Actors, NEW u \in Users, NEW c \in Roles, CreateStaff(a, u, c)
  PROVE  Sound'
<1> USE DEF Sound
<1> DEFINE made == [active |-> TRUE, version |-> 0, roles |-> {c}]
<1>1. /\ actor[a] # None /\ role[c] # None /\ c # Owner
      /\ role[c] \subseteq actor[a].permissions
      /\ account[u] = None /\ account' = [account EXCEPT ![u] = made]
      /\ ceiling' = Giving(a, c) /\ actor' = [actor EXCEPT ![a] = None]
      /\ UNCHANGED <<role, session, signIn>>
  BY DEF CreateStaff, Acting, Assignable
<1>2. made \in Account /\ made # None /\ made.roles = {c}
  <2>1. made \in Account
    BY AccountsAssumption DEF Account
  <2> QED BY <2>1, NoneAssumption
<1>3. ceiling \subseteq ceiling' /\ role[c] \subseteq ceiling' /\ ceiling' \subseteq Permissions
  BY <1>1, GivingCovers
<1>4. /\ account'[u] = made /\ \A v \in Users : v # u => account'[v] = account[v]
      /\ \A b \in Actors : actor'[b] # None => actor'[b] = actor[b]
  BY <1>1 DEF TypeOK
<1> HIDE DEF made
<1>5. TypeOK'
  <2>1. /\ account' \in [Users -> Account \cup {None}]
        /\ actor' \in [Actors -> Actor \cup {None}]
    BY <1>1, <1>2 DEF TypeOK
  <2> QED BY <1>1, <1>2, <1>3, <1>4, <2>1 DEF TypeOK
<1>6. AccessesAreSound'
  BY <1>1, <1>4 DEF AccessesAreSound, TypeOK, Actor, AccessRequest
<1>7. /\ \A s \in Sessions : session[s] # None =>
           session[s].user \in Users /\ session[s].user # u
      /\ \A f \in SignIns : signIn[f] # None =>
           signIn[f].user \in Users /\ signIn[f].user # u
      /\ \A b \in Actors : actor[b] # None => actor[b].user \in Users /\ actor[b].user # u
  BY <1>1 DEF VersionsAreSeen, CeilingHolds, TypeOK, Session, SignIn, Actor
<1>8. VersionsAreSeen'
  BY <1>1, <1>4, <1>7 DEF VersionsAreSeen
<1>9. ReadsAreCurrent'
  <2>1. \A roles : Granted(roles)' = Granted(roles)
    BY <1>1 DEF Granted
  <2> QED BY <1>1, <1>4, <1>7, <2>1 DEF ReadsAreCurrent
<1>10. CeilingHolds'
  BY <1>1, <1>3, <1>4, <1>7 DEF CeilingHolds, ByOwner
<1>11. NoPermissionAppears'
  <2>1. \A roles : Granted(roles)' = Granted(roles)
    BY <1>1 DEF Granted
  <2>2. Granted({c}) = role[c]
    BY DEF Granted
  <2>3. Granted(account'[u].roles) \subseteq ceiling'
    BY <1>2, <1>3, <1>4, <2>2
  <2>4. \A v \in Users : v # u /\ account'[v] # None /\ Owner \notin account'[v].roles
          => Granted(account'[v].roles) \subseteq ceiling'
    BY <1>3, <1>4 DEF NoPermissionAppears
  <2> QED BY <2>1, <2>3, <2>4 DEF NoPermissionAppears
<1> QED BY <1>5, <1>6, <1>8, <1>9, <1>10, <1>11

(* The change itself: the account gets a version no token carries yet.     *)
LEMMA CommitKeeps ==
  ASSUME Sound, NEW a \in Actors, Commit(a)
  PROVE  /\ Sound'
         /\ \A v \in Users :
              \/ account[v] # None /\ Owner \in account[v].roles
              \/ account'[v] # None /\ Owner \in account'[v].roles
              => account'[v] = account[v]
<1> USE DEF Sound
<1> DEFINE x == actor[a].access
           u == x.user
           c == x.role
           made == [active |-> x.active, version |-> x.version + 1, roles |-> {c}]
<1>1. /\ actor[a] # None /\ x # None /\ x \in AccessRequest
      /\ account[u].version = x.version
      /\ account' = [account EXCEPT ![u] = made]
      /\ session' = [s \in Sessions |->
           IF s \in x.live THEN [session[s] EXCEPT !.revoked = TRUE] ELSE session[s]]
      /\ x.live \subseteq Live(u)
      /\ ceiling' = Giving(a, c) /\ actor' = [actor EXCEPT ![a] = None]
      /\ UNCHANGED <<role, signIn>>
  BY DEF Commit, TypeOK, Actor
<1>2. /\ u \in Users /\ c \in Roles /\ account[u] # None
      /\ role[c] # None /\ c # Owner /\ role[c] \subseteq actor[a].permissions
      /\ Owner \notin account[u].roles
  BY <1>1 DEF AccessesAreSound, AccessRequest
<1>3. made \in Account /\ made # None /\ made.roles = {c} /\ made.version = account[u].version + 1
  <2>1. x.version + 1 \in 0..MaxVersion
    BY <1>1, AccountsAssumption DEF AccessRequest
  <2>2. made \in Account
    BY <1>1, <1>2, <2>1 DEF Account, AccessRequest
  <2> QED BY <1>1, <2>2, NoneAssumption
<1>4. ceiling \subseteq ceiling' /\ role[c] \subseteq ceiling' /\ ceiling' \subseteq Permissions
  BY <1>1, <1>2, GivingCovers
<1>5. \A s \in Sessions :
        /\ session'[s] # None => session[s] # None
        /\ session[s] # None => /\ session'[s] \in Session
                                /\ session'[s].user = session[s].user
                                /\ session'[s].version = session[s].version
                                /\ session'[s].permissions = session[s].permissions
  <2> SUFFICES ASSUME NEW s \in Sessions
               PROVE  /\ session'[s] # None => session[s] # None
                      /\ session[s] # None => /\ session'[s] \in Session
                                              /\ session'[s].user = session[s].user
                                              /\ session'[s].version = session[s].version
                                              /\ session'[s].permissions = session[s].permissions
    OBVIOUS
  <2>1. s \in x.live => session[s] # None
    BY <1>1 DEF Live
  <2>2. session[s] # None => session[s] \in Session
    BY DEF TypeOK
  <2>3. CASE s \in x.live
    <3>1. session'[s] = [session[s] EXCEPT !.revoked = TRUE]
      BY <1>1, <2>3
    <3> QED BY <2>1, <2>2, <2>3, <3>1 DEF Session
  <2>4. CASE s \notin x.live
    <3>1. session'[s] = session[s]
      BY <1>1, <2>4
    <3> QED BY <2>2, <3>1
  <2> QED BY <2>3, <2>4
<1>6. /\ account'[u] = made /\ \A v \in Users : v # u => account'[v] = account[v]
      /\ \A b \in Actors : actor'[b] # None => actor'[b] = actor[b]
      /\ session' = [s \in Sessions |-> session'[s]]
  BY <1>1, <1>2 DEF TypeOK
<1>7. account[u].version \in Nat /\ made.version > account[u].version
  BY <1>2, <1>3, AccountsAssumption DEF TypeOK, Account
<1> HIDE DEF made, u, c
<1>8. TypeOK'
  <2>1. /\ account' \in [Users -> Account \cup {None}]
        /\ actor' \in [Actors -> Actor \cup {None}]
    BY <1>1, <1>3 DEF TypeOK
  <2>2. session' \in [Sessions -> Session \cup {None}]
    BY <1>5, <1>6 DEF TypeOK
  <2> QED BY <1>1, <1>2, <1>3, <1>4, <1>6, <2>1, <2>2 DEF TypeOK
<1>9. AccessesAreSound'
  <2> SUFFICES ASSUME NEW b \in Actors, actor'[b] # None, actor'[b].access # None
               PROVE  LET y == actor'[b].access IN
                      /\ role[y.role] # None /\ y.role # Owner
                      /\ role[y.role] \subseteq actor'[b].permissions
                      /\ account'[y.user] # None /\ y.version <= account'[y.user].version
                      /\ y.version = account'[y.user].version
                           => Owner \notin account'[y.user].roles
    BY <1>1 DEF AccessesAreSound
  <2> DEFINE y == actor[b].access
  <2>1. actor'[b] = actor[b] /\ actor[b] # None /\ y # None
    BY <1>6
  <2>2. /\ role[y.role] # None /\ y.role # Owner
        /\ role[y.role] \subseteq actor[b].permissions
        /\ account[y.user] # None /\ y.version <= account[y.user].version
        /\ y.version = account[y.user].version => Owner \notin account[y.user].roles
    BY <2>1 DEF AccessesAreSound
  <2>3. y \in AccessRequest
    BY <2>1 DEF TypeOK, Actor
  <2>4. y.user \in Users /\ y.version \in Nat
    BY <2>3, AccountsAssumption DEF AccessRequest
  <2>5. CASE y.user = u
    BY <1>3, <1>6, <1>7, <2>1, <2>2, <2>4, <2>5
  <2>6. CASE y.user # u
    BY <1>6, <2>1, <2>2, <2>4, <2>6
  <2> QED BY <2>5, <2>6
<1>10. /\ \A s \in Sessions : session[s] # None =>
            session[s].user \in Users /\ session[s].version \in Nat
       /\ \A f \in SignIns : signIn[f] # None =>
            signIn[f].user \in Users /\ signIn[f].version \in Nat
  BY AccountsAssumption DEF TypeOK, Session, SignIn
<1>11. VersionsAreSeen'
  <2>1. \A s \in Sessions : session'[s] # None =>
          /\ account'[session'[s].user] # None
          /\ session'[s].version <= account'[session'[s].user].version
    BY <1>3, <1>5, <1>6, <1>7, <1>10 DEF VersionsAreSeen
  <2>2. \A s \in Sessions : session[s] # None => session'[s] # None
    BY <1>5, NoneAssumption
  <2>3. \A f \in SignIns : signIn[f] # None =>
          /\ account'[signIn[f].user] # None
          /\ signIn[f].version <= account'[signIn[f].user].version
    BY <1>3, <1>6, <1>7, <1>10 DEF VersionsAreSeen
  <2> QED BY <1>1, <2>1, <2>2, <2>3 DEF VersionsAreSeen
<1>12. \A roles : Granted(roles)' = Granted(roles)
  BY <1>1 DEF Granted
<1>13. ReadsAreCurrent'
  <2>1. \A s \in Sessions :
          session'[s] # None /\ session'[s].version = account'[session'[s].user].version
          => session'[s].permissions = Granted(account'[session'[s].user].roles)
    <3> SUFFICES ASSUME NEW s \in Sessions, session'[s] # None,
                        session'[s].version = account'[session'[s].user].version
                 PROVE  session'[s].permissions = Granted(account'[session'[s].user].roles)
      OBVIOUS
    <3>1. /\ session[s] # None /\ session[s].user \in Users /\ session[s].version \in Nat
          /\ session[s].version <= account[session[s].user].version
      BY <1>5, <1>10 DEF VersionsAreSeen
    <3>2. session[s].user # u
      BY <1>3, <1>5, <1>6, <1>7, <3>1
    <3> QED BY <1>5, <1>6, <3>1, <3>2 DEF ReadsAreCurrent
  <2>2. \A f \in SignIns :
          /\ signIn[f] # None /\ signIn[f].phase = "roles"
          /\ signIn[f].version = account'[signIn[f].user].version
          => signIn[f].permissions = Granted(account'[signIn[f].user].roles)
    <3> SUFFICES ASSUME NEW f \in SignIns, signIn[f] # None, signIn[f].phase = "roles",
                        signIn[f].version = account'[signIn[f].user].version
                 PROVE  signIn[f].permissions = Granted(account'[signIn[f].user].roles)
      OBVIOUS
    <3>1. /\ signIn[f].user \in Users /\ signIn[f].version \in Nat
          /\ signIn[f].version <= account[signIn[f].user].version
      BY <1>10 DEF VersionsAreSeen
    <3>2. signIn[f].user # u
      BY <1>3, <1>6, <1>7, <3>1
    <3> QED BY <1>6, <3>1, <3>2 DEF ReadsAreCurrent
  <2> QED BY <1>1, <1>12, <2>1, <2>2 DEF ReadsAreCurrent
<1>14. \A v \in Users : account[v] # None =>
         (Owner \in account'[v].roles <=> Owner \in account[v].roles)
  BY <1>2, <1>3, <1>6
<1>15. CeilingHolds'
  <2>1. \A b \in Actors : actor[b] # None =>
          actor[b].user \in Users /\ account[actor[b].user] # None /\ account'[actor[b].user] # None
    BY <1>3, <1>6 DEF CeilingHolds, TypeOK, Actor
  <2>2. \A s \in Sessions :
          session'[s] # None /\ Owner \notin account'[session'[s].user].roles
          => session'[s].permissions \subseteq ceiling'
    BY <1>4, <1>5, <1>10, <1>14 DEF CeilingHolds, VersionsAreSeen
  <2>3. \A f \in SignIns :
          signIn[f] # None /\ Owner \notin account'[signIn[f].user].roles
          => signIn[f].permissions \subseteq ceiling'
    BY <1>4, <1>10, <1>14 DEF CeilingHolds, VersionsAreSeen
  <2>4. \A b \in Actors : actor'[b] # None =>
          /\ account'[actor'[b].user] # None
          /\ Owner \notin account'[actor'[b].user].roles
               => actor'[b].permissions \subseteq ceiling'
    BY <1>4, <1>6, <1>14, <2>1 DEF CeilingHolds, ByOwner
  <2> QED BY <1>1, <2>2, <2>3, <2>4 DEF CeilingHolds, ByOwner
<1>16. NoPermissionAppears'
  <2>1. Granted({c}) = role[c]
    BY DEF Granted
  <2>2. Granted(account'[u].roles) \subseteq ceiling'
    BY <1>3, <1>4, <1>6, <2>1
  <2>3. \A v \in Users : v # u /\ account'[v] # None /\ Owner \notin account'[v].roles
          => Granted(account'[v].roles) \subseteq ceiling'
    BY <1>4, <1>6 DEF NoPermissionAppears
  <2> QED BY <1>12, <2>2, <2>3 DEF NoPermissionAppears
<1> QED BY <1>2, <1>3, <1>6, <1>8, <1>9, <1>11, <1>13, <1>15, <1>16

LEMMA AbandonKeeps == ASSUME Sound, Abandon PROVE Sound'
<1> USE DEF Sound
<1>1. /\ UNCHANGED <<account, role, session, ceiling>>
      /\ \A f \in SignIns : signIn'[f] # None => signIn'[f] = signIn[f]
      /\ \A a \in Actors : actor'[a] # None => actor'[a] = actor[a]
      /\ signIn' \in [SignIns -> SignIn \cup {None}]
      /\ actor' \in [Actors -> Actor \cup {None}]
  BY DEF Abandon, TypeOK
<1>2. \A roles : Granted(roles)' = Granted(roles)
  BY <1>1 DEF Granted
<1>3. TypeOK'
  BY <1>1 DEF TypeOK
<1>4. AccessesAreSound' /\ VersionsAreSeen'
  BY <1>1 DEF AccessesAreSound, VersionsAreSeen
<1>5. ReadsAreCurrent' /\ NoPermissionAppears'
  BY <1>1, <1>2 DEF ReadsAreCurrent, NoPermissionAppears
<1>6. CeilingHolds'
  BY <1>1 DEF CeilingHolds, ByOwner
<1> QED BY <1>3, <1>4, <1>5, <1>6

LEMMA StutterKeeps == ASSUME Sound, UNCHANGED vars PROVE Sound'
<1> USE DEF Sound, vars
<1>1. \A roles : Granted(roles)' = Granted(roles)
  BY DEF Granted
<1>2. TypeOK' /\ AccessesAreSound' /\ VersionsAreSeen'
  BY DEF TypeOK, AccessesAreSound, VersionsAreSeen
<1>3. ReadsAreCurrent' /\ NoPermissionAppears' /\ CeilingHolds'
  BY <1>1 DEF ReadsAreCurrent, NoPermissionAppears, CeilingHolds, ByOwner
<1> QED BY <1>2, <1>3

LEMMA SoundStep == Sound /\ [Next]_vars => Sound'
<1> SUFFICES ASSUME Sound, [Next]_vars PROVE Sound'
  OBVIOUS
<1>1. ASSUME NEW f \in SignIns, NEW u \in Users,
             Register(f, u) \/ \E op \in {"login", "customerLogin"} : Login(f, u, op)
      PROVE  Sound'
  BY <1>1, RegisterKeeps, LoginKeeps
<1>2. ASSUME NEW f \in SignIns, NEW s \in Sessions, ReadToken(f, s) \/ Issue(f, s)
      PROVE  Sound'
  BY <1>2, ReadTokenKeeps, IssueKeeps
<1>3. ASSUME NEW f \in SignIns, ReadUser(f) \/ ReadRoles(f) \/ Revoke(f)
      PROVE  Sound'
  BY <1>3, ReadUserKeeps, ReadRolesKeeps, RevokeKeeps
<1>4. ASSUME NEW a \in Actors, NEW s \in Sessions, Authorize(a, s) PROVE Sound'
  BY <1>4, AuthorizeKeeps
<1>5. ASSUME NEW a \in Actors, NEW u \in Users, NEW c \in Roles,
             CreateStaff(a, u, c) \/ \E active \in BOOLEAN : Access(a, u, c, active)
      PROVE  Sound'
  BY <1>5, CreateStaffKeeps, AccessKeeps
<1>6. ASSUME NEW a \in Actors, Commit(a) PROVE Sound'
  BY <1>6, CommitKeeps
<1>7. ASSUME NEW a \in Actors, NEW c \in Roles, NEW permissions \in SUBSET Permissions,
             CreateRole(a, c, permissions)
      PROVE  Sound'
  BY <1>7, CreateRoleKeeps
<1> QED BY <1>1, <1>2, <1>3, <1>4, <1>5, <1>6, <1>7, AbandonKeeps, StutterKeeps DEF Next

(* Types, and that no one has two roles or one that is not there.          *)
THEOREM AccountsTypeCorrect == Spec => []TypeOK
<1>1. Sound => TypeOK
  BY DEF Sound
<1> QED BY <1>1, SoundInit, SoundStep, PTL DEF Spec

(* A token the guard accepts carries the permissions of the account now.   *)
THEOREM TokensAreCurrent == Spec => []PermissionsAreCurrent
<1>1. Sound => PermissionsAreCurrent
  BY DEF Sound, ReadsAreCurrent, PermissionsAreCurrent, Accepted
<1> QED BY <1>1, SoundInit, SoundStep, PTL DEF Spec

(* Staff among themselves never come to a permission they did not have.    *)
THEOREM GrantsAreConfined == Spec => []NoPermissionAppears
<1>1. Sound => NoPermissionAppears
  BY DEF Sound
<1> QED BY <1>1, SoundInit, SoundStep, PTL DEF Spec

(* No operation makes, unmakes or locks out an owner.                      *)
THEOREM OwnersStay == Spec => OwnersAreFixed
<1> DEFINE Fixed == \A u \in Users :
             \/ account[u] # None /\ Owner \in account[u].roles
             \/ account'[u] # None /\ Owner \in account'[u].roles
             => account'[u] = account[u]
<1>1. Sound /\ [Next]_vars => [Fixed]_account
  <2> SUFFICES ASSUME Sound, Next, account' # account PROVE Fixed
    BY DEF vars
  <2>1. ASSUME NEW f \in SignIns, NEW u \in Users, Register(f, u) PROVE Fixed
    BY <2>1 DEF Register, Sound, TypeOK
  <2>2. ASSUME NEW a \in Actors, NEW u \in Users, NEW c \in Roles, CreateStaff(a, u, c)
        PROVE  Fixed
    BY <2>2 DEF CreateStaff, Assignable, Sound, TypeOK
  <2>3. ASSUME NEW a \in Actors, Commit(a) PROVE Fixed
    BY <2>3, CommitKeeps
  <2> HIDE DEF Fixed
  <2> QED
    BY <2>1, <2>2, <2>3 DEF Next, Login, ReadToken, ReadUser, ReadRoles, Issue, Revoke,
                            Authorize, Access, CreateRole, Abandon
<1> QED BY <1>1, SoundInit, SoundStep, PTL DEF Spec, OwnersAreFixed

(***************************************************************************)
(* A refresh leaves its user a token that is good. The token made last is  *)
(* one no refresh is about to revoke, for a refresh reads a token before it*)
(* makes another; and what a change by staff does not revoke was made after*)
(* its snapshot, so there too the last one made is nobody's to revoke.     *)
(***************************************************************************)
Good(s, u) == session[s] # None /\ session[s].user = u /\ ~session[s].revoked

(* A refresh has made a token, and has this one still to revoke.           *)
Pending(s) ==
  \E f \in SignIns : signIn[f] # None /\ signIn[f].phase = "issued" /\ signIn[f].from = s

(* Of the good tokens of u but these, if any, one will be left.            *)
OneLasts(u, but) ==
  \A s \in Sessions : Good(s, u) /\ s \notin but
    => \E t \in Sessions : Good(t, u) /\ t \notin but /\ ~Pending(t)

RefreshesAreOwn ==
  \A f \in SignIns : signIn[f] # None /\ signIn[f].op = "refresh"
    => session[signIn[f].from].user = signIn[f].user

AccessesLeaveOne ==
  \A a \in Actors, u \in Users, but \in SUBSET Sessions :
    /\ actor[a] # None /\ actor[a].access # None
    /\ actor[a].access.user = u /\ actor[a].access.live = but
    => /\ \A s \in but : session[s] # None
       /\ actor[a].access.version = account[u].version => OneLasts(u, but)

Lasting ==
  /\ Sound /\ RefreshesAreOwn /\ AccessesLeaveOne
  /\ \A u \in Users : OneLasts(u, {})

(* Steps that write no session, and after which no more are pending.       *)
LEMMA QuietKeepsLasting ==
  ASSUME Lasting, Sound', RefreshesAreOwn', session' = session,
         \A s \in Sessions : Pending(s)' => Pending(s),
         \A a \in Actors : actor'[a] # None /\ actor'[a].access # None =>
           LET x == actor'[a].access IN
           \/ /\ actor[a] # None /\ actor[a].access = x
              /\ account'[x.user].version = account[x.user].version
           \/ x.live = Live(x.user)
  PROVE  Lasting'
<1>1. \A u : \A but : OneLasts(u, but) => OneLasts(u, but)'
  BY DEF OneLasts, Good
<1>2. ASSUME NEW a \in Actors, NEW u \in Users, NEW but \in SUBSET Sessions,
             actor'[a] # None, actor'[a].access # None,
             actor'[a].access.user = u, actor'[a].access.live = but
      PROVE  /\ \A s \in but : session'[s] # None
             /\ actor'[a].access.version = account'[u].version => OneLasts(u, but)'
  <2>1. CASE but = Live(u)
    BY <2>1 DEF Live, OneLasts, Good
  <2>2. CASE /\ actor[a] # None /\ actor[a].access = actor'[a].access
             /\ account'[u].version = account[u].version
    <3>1. /\ \A s \in but : session[s] # None
          /\ actor'[a].access.version = account[u].version => OneLasts(u, but)
      BY <1>2, <2>2 DEF Lasting, AccessesLeaveOne
    <3> QED BY <1>1, <2>2, <3>1
  <2> QED BY <1>2, <2>1, <2>2
<1>3. AccessesLeaveOne'
  BY <1>2 DEF AccessesLeaveOne
<1> QED BY <1>1, <1>3 DEF Lasting

(* Steps of a sign-in before it makes a token.                             *)
LEMMA SignInKeepsLasting ==
  ASSUME Lasting, Sound', session' = session, actor' = actor, NEW f \in SignIns,
         \A g \in SignIns : g # f => signIn'[g] = signIn[g],
         signIn'[f].phase # "issued",
         signIn'[f].op = "refresh" => session[signIn'[f].from].user = signIn'[f].user,
         \A u \in Users : account[u] # None => account'[u] = account[u]
  PROVE  Lasting'
<1>1. \A s \in Sessions : Pending(s)' => Pending(s)
  BY DEF Pending
<1>2. RefreshesAreOwn'
  BY DEF RefreshesAreOwn, Lasting
<1>3. \A a \in Actors : actor[a] # None /\ actor[a].access # None =>
        LET x == actor[a].access IN account'[x.user].version = account[x.user].version
  BY DEF Lasting, Sound, TypeOK, Actor, AccessRequest, AccessesAreSound
<1> QED BY <1>1, <1>2, <1>3, QuietKeepsLasting

LEMMA ReadsKeepLasting ==
  ASSUME Lasting, Sound', NEW f \in SignIns,
         \/ \E u \in Users, op \in {"login", "customerLogin"} : Login(f, u, op)
         \/ \E u \in Users : Register(f, u)
         \/ \E s \in Sessions : ReadToken(f, s)
         \/ ReadUser(f) \/ ReadRoles(f)
  PROVE  Lasting'
<1>1. signIn \in [SignIns -> SignIn \cup {None}] /\ account \in [Users -> Account \cup {None}]
  BY DEF Lasting, Sound, TypeOK
<1>2. ASSUME NEW u \in Users, NEW op \in {"login", "customerLogin"}, Login(f, u, op)
      PROVE  Lasting'
  BY <1>1, <1>2, SignInKeepsLasting DEF Login
<1>3. ASSUME NEW u \in Users, Register(f, u) PROVE Lasting'
  BY <1>1, <1>3, SignInKeepsLasting DEF Register
<1>4. ASSUME NEW s \in Sessions, ReadToken(f, s) PROVE Lasting'
  BY <1>1, <1>4, SignInKeepsLasting DEF ReadToken
<1>5. ASSUME ReadUser(f) \/ ReadRoles(f) PROVE Lasting'
  <2> DEFINE x == signIn[f]
  <2>1. x # None /\ x \in SignIn /\ UNCHANGED <<session, actor, account>>
    BY <1>1, <1>5 DEF ReadUser, ReadRoles
  <2>2. x.op = "refresh" => session[x.from].user = x.user
    BY <2>1 DEF Lasting, RefreshesAreOwn
  <2>3. /\ signIn'[f].phase # "issued" /\ signIn'[f].op = x.op
        /\ signIn'[f].from = x.from /\ signIn'[f].user = x.user
        /\ \A g \in SignIns : g # f => signIn'[g] = signIn[g]
    BY <1>1, <1>5, <2>1 DEF ReadUser, ReadRoles, SignIn
  <2> HIDE DEF x
  <2> QED BY <2>1, <2>2, <2>3, SignInKeepsLasting
<1> QED BY <1>2, <1>3, <1>4, <1>5

(* Steps of staff that write no session, and crashes.                      *)
LEMMA StaffKeepLasting ==
  ASSUME Lasting, Sound', session' = session,
         \A f \in SignIns : signIn'[f] # None => signIn'[f] = signIn[f],
         \A u \in Users : account[u] # None => account'[u] = account[u],
         \A a \in Actors : actor'[a] # None /\ actor'[a].access # None =>
           \/ actor[a] # None /\ actor[a].access = actor'[a].access
           \/ actor'[a].access.live = Live(actor'[a].access.user)
  PROVE  Lasting'
<1>1. \A s \in Sessions : Pending(s)' => Pending(s)
  BY DEF Pending
<1>2. RefreshesAreOwn'
  BY DEF RefreshesAreOwn, Lasting
<1>3. \A a \in Actors : actor[a] # None /\ actor[a].access # None =>
        LET x == actor[a].access IN account'[x.user].version = account[x.user].version
  BY DEF Lasting, Sound, TypeOK, Actor, AccessRequest, AccessesAreSound
<1> QED BY <1>1, <1>2, <1>3, QuietKeepsLasting

(* The new token is pending for no one, and is in no snapshot. The one it  *)
(* replaces, which is pending now, was of the same user.                   *)
LEMMA IssueKeepsLasting ==
  ASSUME Lasting, Sound', NEW f \in SignIns, NEW s \in Sessions, Issue(f, s)
  PROVE  Lasting'
<1> DEFINE x == signIn[f]
<1>1. /\ x # None /\ x \in SignIn /\ x.phase = "roles" /\ session[s] = None
      /\ UNCHANGED <<account, actor>>
      /\ session'[s].user = x.user /\ ~session'[s].revoked
      /\ \A t \in Sessions : t # s => session'[t] = session[t]
      /\ \A g \in SignIns : g # f => signIn'[g] = signIn[g]
      /\ signIn'[f] # None => /\ x.op = "refresh" /\ signIn'[f].op = "refresh"
                              /\ signIn'[f].from = x.from /\ signIn'[f].user = x.user
  BY DEF Issue, Lasting, Sound, TypeOK, SignIn
<1>2. session'[s] # None
  <2>1. [user |-> x.user, version |-> x.version, permissions |-> x.permissions,
         revoked |-> FALSE] \in Session
    BY <1>1 DEF SignIn, Session
  <2> QED BY <2>1, NoneAssumption DEF Issue, Lasting, Sound, TypeOK
<1>3. \A g \in SignIns : signIn[g] # None /\ signIn[g].op = "refresh" =>
        signIn[g].from \in Sessions /\ signIn[g].from # s
  BY <1>1 DEF Lasting, Sound, VersionsAreSeen
<1>4. \A g \in SignIns : signIn[g] # None /\ signIn[g].phase = "issued" =>
        signIn[g].op = "refresh"
  BY DEF Lasting, Sound, VersionsAreSeen
<1> HIDE DEF x
<1>5. RefreshesAreOwn'
  BY <1>1, <1>3 DEF RefreshesAreOwn, Lasting, x
<1>6. ~Pending(s)'
  BY <1>1, <1>3, <1>4 DEF Pending, x
<1>7. \A t \in Sessions : Pending(t)' => Pending(t) \/ session[t].user = x.user
  BY <1>1 DEF Pending, Lasting, RefreshesAreOwn, x
<1>8. ASSUME NEW u \in Users, NEW but, s \notin but, OneLasts(u, but) PROVE OneLasts(u, but)'
  <2>1. CASE u = x.user
    <3>1. Good(s, u)'
      BY <1>1, <1>2, <2>1 DEF Good
    <3> QED BY <1>6, <1>8, <3>1 DEF OneLasts
  <2>2. CASE u # x.user
    <3>1. \A t \in Sessions : Good(t, u)' <=> Good(t, u)
      BY <1>1, <2>2 DEF Good
    <3>2. \A t \in Sessions : Good(t, u) /\ Pending(t)' => Pending(t)
      BY <1>7, <2>2 DEF Good
    <3> QED BY <1>8, <3>1, <3>2 DEF OneLasts
  <2> QED BY <2>1, <2>2
<1>9. AccessesLeaveOne'
  <2>1. ASSUME NEW a \in Actors, NEW u \in Users, NEW but \in SUBSET Sessions,
               actor[a] # None, actor[a].access # None,
               actor[a].access.user = u, actor[a].access.live = but
        PROVE  /\ \A t \in but : session'[t] # None
               /\ actor[a].access.version = account[u].version => OneLasts(u, but)'
    <3>1. /\ \A t \in but : session[t] # None
          /\ actor[a].access.version = account[u].version => OneLasts(u, but)
      BY <2>1 DEF Lasting, AccessesLeaveOne
    <3>2. s \notin but
      BY <1>1, <3>1
    <3> QED BY <1>1, <1>8, <3>1, <3>2
  <2> QED BY <1>1, <2>1 DEF AccessesLeaveOne
<1>10. \A u \in Users : OneLasts(u, {})'
  BY <1>8 DEF Lasting
<1> QED BY <1>5, <1>9, <1>10 DEF Lasting

(* Only a pending token is revoked; the one that lasts is another.         *)
LEMMA RevokeKeepsLasting ==
  ASSUME Lasting, Sound', NEW f \in SignIns, Revoke(f)
  PROVE  Lasting'
<1> DEFINE s == signIn[f].from
<1>1. /\ Pending(s) /\ s \in Sessions /\ session[s] \in Session
      /\ UNCHANGED <<account, actor>>
      /\ session' = [session EXCEPT ![s] = [session[s] EXCEPT !.revoked = TRUE]]
      /\ \A g \in SignIns : signIn'[g] # None => signIn'[g] = signIn[g]
  BY DEF Revoke, Pending, Lasting, Sound, TypeOK, VersionsAreSeen
<1>2. session'[s] \in Session /\ session'[s].user = session[s].user /\ session'[s].revoked
  BY <1>1 DEF Lasting, Sound, TypeOK, Session
<1>3. \A t \in Sessions : t # s => session'[t] = session[t]
  BY <1>1 DEF Lasting, Sound, TypeOK
<1>4. \A t \in Sessions : (session[t] # None => session'[t] # None)
                           /\ session'[t].user = session[t].user
  BY <1>2, <1>3, NoneAssumption
<1>5. \A t \in Sessions : Pending(t)' => Pending(t)
  BY <1>1 DEF Pending
<1> HIDE DEF s
<1>6. RefreshesAreOwn'
  <2>1. \A g \in SignIns : signIn[g] # None /\ signIn[g].op = "refresh" => signIn[g].from \in Sessions
    BY DEF Lasting, Sound, VersionsAreSeen
  <2> QED BY <1>1, <1>4, <2>1 DEF RefreshesAreOwn, Lasting
<1>7. ASSUME NEW u \in Users, NEW but, OneLasts(u, but) PROVE OneLasts(u, but)'
  <2>1. \A t \in Sessions : Good(t, u)' => Good(t, u)
    BY <1>1, <1>2, <1>3, NoneAssumption DEF Good
  <2>2. \A t \in Sessions : Good(t, u) /\ ~Pending(t) => Good(t, u)'
    BY <1>1, <1>3 DEF Good
  <2> QED BY <1>5, <1>7, <2>1, <2>2 DEF OneLasts
<1>8. AccessesLeaveOne'
  BY <1>1, <1>4, <1>7 DEF AccessesLeaveOne, Lasting
<1> QED BY <1>6, <1>7, <1>8 DEF Lasting

(* What access revokes is of one user, and one of the rest lasts. Another  *)
(* access to the same user has a version that is gone.                     *)
LEMMA CommitKeepsLasting ==
  ASSUME Lasting, Sound', NEW a \in Actors, Commit(a)
  PROVE  /\ Lasting'
         /\ \A v \in Users : account'[v] = account[v]
              => \A s \in Sessions : Good(s, v)' <=> Good(s, v)
<1> DEFINE x == actor[a].access
<1>0. PICK u \in Users : u = x.user
  BY DEF Commit, Lasting, Sound, TypeOK, Actor, AccessRequest
<1>1. /\ actor[a] # None /\ x # None /\ x \in AccessRequest /\ x.live \subseteq Live(u)
      /\ x.user = u /\ x.version = account[u].version
      /\ session' = [s \in Sessions |->
           IF s \in x.live THEN [session[s] EXCEPT !.revoked = TRUE] ELSE session[s]]
      /\ signIn' = signIn
      /\ \A b \in Actors : actor'[b] # None => actor'[b] = actor[b]
  BY <1>0 DEF Commit, Lasting, Sound, TypeOK, Actor
<1>2. x.live \in SUBSET Sessions /\ account[u] # None
  BY <1>1 DEF Lasting, Sound, AccessesAreSound, AccessRequest
<1>3. /\ account'[u].version = account[u].version + 1
      /\ \A v \in Users : v # u => account'[v] = account[v]
  BY <1>1, <1>2 DEF Commit, Lasting, Sound, TypeOK
<1>4. account[u].version \in Nat /\ account'[u] # account[u]
  BY <1>2, <1>3, AccountsAssumption DEF Lasting, Sound, TypeOK, Account
<1> HIDE DEF x
<1>5. ASSUME NEW s \in Sessions
      PROVE  /\ s \notin x.live => session'[s] = session[s]
             /\ s \in x.live => session[s] # None /\ session[s].user = u /\ session'[s].revoked
             /\ session'[s].user = session[s].user
             /\ session[s] # None => session'[s] # None
  <2>1. CASE s \in x.live
    <3>1. session[s] # None /\ session[s].user = u
      BY <1>1, <2>1 DEF Live
    <3>2. session[s] \in Session /\ session'[s] = [session[s] EXCEPT !.revoked = TRUE]
      BY <1>1, <2>1, <3>1 DEF Lasting, Sound, TypeOK
    <3>3. session'[s] \in Session /\ session'[s].revoked /\ session'[s].user = session[s].user
      BY <3>2 DEF Session
    <3> QED BY <2>1, <3>1, <3>3, NoneAssumption
  <2>2. CASE s \notin x.live
    BY <1>1, <2>2
  <2> QED BY <2>1, <2>2
<1>6. \A s \in Sessions : Pending(s)' <=> Pending(s)
  BY <1>1 DEF Pending
<1>7. RefreshesAreOwn'
  BY <1>1, <1>5 DEF RefreshesAreOwn, Lasting, Sound, VersionsAreSeen
<1>8. /\ \A s \in Sessions : Good(s, u)' <=> Good(s, u) /\ s \notin x.live
      /\ \A v \in Users : v # u => \A s \in Sessions : Good(s, v)' <=> Good(s, v)
  <2>1. ASSUME NEW s \in Sessions, s \in x.live
        PROVE  ~Good(s, u)' /\ \A v : v # u => ~Good(s, v)' /\ ~Good(s, v)
    BY <1>5, <2>1 DEF Good
  <2>2. ASSUME NEW s \in Sessions, s \notin x.live PROVE \A v : Good(s, v)' <=> Good(s, v)
    BY <1>5, <2>2 DEF Good
  <2>3. ASSUME NEW s \in Sessions PROVE Good(s, u)' <=> Good(s, u) /\ s \notin x.live
    BY <2>1, <2>2
  <2>4. ASSUME NEW v \in Users, v # u, NEW s \in Sessions PROVE Good(s, v)' <=> Good(s, v)
    BY <2>1, <2>2, <2>4
  <2> QED BY <2>3, <2>4
<1>9. ASSUME NEW v \in Users, v # u, NEW but, OneLasts(v, but) PROVE OneLasts(v, but)'
  BY <1>6, <1>8, <1>9 DEF OneLasts
<1>10. OneLasts(u, {})'
  <2>1. OneLasts(u, x.live)
    BY <1>1, <1>2 DEF Lasting, AccessesLeaveOne, x
  <2> QED BY <1>6, <1>8, <2>1 DEF OneLasts
<1>11. AccessesLeaveOne'
  <2>1. ASSUME NEW b \in Actors, NEW v \in Users, NEW but \in SUBSET Sessions,
               actor'[b] # None, actor'[b].access # None,
               actor'[b].access.user = v, actor'[b].access.live = but
        PROVE  /\ \A s \in but : session'[s] # None
               /\ actor'[b].access.version = account'[v].version => OneLasts(v, but)'
    <3>1. /\ \A s \in but : session[s] # None
          /\ actor[b] # None /\ actor[b].access # None
          /\ actor'[b] = actor[b]
          /\ actor[b].access.version = account[v].version => OneLasts(v, but)
      BY <1>1, <2>1 DEF Lasting, AccessesLeaveOne
    <3>2. actor[b].access.version \in Nat /\ actor[b].access.version <= account[v].version
      BY <2>1, <3>1, AccountsAssumption
         DEF Lasting, Sound, AccessesAreSound, TypeOK, Actor, AccessRequest
    <3>3. v # u \/ actor'[b].access.version # account'[v].version
      BY <1>3, <1>4, <3>1, <3>2
    <3> QED BY <1>3, <1>5, <1>9, <3>1, <3>3
  <2> QED BY <2>1 DEF AccessesLeaveOne
<1>12. ASSUME NEW v \in Users PROVE OneLasts(v, {})'
  <2>1. OneLasts(v, {})
    BY DEF Lasting
  <2> QED BY <1>9, <1>10, <2>1
<1>13. \A v \in Users : account'[v] = account[v] => v # u
  BY <1>4
<1>14. Lasting'
  BY <1>7, <1>11, <1>12 DEF Lasting
<1> QED BY <1>8, <1>13, <1>14

LEMMA LastingStep == Lasting /\ [Next]_vars => Lasting'
<1> SUFFICES ASSUME Lasting, [Next]_vars PROVE Lasting'
  OBVIOUS
<1> USE SoundStep DEF Lasting
<1>1. Sound'
  OBVIOUS
<1>2. /\ signIn \in [SignIns -> SignIn \cup {None}]
      /\ account \in [Users -> Account \cup {None}]
      /\ actor \in [Actors -> Actor \cup {None}]
  BY DEF Sound, TypeOK
<1>3. ASSUME NEW f \in SignIns, NEW u \in Users,
             Register(f, u) \/ \E op \in {"login", "customerLogin"} : Login(f, u, op)
      PROVE  Lasting'
  BY <1>1, <1>3, ReadsKeepLasting
<1>4. ASSUME NEW f \in SignIns, NEW s \in Sessions, ReadToken(f, s) \/ Issue(f, s)
      PROVE  Lasting'
  BY <1>1, <1>4, ReadsKeepLasting, IssueKeepsLasting
<1>5. ASSUME NEW f \in SignIns, ReadUser(f) \/ ReadRoles(f) \/ Revoke(f)
      PROVE  Lasting'
  BY <1>1, <1>5, ReadsKeepLasting, RevokeKeepsLasting
<1>6. ASSUME NEW a \in Actors, NEW s \in Sessions, Authorize(a, s) PROVE Lasting'
  BY <1>1, <1>2, <1>6, StaffKeepLasting DEF Authorize
<1>7. ASSUME NEW a \in Actors, NEW u \in Users, NEW c \in Roles, CreateStaff(a, u, c)
      PROVE  Lasting'
  BY <1>1, <1>2, <1>7, StaffKeepLasting DEF CreateStaff
<1>8. ASSUME NEW a \in Actors, NEW u \in Users, NEW c \in Roles, NEW active \in BOOLEAN,
             Access(a, u, c, active)
      PROVE  Lasting'
  <2>1. /\ UNCHANGED <<account, session, signIn>>
        /\ actor[a] # None /\ actor[a] \in Actor
        /\ \A b \in Actors : b # a => actor'[b] = actor[b]
        /\ actor'[a].access.live = Live(actor'[a].access.user)
    BY <1>2, <1>8 DEF Access, Acting, Actor
  <2> QED BY <1>1, <2>1, StaffKeepLasting
<1>9. ASSUME NEW a \in Actors, Commit(a) PROVE Lasting'
  BY <1>1, <1>9, CommitKeepsLasting
<1>10. ASSUME NEW a \in Actors, NEW c \in Roles, NEW permissions \in SUBSET Permissions,
              CreateRole(a, c, permissions)
       PROVE  Lasting'
  BY <1>1, <1>2, <1>10, StaffKeepLasting DEF CreateRole
<1>11. ASSUME Abandon PROVE Lasting'
  BY <1>1, <1>2, <1>11, StaffKeepLasting DEF Abandon
<1>12. ASSUME UNCHANGED vars PROVE Lasting'
  BY <1>1, <1>12, StaffKeepLasting DEF vars
<1> QED BY <1>3, <1>4, <1>5, <1>6, <1>7, <1>8, <1>9, <1>10, <1>11, <1>12 DEF Next

(* A refresh leaves its user a token that is good, through every crash and *)
(* every crossing, for any number of sign-ins and staff at one time.       *)
THEOREM RefreshesLeaveOne == Spec => RefreshKeepsSignedIn
<1> DEFINE Kept == \A u \in Users : account'[u] = account[u] /\ Live(u) # {} => Live(u)' # {}
<1>1. Init => Lasting
  <2> SUFFICES ASSUME Init PROVE Lasting
    OBVIOUS
  <2>1. /\ \A s \in Sessions : session[s] = None
        /\ \A f \in SignIns : signIn[f] = None
        /\ \A a \in Actors : actor[a] = None
    BY DEF Init
  <2> QED BY <2>1, SoundInit DEF Lasting, RefreshesAreOwn, AccessesLeaveOne, OneLasts, Good
<1>2. Lasting /\ [Next]_vars => [Kept]_session
  <2> SUFFICES ASSUME Lasting, Next, session' # session, Lasting' PROVE Kept
    BY LastingStep DEF vars
  <2>1. \A u \in Users : Live(u) # {} => \E s \in Sessions : Good(s, u) /\ ~Pending(s)
    BY DEF Live, Good, Lasting, OneLasts
  <2>2. ASSUME \A u \in Users : account'[u] = account[u] =>
                 \A s \in Sessions : Good(s, u) /\ ~Pending(s) => Good(s, u)'
        PROVE  Kept
    BY <2>1, <2>2 DEF Live, Good
  <2> HIDE DEF Kept
  <2>3. ASSUME NEW f \in SignIns, NEW s \in Sessions, Issue(f, s) PROVE Kept
    <3>1. \A t \in Sessions : session[t] # None => session'[t] = session[t]
      BY <2>3 DEF Issue, Lasting, Sound, TypeOK
    <3> QED BY <2>2, <3>1 DEF Good
  <2>4. ASSUME NEW f \in SignIns, Revoke(f) PROVE Kept
    <3>1. \A t \in Sessions : ~Pending(t) => session'[t] = session[t]
      BY <2>4 DEF Revoke, Pending, Lasting, Sound, TypeOK
    <3> QED BY <2>2, <3>1 DEF Good
  <2>5. ASSUME NEW a \in Actors, Commit(a) PROVE Kept
    BY <2>2, <2>5, CommitKeepsLasting DEF Lasting
  <2> QED BY <2>3, <2>4, <2>5 DEF Next, Register, Login, ReadToken, ReadUser, ReadRoles,
                                  Authorize, CreateStaff, Access, CreateRole, Abandon
<1> QED BY <1>1, <1>2, LastingStep, PTL DEF Spec, RefreshKeepsSignedIn
=================================================================================
