------------------------------- MODULE Accounts -------------------------------
(***************************************************************************)
(* Accounts, roles and sessions: sign-in and refresh (AuthService), the    *)
(* guards of every request (JwtAuthGuard, PermissionsGuard), and the       *)
(* changes staff make to accounts and roles (AdminService).                *)
(*                                                                         *)
(* login, register and refresh run outside any transaction, and each       *)
(* statement is a step; Prisma reads an included relation by a statement   *)
(* of its own, after the row it hangs from. access runs SERIALIZABLE: what *)
(* it reads is a snapshot, and it commits only if no row it writes has     *)
(* changed since. A role never changes once it is there.                   *)
(*                                                                         *)
(* A session is the pair of tokens issue makes. That a token expires, or   *)
(* is lost, is that no step uses it again. Passwords are right or the      *)
(* sign-in does not happen.                                                *)
(***************************************************************************)
EXTENDS Naturals, FiniteSets

CONSTANTS
  Users,
  Roles,
  Owner,       \* the role ADMIN_OWNER
  Permissions,
  Manage,      \* the permission staff.manage
  Sessions,    \* keys of RefreshToken rows, with the access token of each
  SignIns,     \* calls of login, register and refresh at one time
  Actors,      \* staff requests at one time
  None,        \* no row, no call
  MaxVersion   \* bound: the changes of one account

ASSUME AccountsAssumption ==
  /\ Owner \in Roles /\ Manage \in Permissions
  /\ MaxVersion \in Nat

VARIABLES
  account,
  role,        \* the permissions of each role
  session,
  signIn,
  actor,
  ceiling      \* history: what accounts had at first and owners gave since

vars == <<account, role, session, signIn, actor, ceiling>>

Granted(roles) == UNION {role[c] : c \in roles}

Live(u) == {s \in Sessions : session[s] # None /\ session[s].user = u /\ ~session[s].revoked}

(* The access token of a session is accepted: JwtAuthGuard.                *)
Accepted(s) ==
  /\ session[s] # None
  /\ account[session[s].user].active
  /\ account[session[s].user].version = session[s].version

(* The seed has an owner, and staff with some role; other roles too.       *)
Init ==
  /\ role \in [Roles -> (SUBSET Permissions \ {{}}) \cup {None}]
  /\ role[Owner] = Permissions
  /\ \E first \in [Users -> Roles \cup {None}] :
       /\ \E u \in Users : first[u] = Owner
       /\ \A u \in Users : first[u] # None => role[first[u]] # None
       /\ account = [u \in Users |->
            IF first[u] = None THEN None
            ELSE [active |-> TRUE, version |-> 0, roles |-> {first[u]}]]
       /\ ceiling = Granted({first[u] : u \in Users} \ {Owner, None})
  /\ session = [s \in Sessions |-> None]
  /\ signIn = [f \in SignIns |-> None]
  /\ actor = [a \in Actors |-> None]

-----------------------------------------------------------------------------
(* login: the row of an active user.                                       *)
Login(f, u, op) ==
  /\ signIn[f] = None /\ account[u] # None /\ account[u].active
  /\ signIn' = [signIn EXCEPT ![f] =
       [op |-> op, phase |-> "user", user |-> u, version |-> account[u].version,
        permissions |-> {}, from |-> None]]
  /\ UNCHANGED <<account, role, session, actor, ceiling>>

(* register: a customer, who has no roles.                                 *)
Register(f, u) ==
  /\ signIn[f] = None /\ account[u] = None
  /\ account' = [account EXCEPT ![u] = [active |-> TRUE, version |-> 0, roles |-> {}]]
  /\ signIn' = [signIn EXCEPT ![f] =
       [op |-> "register", phase |-> "roles", user |-> u, version |-> 0,
        permissions |-> {}, from |-> None]]
  /\ UNCHANGED <<role, session, actor, ceiling>>

(* Mutant: a token is revoked when it is read, before there is another.    *)
ReadToken_Revoking(f, s) ==
  /\ signIn[f] = None /\ session[s] # None /\ ~session[s].revoked
  /\ signIn' = [signIn EXCEPT ![f] =
       [op |-> "refresh", phase |-> "token", user |-> session[s].user, version |-> 0,
        permissions |-> {}, from |-> s]]
  /\ session' = [session EXCEPT ![s].revoked = TRUE]
  /\ UNCHANGED <<account, role, actor, ceiling>>

(* refresh: a token that is not revoked ...                                *)
ReadToken(f, s) ==
  /\ signIn[f] = None /\ session[s] # None /\ ~session[s].revoked
  /\ signIn' = [signIn EXCEPT ![f] =
       [op |-> "refresh", phase |-> "token", user |-> session[s].user, version |-> 0,
        permissions |-> {}, from |-> s]]
  /\ UNCHANGED <<account, role, session, actor, ceiling>>

(* ... and its user, who is active.                                        *)
ReadUser(f) ==
  LET x == signIn[f] IN
  /\ x # None /\ x.phase = "token" /\ account[x.user].active
  /\ signIn' = [signIn EXCEPT ![f].phase = "user",
                              ![f].version = account[x.user].version]
  /\ UNCHANGED <<account, role, session, actor, ceiling>>

(* The roles of the user; staff may not sign in where customers do.        *)
ReadRoles(f) ==
  LET x == signIn[f] IN
  /\ x # None /\ x.phase = "user"
  /\ x.op = "customerLogin" => account[x.user].roles = {}
  /\ signIn' = [signIn EXCEPT ![f].phase = "roles",
                              ![f].permissions = Granted(account[x.user].roles)]
  /\ UNCHANGED <<account, role, session, actor, ceiling>>

(* Mutant: the version of the account is read again when tokens are made.  *)
Issue_VersionNow(f, s) ==
  LET x == signIn[f] IN
  /\ x # None /\ x.phase = "roles" /\ session[s] = None
  /\ session' = [session EXCEPT ![s] =
       [user |-> x.user, version |-> account[x.user].version,
        permissions |-> x.permissions, revoked |-> FALSE]]
  /\ signIn' = [signIn EXCEPT ![f] =
       IF x.op = "refresh" THEN [x EXCEPT !.phase = "issued"] ELSE None]
  /\ UNCHANGED <<account, role, actor, ceiling>>

(* issue: the access token carries what was read; a refresh has its old    *)
(* token still to revoke.                                                  *)
Issue(f, s) ==
  LET x == signIn[f] IN
  /\ x # None /\ x.phase = "roles" /\ session[s] = None
  /\ session' = [session EXCEPT ![s] =
       [user |-> x.user, version |-> x.version,
        permissions |-> x.permissions, revoked |-> FALSE]]
  /\ signIn' = [signIn EXCEPT ![f] =
       IF x.op = "refresh" THEN [x EXCEPT !.phase = "issued"] ELSE None]
  /\ UNCHANGED <<account, role, actor, ceiling>>

Revoke(f) ==
  LET x == signIn[f] IN
  /\ x # None /\ x.phase = "issued"
  /\ session' = [session EXCEPT ![x.from].revoked = TRUE]
  /\ signIn' = [signIn EXCEPT ![f] = None]
  /\ UNCHANGED <<account, role, actor, ceiling>>

-----------------------------------------------------------------------------
(* A staff request passes the guards; from here on it acts on what its     *)
(* token says.                                                             *)
Authorize(a, s) ==
  /\ actor[a] = None /\ Accepted(s) /\ Manage \in session[s].permissions
  /\ actor' = [actor EXCEPT ![a] =
       [user |-> session[s].user, permissions |-> session[s].permissions,
        access |-> None]]
  /\ UNCHANGED <<account, role, session, signIn, ceiling>>

(* The request a is under way, and has not begun a transaction.            *)
Acting(a) == actor[a] # None /\ actor[a].access = None

(* assignable: not the owner's role, nor one with more than the actor has. *)
Assignable(a, c) ==
  role[c] # None /\ c # Owner /\ role[c] \subseteq actor[a].permissions

ByOwner(a) == Owner \in account[actor[a].user].roles

(* What an actor gives, counted when owners give it.                       *)
Giving(a, c) == IF ByOwner(a) THEN ceiling \cup role[c] ELSE ceiling

CreateStaff(a, u, c) ==
  /\ Acting(a) /\ Assignable(a, c)
  /\ account[u] = None
  /\ account' = [account EXCEPT ![u] = [active |-> TRUE, version |-> 0, roles |-> {c}]]
  /\ ceiling' = Giving(a, c)
  /\ actor' = [actor EXCEPT ![a] = None]
  /\ UNCHANGED <<role, session, signIn>>

(* Mutant: access compares permissions and forgets the owner's role.       *)
Access_OwnersToo(a, u, c, active) ==
  /\ Acting(a) /\ Assignable(a, c)
  /\ account[u] # None /\ account[u].version < MaxVersion
  /\ u # actor[a].user /\ Granted(account[u].roles) \subseteq actor[a].permissions
  /\ actor' = [actor EXCEPT ![a].access =
       [user |-> u, role |-> c, active |-> active,
        version |-> account[u].version, live |-> Live(u)]]
  /\ UNCHANGED <<account, role, session, signIn, ceiling>>

(* Mutant: access does not ask whether the actor may give the role.        *)
Access_Unassignable(a, u, c, active) ==
  /\ Acting(a) /\ role[c] # None /\ c # Owner
  /\ account[u] # None /\ account[u].version < MaxVersion
  /\ u # actor[a].user /\ Owner \notin account[u].roles
  /\ Granted(account[u].roles) \subseteq actor[a].permissions
  /\ actor' = [actor EXCEPT ![a].access =
       [user |-> u, role |-> c, active |-> active,
        version |-> account[u].version, live |-> Live(u)]]
  /\ UNCHANGED <<account, role, session, signIn, ceiling>>

(* access takes its snapshot: someone else, who is not an owner and has no *)
(* more than the actor has.                                                *)
Access(a, u, c, active) ==
  /\ Acting(a) /\ Assignable(a, c)
  /\ account[u] # None /\ account[u].version < MaxVersion
  /\ u # actor[a].user /\ Owner \notin account[u].roles
  /\ Granted(account[u].roles) \subseteq actor[a].permissions
  /\ actor' = [actor EXCEPT ![a].access =
       [user |-> u, role |-> c, active |-> active,
        version |-> account[u].version, live |-> Live(u)]]
  /\ UNCHANGED <<account, role, session, signIn, ceiling>>

(* Mutant: access adds the new role to the ones there are.                 *)
Commit_Adding(a) ==
  LET x == actor[a].access IN
  /\ actor[a] # None /\ x # None
  /\ account[x.user].version = x.version /\ x.live \subseteq Live(x.user)
  /\ account' = [account EXCEPT ![x.user] =
       [active |-> x.active, version |-> x.version + 1, roles |-> @.roles \cup {x.role}]]
  /\ session' = [s \in Sessions |->
       IF s \in x.live THEN [session[s] EXCEPT !.revoked = TRUE] ELSE session[s]]
  /\ ceiling' = Giving(a, x.role)
  /\ actor' = [actor EXCEPT ![a] = None]
  /\ UNCHANGED <<role, signIn>>

(* access writes and commits, if no row it writes has changed meanwhile.   *)
Commit(a) ==
  LET x == actor[a].access IN
  /\ actor[a] # None /\ x # None
  /\ account[x.user].version = x.version /\ x.live \subseteq Live(x.user)
  /\ account' = [account EXCEPT ![x.user] =
       [active |-> x.active, version |-> x.version + 1, roles |-> {x.role}]]
  /\ session' = [s \in Sessions |->
       IF s \in x.live THEN [session[s] EXCEPT !.revoked = TRUE] ELSE session[s]]
  /\ ceiling' = Giving(a, x.role)
  /\ actor' = [actor EXCEPT ![a] = None]
  /\ UNCHANGED <<role, signIn>>

(* role: a new one, of permissions the actor has.                          *)
CreateRole(a, c, permissions) ==
  /\ Acting(a) /\ role[c] = None /\ c # Owner
  /\ permissions # {} /\ permissions \subseteq actor[a].permissions
  /\ role' = [role EXCEPT ![c] = permissions]
  /\ actor' = [actor EXCEPT ![a] = None]
  /\ UNCHANGED <<account, session, signIn, ceiling>>

(* An error, a serialization failure, or a crash, between two steps.       *)
Abandon ==
  \/ \E f \in SignIns :
       /\ signIn[f] # None /\ signIn' = [signIn EXCEPT ![f] = None]
       /\ UNCHANGED <<account, role, session, actor, ceiling>>
  \/ \E a \in Actors :
       /\ actor[a] # None /\ actor' = [actor EXCEPT ![a] = None]
       /\ UNCHANGED <<account, role, session, signIn, ceiling>>

Next ==
  \/ \E f \in SignIns, u \in Users :
       Register(f, u) \/ \E op \in {"login", "customerLogin"} : Login(f, u, op)
  \/ \E f \in SignIns, s \in Sessions : ReadToken(f, s) \/ Issue(f, s)
  \/ \E f \in SignIns : ReadUser(f) \/ ReadRoles(f) \/ Revoke(f)
  \/ \E a \in Actors, s \in Sessions : Authorize(a, s)
  \/ \E a \in Actors, u \in Users, c \in Roles :
       CreateStaff(a, u, c) \/ \E active \in BOOLEAN : Access(a, u, c, active)
  \/ \E a \in Actors : Commit(a)
  \/ \E a \in Actors, c \in Roles, permissions \in SUBSET Permissions :
       CreateRole(a, c, permissions)
  \/ Abandon

Spec == Init /\ [][Next]_vars

-----------------------------------------------------------------------------
Account == [active: BOOLEAN, version: 0..MaxVersion, roles: SUBSET Roles]

Session == [user: Users, version: 0..MaxVersion, permissions: SUBSET Permissions,
            revoked: BOOLEAN]

SignIn == [op: {"login", "customerLogin", "register", "refresh"},
           phase: {"token", "user", "roles", "issued"}, user: Users,
           version: 0..MaxVersion, permissions: SUBSET Permissions,
           from: Sessions \cup {None}]

AccessRequest == [user: Users, role: Roles, active: BOOLEAN, live: SUBSET Sessions,
                  version: {v \in 0..MaxVersion : v < MaxVersion}]

Actor == [user: Users, permissions: SUBSET Permissions,
          access: AccessRequest \cup {None}]

(* A row, or a call, is no None.                                           *)
ASSUME NoneAssumption ==
  /\ None \notin Users \cup Sessions /\ None \notin Account
  /\ None \notin Session /\ None \notin SignIn
  /\ None \notin Actor /\ None \notin AccessRequest

(* Types; no one has two roles, or one that is not there.                  *)
TypeOK ==
  /\ account \in [Users -> Account \cup {None}]
  /\ role \in [Roles -> (SUBSET Permissions) \cup {None}]
  /\ session \in [Sessions -> Session \cup {None}]
  /\ signIn \in [SignIns -> SignIn \cup {None}]
  /\ actor \in [Actors -> Actor \cup {None}]
  /\ ceiling \subseteq Permissions
  /\ \A u \in Users : account[u] # None =>
       /\ \A c \in account[u].roles : role[c] # None
       /\ \A c, d \in account[u].roles : c = d

(* A token the guard accepts carries the permissions the account has now,  *)
(* neither more nor fewer, whatever changes came between the statements of *)
(* the sign-in that made it.                                               *)
PermissionsAreCurrent ==
  \A s \in Sessions : Accepted(s) =>
    session[s].permissions = Granted(account[session[s].user].roles)

(* No round of grants among staff makes a permission appear: an account    *)
(* that is no owner's has only what such accounts had at first, or what an *)
(* owner gave since, though staff act on tokens and roles that others are  *)
(* changing.                                                               *)
NoPermissionAppears ==
  \A u \in Users : account[u] # None /\ Owner \notin account[u].roles
    => Granted(account[u].roles) \subseteq ceiling

(* No staff operation makes an owner, unmakes one or locks one out.        *)
OwnersAreFixed ==
  [][\A u \in Users :
       \/ account[u] # None /\ Owner \in account[u].roles
       \/ account'[u] # None /\ Owner \in account'[u].roles
       => account'[u] = account[u]]_account

(* A refresh leaves its user a token that is good, wherever it crashes and *)
(* whatever crosses it: another refresh with the same token, one with the  *)
(* token just made, or a change by staff that has read the tokens already. *)
RefreshKeepsSignedIn ==
  [][\A u \in Users :
       account'[u] = account[u] /\ Live(u) # {} => Live(u)' # {}]_session

(* "Changing role revokes old token and refresh": a refresh token that is  *)
(* still good belongs to the account as it is, not as it was before staff  *)
(* changed it.                                                             *)
ChangesEndSessions ==
  \A s \in Sessions : session[s] # None /\ ~session[s].revoked
    => session[s].version = account[session[s].user].version
=============================================================================
