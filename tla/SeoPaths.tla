------------------------------- MODULE SeoPaths -------------------------------
(***************************************************************************)
(* The addresses of the public pages (SeoService): a change of path leaves *)
(* a redirect behind, and resolve answers an address with the redirect     *)
(* there, or else with the published page there.                           *)
(*                                                                         *)
(* updatePath runs SERIALIZABLE and is one step. resolve reads redirects   *)
(* and pages in two statements outside any transaction, so a change of     *)
(* path may come between them. normalize is the choice of Paths: two       *)
(* spellings of one address are one element.                               *)
(***************************************************************************)
EXTENDS Naturals, FiniteSets, Functions

CONSTANTS
  Pages,
  Paths,       \* normalized addresses
  Published,   \* the pages whose status is PUBLISHED
  Visitors,    \* requests for an address being answered at one time
  Nothing      \* no redirect, no page, no visit

ASSUME SeoAssumption ==
  /\ Published \subseteq Pages
  /\ Nothing \notin Paths \cup Pages

VARIABLES
  path,        \* the address of each page
  redirect,    \* where each address redirects
  visit,       \* the addresses asked for that had no redirect when looked up
  owner,       \* history: the page that had each address last
  reused,      \* history: pages that shared an address, or came back to one
  crossed      \* history: visits whose address was left meanwhile

vars == <<path, redirect, visit, owner, reused, crossed>>

(* The published page at an address.                                       *)
PageAt(p) ==
  IF \E g \in Published : path[g] = p
  THEN CHOOSE g \in Published : path[g] = p ELSE Nothing

Init ==
  /\ path \in Injection(Pages, Paths)
  /\ redirect = [p \in Paths |-> Nothing]
  /\ visit = [v \in Visitors |-> Nothing]
  /\ crossed = {} /\ reused = {}
  /\ owner = [p \in Paths |-> IF \E g \in Pages : path[g] = p
                              THEN CHOOSE g \in Pages : path[g] = p ELSE Nothing]

(* Mutant: the redirect takes the path of the page for its source.         *)
Destination_Stale(g, new) == path[g]

(* The redirect of a page that moves to new: to where new redirects, if it *)
(* does.                                                                   *)
Destination(g, new) == IF redirect[new] # Nothing THEN redirect[new] ELSE new

(* A page that moves to an address that redirects has it in common with    *)
(* the page that left it, itself perhaps.                                  *)
Sharing(g, new) == IF redirect[new] = Nothing THEN {} ELSE {g, owner[new]}

(* Mutant: a page that moves leaves nothing behind.                        *)
UpdatePath_NoRedirect(g, new) ==
  /\ \A h \in Pages : path[h] # new
  /\ path' = [path EXCEPT ![g] = new]
  /\ owner' = [owner EXCEPT ![new] = g]
  /\ reused' = reused \cup Sharing(g, new)
  /\ crossed' = crossed \cup {v \in Visitors : visit[v] = path[g]}
  /\ UNCHANGED <<redirect, visit>>

(* Mutant: updatePath does not look for a page at the new address.         *)
UpdatePath_Unchecked(g, new) ==
  /\ path' = [path EXCEPT ![g] = new]
  /\ redirect' = [redirect EXCEPT ![path[g]] = Destination(g, new)]
  /\ owner' = [owner EXCEPT ![new] = g]
  /\ reused' = reused \cup Sharing(g, new)
  /\ crossed' = crossed \cup {v \in Visitors : visit[v] = path[g]}
  /\ UNCHANGED visit

(* updatePath to an address no page has.                                   *)
UpdatePath(g, new) ==
  /\ \A h \in Pages : path[h] # new
  /\ path' = [path EXCEPT ![g] = new]
  /\ redirect' = [redirect EXCEPT ![path[g]] = Destination(g, new)]
  /\ owner' = [owner EXCEPT ![new] = g]
  /\ reused' = reused \cup Sharing(g, new)
  /\ crossed' = crossed \cup {v \in Visitors : visit[v] = path[g]}
  /\ UNCHANGED visit

(* resolve, first statement: an address with a redirect is answered with   *)
(* it; for any other the page is looked up next.                           *)
Resolve(v, p) ==
  /\ visit[v] = Nothing /\ redirect[p] = Nothing
  /\ visit' = [visit EXCEPT ![v] = p]
  /\ crossed' = crossed \ {v}
  /\ UNCHANGED <<path, redirect, owner, reused>>

(* Second statement: the page there, or "SEO page not found".              *)
LookUp(v) ==
  /\ visit[v] # Nothing
  /\ visit' = [visit EXCEPT ![v] = Nothing]
  /\ UNCHANGED <<path, redirect, owner, reused, crossed>>

Next ==
  \/ \E g \in Pages, new \in Paths : UpdatePath(g, new)
  \/ \E v \in Visitors, p \in Paths : Resolve(v, p)
  \/ \E v \in Visitors : LookUp(v)

Spec == Init /\ [][Next]_vars

-----------------------------------------------------------------------------
(* Where a visitor who follows every redirect arrives after n of them.     *)
Arrives(p, n) ==
  LET after[k \in 0..n] ==
        IF k = 0 THEN p
        ELSE IF redirect[after[k - 1]] = Nothing THEN after[k - 1]
        ELSE redirect[after[k - 1]]
  IN after[n]

TypeOK ==
  /\ path \in Injection(Pages, Paths)
  /\ redirect \in [Paths -> Paths \cup {Nothing}]
  /\ visit \in [Visitors -> Paths \cup {Nothing}]
  /\ crossed \subseteq Visitors /\ reused \subseteq Pages
  /\ owner \in [Paths -> Pages \cup {Nothing}]

(* Every address a page has had, its present one included, leads to the    *)
(* page and stops there, however often it and the others moved: no         *)
(* redirect is lost, stops short or goes round. Pages that ever had an     *)
(* address in common, or came back to one of their own, are excused, and   *)
(* they alone: what happens to them touches no other page.                 *)
OldAddressesLead ==
  \A p \in Paths : owner[p] \in Pages \ reused
    => /\ Arrives(p, Cardinality(Paths)) = path[owner[p]]
       /\ redirect[path[owner[p]]] = Nothing

(* A visitor who found no redirect at an address that a published page has *)
(* or had finds the page next, and not "SEO page not found", unless the    *)
(* page moves between the two statements of resolve.                       *)
LookUpFinds ==
  \A v \in Visitors \ crossed :
    visit[v] # Nothing /\ owner[visit[v]] \in Published
    => PageAt(visit[v]) = owner[visit[v]]

(* What the sitemap lists can be fetched: a published page is what its own *)
(* address resolves to.                                                    *)
SitemapResolves ==
  \A g \in Published : redirect[path[g]] = Nothing

-----------------------------------------------------------------------------
(* An address a page has had is its address still, or redirects.           *)
OwnersAreKnown ==
  \A p \in Paths :
    owner[p] # Nothing => path[owner[p]] = p \/ redirect[p] # Nothing

(* A visitor between the two statements, at an address no one left since,  *)
(* is at the address of its owner.                                         *)
VisitsAreHome ==
  \A v \in Visitors \ crossed :
    visit[v] # Nothing /\ owner[visit[v]] # Nothing
    => path[owner[visit[v]]] = visit[v]
=============================================================================
