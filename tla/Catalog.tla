------------------------------ MODULE Catalog ------------------------------
(***************************************************************************)
(* ironrag.py, resolve_library_refs: how the library refs of a routing     *)
(* snapshot become UUIDs.  For each ref the client walks the catalog's     *)
(* `search` results page by page, by offset, looking for the row whose     *)
(* slug is exactly the wanted one, while libraries come and go on the      *)
(* service.  The catalog itself is not part of this repository.            *)
(*                                                                         *)
(* All refs are of one workspace: its lookup is a request that may fail    *)
(* like any other, and the check of the row's workspaceId compares what    *)
(* the request already fixed.                                              *)
(***************************************************************************)
EXTENDS Naturals, FiniteSets, SequencesExt

CONSTANTS
    Refs,           \* library refs
    LibraryIds,     \* UUIDs; a library created anew has a new one
    RefOf,          \* the ref each library goes by
    Hits,           \* a ref's search results: refs whose name contains its slug
    Listed,         \* the catalog at first
    Limit,          \* CATALOG_LIBRARY_PAGE_LIMIT: rows a page is asked for
    Clamp,          \* rows the service puts on a page at most
    HonoursOffset,  \* whether the service heeds `offset`
    MaxChanges      \* bound on libraries that appear or vanish

ASSUME RefsAssumption == Refs # {}
ASSUME RefOfAssumption == RefOf \in [LibraryIds -> Refs]
ASSUME HitsAssumption  == /\ Hits \in [Refs -> SUBSET Refs]
                          /\ \A r \in Refs : r \in Hits[r]
ASSUME PageAssumption  == /\ Limit \in Nat \ {0} /\ Clamp \in 1 .. Limit
                          /\ HonoursOffset \in BOOLEAN
ASSUME ListedAssumption == Listed \in Seq(LibraryIds)
ASSUME MaxChangesAssumption == MaxChanges \in Nat

VARIABLES
    catalog,        \* the libraries the caller may see, in the service's order
    walk,           \* the resolution under way
    changes         \* changes of the catalog so far

catalogVars == <<catalog, walk, changes>>

Verdicts == {"found", "invisible", "incomplete", "error"}

\* pc        a page is to be read, or how the resolution ended
\* wanted    the ref being looked for; left, the ones after it
\* received  rows received; seen, the distinct ones; total, the last totalCount
\* found     the libraries found so far
\* healthy   wanted was listed when its walk began, and nothing vanished since
Walk == [pc : {"idle", "reading"} \cup Verdicts,
         wanted : Refs, left : SUBSET Refs,
         received : Nat, seen : SUBSET LibraryIds, total : Nat,
         found : UNION {[R -> LibraryIds] : R \in SUBSET Refs},
         healthy : BOOLEAN]

CatalogTypeOK == /\ catalog \in Seq(LibraryIds)
                 /\ walk \in Walk
                 /\ changes \in 0 .. MaxChanges

Visible(r) == \E n \in DOMAIN catalog : RefOf[catalog[n]] = r

NoneFound == [r \in {} |-> r]

\* The walk for one ref of R, the others after it.
LookFor(R, found) ==
    LET r == CHOOSE x \in R : TRUE
    IN  [pc |-> "reading", wanted |-> r, left |-> R \ {r}, received |-> 0,
         seen |-> {}, total |-> 0, found |-> found, healthy |-> Visible(r)]

NoWalk == [LookFor(Refs, NoneFound) EXCEPT !.pc = "idle", !.healthy = FALSE]

CatalogInit == catalog = Listed /\ walk = NoWalk /\ changes = 0

\* Nothing to resolve is resolved without a request.
Resolve(R) ==
    walk' = IF R = {} THEN [NoWalk EXCEPT !.pc = "found"] ELSE LookFor(R, NoneFound)

\* The service's answer: the places in the catalog of the search results for r,
\* how many of them there are up to a place, and the page at an offset.
Results(r) == {n \in DOMAIN catalog : RefOf[catalog[n]] \in Hits[r]}

Rank(r, n) == Cardinality({m \in Results(r) : m <= n})

Page(r, offset) ==
    LET from == IF HonoursOffset THEN offset ELSE 0
    IN  {n \in Results(r) : Rank(r, n) \in from + 1 .. from + Clamp}

Rows(page) == {catalog[n] : n \in page}

\* Mutant of Exact: the first row that matches the search is taken.
AnyHit(page) == Rows(page)

Exact(page) == {d \in Rows(page) : RefOf[d] = walk.wanted}

\* Mutant of Exhausted: a page shorter than asked for is taken for the last.
ShortPage(page) == Cardinality(page) < Limit

Exhausted(page) ==
    walk.received + Cardinality(page) >= Cardinality(Results(walk.wanted))

\* The library d of the wanted ref joins the ones found.
WithFound(d) == [t \in DOMAIN walk.found \cup {walk.wanted} |->
                    IF t = walk.wanted THEN d ELSE walk.found[t]]

\* The next page: the wanted row ends the walk for its ref; else every row has
\* been received, or the page had nothing new, or the next page is asked for.
ReadPage ==
    LET page == Page(walk.wanted, walk.received)
        next == [walk EXCEPT !.received = @ + Cardinality(page),
                             !.seen = @ \cup Rows(page),
                             !.total = Cardinality(Results(walk.wanted))]
        rows == Exact(page)
    IN  /\ walk.pc = "reading"
        /\ \/ \E d \in rows :
                 walk' = IF walk.left = {}
                         THEN [NoWalk EXCEPT !.pc = "found", !.found = WithFound(d)]
                         ELSE LookFor(walk.left, WithFound(d))
           \/ rows = {} /\ Exhausted(page)
              /\ walk' = [next EXCEPT !.pc = "invisible"]
           \/ rows = {} /\ ~Exhausted(page)
              /\ walk' = IF Rows(page) \subseteq walk.seen
                         THEN [next EXCEPT !.pc = "incomplete"]
                         ELSE next
        /\ UNCHANGED <<catalog, changes>>

\* A request fails: transport error, 4xx or 5xx, a body that is not a page, or
\* a workspace that is not listed.
RequestFails ==
    /\ walk.pc = "reading"
    /\ walk' = [walk EXCEPT !.pc = "error"]
    /\ UNCHANGED <<catalog, changes>>

-----------------------------------------------------------------------------
(* The catalog's own steps.                                                *)

Change == changes < MaxChanges /\ changes' = changes + 1

\* A library appears at position n; one ref goes to one library at a time.
Appear(d, n) ==
    /\ ~Visible(RefOf[d])
    /\ n \in 1 .. Len(catalog) + 1
    /\ Change
    /\ catalog' = InsertAt(catalog, n, d)
    /\ UNCHANGED walk

Vanish(n) ==
    /\ n \in DOMAIN catalog
    /\ Change
    /\ catalog' = RemoveAt(catalog, n)
    /\ walk' = [walk EXCEPT !.healthy = FALSE]

CatalogChanges == \E n \in 1 .. Len(catalog) + 1 :
                     Vanish(n) \/ \E d \in LibraryIds : Appear(d, n)

-----------------------------------------------------------------------------
\* A ref is reported invisible only if its library was not listed when the walk
\* began, or some library vanished during it: libraries that appear meanwhile,
\* and pages the service cuts short, do not hide it.
InvisibleIsHidden == walk.pc = "invisible" => ~walk.healthy

\* A ref is reported invisible only after as many distinct rows were scanned as
\* the service claims there are.
ScannedAll == walk.pc = "invisible" => Cardinality(walk.seen) >= walk.total
=============================================================================
