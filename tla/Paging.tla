-------------------------------- MODULE Paging --------------------------------
(***************************************************************************)
(* Walking GET /pokemon page by page (pokedex.list, ListPokemonIter and    *)
(* Paged) while the service may be redeployed with another dex between two *)
(* pages, a page may fail, and the caller may break out of its loop.       *)
(*                                                                         *)
(* A dex is a function from the ids it lists, the key it is sorted by, to  *)
(* whether that Pokemon has the type the walk asks for.                    *)
(***************************************************************************)
EXTENDS Naturals, FiniteSets

CONSTANTS Dexes,   \* the dexes a deployment may serve
          Limit    \* Pokemon per page: the server's parameter has a default

NoCursor == 0

ASSUME PagingAssumption ==
    /\ Limit \in Nat \ {0}
    /\ \A d \in Dexes : DOMAIN d \in SUBSET (Nat \ {0}) /\ IsFiniteSet(DOMAIN d)

VARIABLES
    dex,       \* the dex the service serves now
    at,        \* "fetch", "yield", or how the walk is over
    cursor,    \* the position the next request gives
    page,      \* [items, next]: the page received, not yielded yet
    seen,      \* cursors the server has returned
    yielded,   \* the ids the caller's loop has been given
    stable     \* ids that matched in every dex served since the walk began

vars == <<dex, at, cursor, page, seen, yielded, stable>>

NoPage == [items |-> {}, next |-> NoCursor]
Over == {"ended", "failed", "stopped"}

Matching(d) == {id \in DOMAIN d : d[id]}

Init ==
    /\ dex \in Dexes
    /\ at = "fetch" /\ cursor = NoCursor /\ page = NoPage
    /\ seen = {} /\ yielded = {} /\ stable = Matching(dex)

\* Mutant: the search finds the cursor itself.
AfterInclusive(d, c) == {id \in Matching(d) : id >= c}

\* list starts at the first id after the cursor, wherever that is now.
After(d, c) == {id \in Matching(d) : id > c}

\* Mutant: the look-ahead starts one too far, and misses a single one left.
ListedSkips(d, c, items, next) ==
    LET left == After(d, c) \ items
    IN  /\ items \subseteq After(d, c)
        /\ \A i \in items : \A j \in left : i < j
        /\ IF Cardinality(left) <= 1
           THEN Cardinality(items) = Limit \/ (left = {} /\ Cardinality(items) < Limit)
           ELSE Cardinality(items) = Limit
        /\ IF Cardinality(left) <= 1 THEN next = NoCursor
           ELSE next \in items /\ \A i \in items : i <= next

\* The first Limit of them in order of id; a cursor, the last id of the
\* page, only when something that matches is left behind it.
Listed(d, c, items, next) ==
    /\ items \subseteq After(d, c)
    /\ \A i \in items : \A j \in After(d, c) \ items : i < j
    /\ IF items = After(d, c)
       THEN Cardinality(items) <= Limit /\ next = NoCursor
       ELSE /\ Cardinality(items) = Limit
            /\ next \in items /\ \A i \in items : i <= next

\* One round of Paged: the context, then the page.
Fetch ==
    /\ at = "fetch"
    /\ \E items \in SUBSET After(dex, cursor) : \E next \in items \cup {NoCursor} :
          /\ Listed(dex, cursor, items, next)
          /\ page' = [items |-> items, next |-> next]
    /\ at' = "yield"
    /\ UNCHANGED <<dex, cursor, seen, yielded, stable>>

\* The request fails for good, or the context is done: the error is the
\* last thing the loop is given.
Fail ==
    /\ at = "fetch"
    /\ at' = "failed"
    /\ UNCHANGED <<dex, cursor, page, seen, yielded, stable>>

\* Mutant: the loop paging.ts warns of, which forgets to update the cursor.
YieldForgets ==
    /\ at = "yield"
    /\ yielded' = yielded \cup page.items
    /\ page' = NoPage
    /\ at' = IF page.next = NoCursor THEN "ended" ELSE "fetch"
    /\ UNCHANGED <<dex, cursor, seen, stable>>

\* Every item is yielded; a cursor that came before ends the walk.
Yield ==
    /\ at = "yield"
    /\ yielded' = yielded \cup page.items
    /\ page' = NoPage
    /\ IF page.next = NoCursor \/ page.next \in seen
       THEN at' = "ended" /\ UNCHANGED <<cursor, seen>>
       ELSE at' = "fetch" /\ cursor' = page.next /\ seen' = seen \cup {page.next}
    /\ UNCHANGED <<dex, stable>>

\* The caller breaks out of the loop in the middle of a page.
Break ==
    /\ at = "yield"
    /\ \E some \in SUBSET page.items : yielded' = yielded \cup some
    /\ at' = "stopped"
    /\ UNCHANGED <<dex, cursor, page, seen, stable>>

\* A pod that was started on another dex answers from now on.
Redeploy ==
    /\ dex' \in Dexes
    /\ stable' = stable \cap Matching(dex')
    /\ UNCHANGED <<at, cursor, page, seen, yielded>>

Next == Fetch \/ Fail \/ Yield \/ Break \/ Redeploy

\* The loop goes round: the request is answered or fails, and the caller
\* takes what it is given.
Spec == Init /\ [][Next]_vars /\ WF_vars(Fetch) /\ WF_vars(Yield)

-----------------------------------------------------------------------------
\* A walk that ends without an error has listed every Pokemon that was in
\* every dex served meanwhile: no page boundary, filter or deploy loses one
\* (paging.go: a missing check "silently truncates").
WalkIsWhole == at = "ended" => stable \subseteq yielded

\* No Pokemon is listed twice, whatever the dex becomes between the pages.
NothingTwice == at = "yield" => page.items \cap yielded = {}

\* A walk comes to an end: "a server that repeats a cursor would spin forever".
WalkEnds == (at = "fetch") ~> (at \in Over)

=============================================================================
