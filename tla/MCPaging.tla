------------------------------- MODULE MCPaging -------------------------------
EXTENDS Paging

CONSTANT Ids

\* A dex that lists some of the ids, all of the type; or all of them, some of
\* another type.
MCDexes == {[id \in listed |-> TRUE] : listed \in SUBSET Ids}
           \cup [Ids -> BOOLEAN]
==============================================================================
