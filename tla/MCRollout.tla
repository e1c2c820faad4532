------------------------------ MODULE MCRollout ------------------------------
EXTENDS Rollout, TLC

CONSTANTS a, b, job1, job2, last, next, tackle, surf, cut, eevee, mew

\* An old and a new replica, and a seed job of each release.
MCReplica == {a, b}
MCSeeder == {job1, job2}
MCRelease == {last, next}
MCReleaseOf == (a :> last @@ b :> next @@ job1 :> last @@ job2 :> next)
MCMigrations == (last :> 2 @@ next :> 3)

Links(fights, learns) == [kind : {"battle"}, move : fights]
                         \cup [kind : {"learnable"}, move : learns]

\* The new release drops cut, adds surf, lets eevee learn it and
\* adds mew, who fights with it.
MCEmbedded ==
    (last :> [moves |-> {tackle, cut},
              links |-> (eevee :> Links({tackle, cut}, {tackle, cut}))] @@
     next :> [moves |-> {tackle, surf},
              links |-> (eevee :> Links({tackle}, {tackle, surf}) @@
                         mew :> Links({surf}, {surf}))])
==============================================================================
