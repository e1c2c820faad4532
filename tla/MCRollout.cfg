SPECIFICATION Spec
CONSTANTS
    a = a
    b = b
    job1 = job1
    job2 = job2
    last = last
    next = next
    tackle = tackle
    surf = surf
    cut = cut
    eevee = eevee
    mew = mew
    NoOne = NoOne
    Replica <- MCReplica
    Seeder <- MCSeeder
    Release <- MCRelease
    ReleaseOf <- MCReleaseOf
    Migrations <- MCMigrations
    Embedded <- MCEmbedded
    MaxCrashes = 2
    MaxSeeds = 3
INVARIANTS MigrationsRunOnce MovesetsAreWhole
PROPERTY EventuallyServes
CHECK_DEADLOCK FALSE
