SPECIFICATION FairRoutingSpec
CONSTANTS
    u1 = u1
    u2 = u2
    u3 = u3
    m1 = m1
    m2 = m2
    Broken = Broken
    Refs = {"docs", "docs-old"}
    LibraryIds = {u1, u2, u3}
    RefOf <- MCRefOf
    Hits <- MCHits
    Listed <- MCListed
    Limit = 2
    Clamp = 1
    HonoursOffset = TRUE
    MaxChanges = 3
    Files <- MCFiles
    Configs <- MCConfigs
    FirstFile <- Ruled
    Kinds = {"page", "image"}
    Facts = {m1, m2}
    Unset = Unset
    Defaults <- MCDefaults
    Callers = {"sweep", "webhook"}
    Nobody = Nobody
    MaxEdits = 3
    MaxFailures = 2
INVARIANTS
    RoutingTypeOK
    InvisibleIsHidden
    SnapshotIsWhole
PROPERTIES
    EditTakesEffect
CHECK_DEADLOCK FALSE
