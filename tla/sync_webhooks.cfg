SPECIFICATION WatchedSpec
CONSTANTS
    a = a
    b = b
    p1 = p1
    p2 = p2
    h = h
    r = r
    Items = {a}
    Libraries = {l1}
    DocIds = {d1, d2}
    NoDoc = NoDoc
    MaxVersion = 1
    Payloads <- MCPayloads
    NoPayload = NoPayload
    NoRow = NoRow
    Deletion = Deletion
    Forgotten = {"failed", "superseded", "canceled"}
    Tasks = {p1, h, r}
    Handles <- Anything
    Dependents <- NoDependents
    Bytes <- MCBytes
    Policy <- CreateOnly
    Targets = {l1, Unrouted}
    Unrouted = Unrouted
    CanVanish = {a}
    CanReturn = {a}
    Removable = {}
    Seedable = {d1}
    MaxFaults = 1
    Slots = {p1}
    Hooks = {h}
    Reaper = r
    Permits = 1
    Primary = {a}
INVARIANTS
    ReaperSparesLive
