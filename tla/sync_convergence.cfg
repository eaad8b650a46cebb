SPECIFICATION FairSyncSpec
CONSTANTS
    a = a
    b = b
    p1 = p1
    p2 = p2
    h = h
    r = r
    Items = {a, b}
    Libraries = {l1}
    DocIds = {d1, d2}
    NoDoc = NoDoc
    MaxVersion = 2
    Payloads <- MCPayloads
    NoPayload = NoPayload
    NoRow = NoRow
    Deletion = Deletion
    Forgotten = {"failed", "superseded", "canceled"}
    Tasks = {p1, p2, r}
    Handles <- OwnSlot
    Dependents <- NoDependents
    Bytes <- MCBytes
    Policy <- MCPolicy
    Targets = {l1}
    Unrouted = Unrouted
    CanVanish = {a}
    CanReturn = {}
    Removable = {}
    Seedable = {}
    MaxFaults = 1
    Slots = {p1, p2}
    Hooks = {}
    Reaper = r
    Permits = 2
    Primary = {a, b}
PROPERTIES
    Convergence
    ImplementsMirror
