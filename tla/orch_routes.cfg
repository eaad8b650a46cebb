SPECIFICATION Spec
CONSTANTS
    a = a
    b = b
    p1 = p1
    p2 = p2
    Items = {a}
    Libraries = {l1, l2}
    DocIds = {d1, d2}
    NoDoc = NoDoc
    MaxVersion = 2
    Payloads <- MCPayloads
    NoPayload = NoPayload
    NoRow = NoRow
    Deletion = Deletion
    Forgotten = {"failed", "superseded", "canceled"}
    Tasks = {p1, p2}
    Handles <- Pushes
    Dependents <- NoDependents
    Bytes <- MCBytes
    Policy <- CreateOnly
    Targets = {l1, l2}
    Unrouted = Unrouted
    CanVanish = {}
    CanReturn = {}
    Removable = {}
    Seedable = {d1}
    MaxFaults = 0
INVARIANTS
    RowInLibrary
