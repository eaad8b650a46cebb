SPECIFICATION Spec
CONSTANTS
    a = a
    b = b
    p1 = p1
    p2 = p2
    Items = {a, b}
    Libraries = {l1}
    DocIds = {d1, d2}
    NoDoc = NoDoc
    MaxVersion = 1
    Payloads <- MCPayloads
    NoPayload = NoPayload
    NoRow = NoRow
    Deletion = Deletion
    Forgotten = {"failed", "superseded", "canceled"}
    Tasks = {p1, p2}
    Handles <- OneEach
    Dependents <- Attachment
    Bytes <- MCBytes
    Policy <- MCPolicy
    Targets = {l1}
    Unrouted = Unrouted
    CanVanish = {a}
    CanReturn = {a}
    Removable = {d1}
    Seedable = {d1}
    MaxFaults = 1
INVARIANTS
    TypeOK
    CursorOwnsDocument
