----------------------------- MODULE Identities -----------------------------
(***************************************************************************)
(* The names the connector's components share: source items, IronRAG       *)
(* libraries and documents, and the versions and bytes of an item.         *)
(***************************************************************************)
EXTENDS Naturals

CONSTANTS
    Items,          \* (kind, item_id) pairs; an item is its own external key
    Libraries,      \* IronRAG libraries
    DocIds,         \* document ids the service may hand out: a bound on creates
    NoDoc,
    MaxVersion,     \* bound on the versions an item goes through
    Payloads,       \* the bytes of items, told apart only by equality
    NoPayload

ASSUME ItemsAssumption   == Items # {}
ASSUME VersionAssumption == MaxVersion \in Nat \ {0}
ASSUME NoPayloadAssumption == NoPayload \notin Payloads
ASSUME NoDocAssumption   == NoDoc \notin DocIds \cup Items \cup Libraries

Versions == 1 .. MaxVersion

\* The token of version v is v: it advances exactly when the content may have.
NoToken == 0
Tokens  == Versions \cup {NoToken}
=============================================================================
