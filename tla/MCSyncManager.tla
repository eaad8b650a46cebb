--------------------------- MODULE MCSyncManager ----------------------------
(* Small instances of SyncManager for TLC. *)
EXTENDS MirrorRefinement, TLC

CONSTANTS a, b, p1, p2, h, r

\* Distinct bytes for every version of every item.
MCPayloads == Items \X Versions
MCBytes    == [i \in Items |-> [v \in Versions |-> <<i, v>>]]

DefaultPolicy == [on_new |-> "create", on_changed |-> "replace",
                  on_missing |-> "delete", on_duplicate_content |-> "skip"]
MCPolicy      == [i \in Items |-> DefaultPolicy]

\* Versions that appear once mirrored are not pushed.
CreateOnly    == [i \in Items |-> [DefaultPolicy EXCEPT !.on_changed = "skip"]]

NoDependents  == [i \in Items |-> <<>>]
Attachment    == [i \in Items |-> IF i = a THEN <<b>> ELSE <<>>]

\* Every worker may be called for every item.
Anything      == [p \in Tasks |-> Items \X Handlers]

\* The same, but that webhooks do no more than delete a.
HookDeletes   == [p \in Tasks |-> IF p \in Hooks THEN {<<a, "delete_by_ref">>}
                                                 ELSE Items \X Handlers]

\* One slot for each item: where no two calls are about one item, it makes no
\* difference which free slot a call takes.
OwnSlot       == [p \in Tasks |-> (Items \ (IF p = p1 THEN {b} ELSE IF p = p2 THEN {a} ELSE {}))
                                     \X Handlers]

\* The slots do not differ.
Alike         == Permutations({p1, p2})
=============================================================================
