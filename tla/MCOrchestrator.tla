--------------------------- MODULE MCOrchestrator ---------------------------
(* Small instances of Orchestrator for TLC. *)
EXTENDS Orchestrator, TLC

CONSTANTS a, b, p1, p2

\* Distinct bytes for every version of every item.
MCPayloads == Items \X Versions
MCBytes    == [i \in Items |-> [v \in Versions |-> <<i, v>>]]

DefaultPolicy == [on_new |-> "create", on_changed |-> "replace",
                  on_missing |-> "delete", on_duplicate_content |-> "skip"]
\* A page a that is mirrored in full, and its attachment b, never deleted.
MCPolicy      == [i \in Items |-> IF i = a
                                  THEN DefaultPolicy
                                  ELSE [DefaultPolicy EXCEPT !.on_missing = "ignore"]]
\* Items that are not revised, and whose duplicates are refused.
CreateOnly    == [i \in Items |-> [DefaultPolicy EXCEPT !.on_changed = "skip",
                                                       !.on_duplicate_content = "fail"]]

NoDependents  == [i \in Items |-> <<>>]
Attachment    == [i \in Items |-> IF i = a THEN <<b>> ELSE <<>>]

\* Two tasks: every handler for a, and calls about its dependent b.
OneEach       == (p1 :> {<<a, x>> : x \in Handlers})
                 @@ (p2 :> {<<b, "push_ref">>, <<b, "delete_by_ref">>})
Pushes        == [p \in Tasks |-> Items \X {"push_ref"}]
=============================================================================
