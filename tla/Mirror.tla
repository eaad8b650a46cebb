------------------------------- MODULE Mirror -------------------------------
(***************************************************************************)
(* What the connector promises, without saying how: each source item has a *)
(* copy in IronRAG at some version, and a claim - what the connector has on *)
(* record about that copy.  The copy follows the source, never back to an  *)
(* earlier version; a claim never runs ahead of the copy; and a copy goes  *)
(* only when its item has left the source.                                 *)
(***************************************************************************)
EXTENDS Naturals

CONSTANTS Items, MaxVersion

VARIABLES
    current, present,   \* the source: each item's version, and whether it is there
    shown,              \* the version of the item's copy; 0 when it has none
    claimed             \* the version on record as mirrored; 0 when none is

vars == <<current, present, shown, claimed>>

Init == /\ current = [i \in Items |-> 1]
        /\ present = [i \in Items |-> TRUE]
        /\ shown = [i \in Items |-> 0]
        /\ claimed = [i \in Items |-> 0]

Edit(i) == /\ present[i]
           /\ current[i] < MaxVersion
           /\ current' = [current EXCEPT ![i] = @ + 1]
           /\ UNCHANGED <<present, shown, claimed>>

Leave(i) == /\ present[i]
            /\ present' = [present EXCEPT ![i] = FALSE]
            /\ UNCHANGED <<current, shown, claimed>>

\* The copy is made, or brought up to a later version: perhaps of an item that
\* has left since it was read.
Publish(i) == /\ \E v \in shown[i] + 1 .. current[i] : shown' = [shown EXCEPT ![i] = v]
              /\ UNCHANGED <<current, present, claimed>>

\* A claim may be lowered: an old reference is pushed again, a row is restored.
Claim(i) == /\ \E v \in 0 .. shown[i] : claimed' = [claimed EXCEPT ![i] = v]
            /\ UNCHANGED <<current, present, shown>>

Withdraw(i) == /\ ~present[i]
               /\ shown' = [shown EXCEPT ![i] = 0]
               /\ claimed' = [claimed EXCEPT ![i] = 0]
               /\ UNCHANGED <<current, present>>

Next == \E i \in Items : Edit(i) \/ Leave(i) \/ Publish(i) \/ Claim(i) \/ Withdraw(i)

Spec == Init /\ [][Next]_vars
=============================================================================
