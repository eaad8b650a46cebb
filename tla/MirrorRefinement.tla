-------------------------- MODULE MirrorRefinement --------------------------
(***************************************************************************)
(* SyncManager implements Mirror, where items do not return to the source, *)
(* nobody else deletes documents, bytes tell versions apart and all items  *)
(* go to one library.                                                      *)
(***************************************************************************)
EXTENDS SyncManager

\* The version of the oldest bytes an active document of i has.
Shown(i) ==
    LET held == {v \in Versions : \E l \in Libraries : \E d \in Matches(l, i) :
                     docs[d].content = Bytes[i][v]}
    IN  IF held = {} THEN 0 ELSE CHOOSE v \in held : \A w \in held : v <= w

\* The version the cursor has on record, if the document it names is there.
Claimed(i) == IF Has(i) /\ Active(cursor[i].doc) THEN cursor[i].token ELSE NoToken

M == INSTANCE Mirror WITH current <- version,
                          present <- live,
                          shown   <- [i \in Items |-> Shown(i)],
                          claimed <- [i \in Items |-> Claimed(i)]

\* Every step of the sweeps, the service and the faults is a step of Mirror or
\* changes nothing Mirror sees: no document goes back to an earlier version or
\* vanishes while the source has its item, and no row claims more than there is.
ImplementsMirror == M!Spec
=============================================================================
