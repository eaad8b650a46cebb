---------------------------- MODULE CursorStore ----------------------------
(***************************************************************************)
(* The persistent cursor of state.py: one SQLite row per source item, with *)
(* the change token last handled, the IronRAG document that holds the item *)
(* and the library that document lives in.  Every operation below is one   *)
(* SQL statement under the store's lock, so it is one atomic step.  A row's*)
(* external_key is a function of (kind, item_id) and last_pushed_at is     *)
(* never read back; neither is kept here.                                  *)
(***************************************************************************)
EXTENDS Identities

CONSTANT NoRow           \* the item has no row

VARIABLE cursor

Row == [token : Tokens, doc : DocIds \cup {NoDoc}, lib : Libraries]

ASSUME RowAssumption == NoRow \notin Row

CursorTypeOK == cursor \in [Items -> Row \cup {NoRow}]

CursorInit == cursor = [i \in Items |-> NoRow]

Has(i) == cursor[i] # NoRow

\* COALESCE(new, old): an upsert that carries no document id keeps the old one.
KeptDoc(i, d) == IF d = NoDoc /\ Has(i) THEN cursor[i].doc ELSE d

Upsert(i, t, d, l) ==
    cursor' = [cursor EXCEPT ![i] =
                  [token |-> t, doc |-> KeptDoc(i, d), lib |-> l]]

\* Mutant of Backfill: the row keeps the library it had.
BackfillDoc(i, d, l) ==
    cursor' = IF Has(i) THEN [cursor EXCEPT ![i].doc = d] ELSE cursor

\* An UPDATE, so nothing happens to an item that has no row; the token stays.
Backfill(i, d, l) ==
    cursor' = IF Has(i)
              THEN [cursor EXCEPT ![i].doc = d, ![i].lib = l]
              ELSE cursor

\* Mutant of Delete: the row is emptied, not removed.
EmptyRow(i) ==
    cursor' = [cursor EXCEPT ![i] = [token |-> NoToken, doc |-> NoDoc, lib |-> NoDoc]]

Delete(i) == cursor' = [cursor EXCEPT ![i] = NoRow]

\* Mutant of Restore: what was no row comes back as an empty one.
RestoreEmpty(i, row) ==
    IF row = NoRow THEN EmptyRow(i) ELSE cursor' = [cursor EXCEPT ![i] = row]

\* The row exactly as it was, or its removal when there was none.
Restore(i, row) == cursor' = [cursor EXCEPT ![i] = row]
=============================================================================
