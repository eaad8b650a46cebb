------------------------------ MODULE IronRag ------------------------------
(***************************************************************************)
(* The IronRAG service as the connector's client sees it: documents, and   *)
(* the asynchronous operations that revise or delete them.  The service is *)
(* not part of this repository; what is here is what ironrag.py and        *)
(* orchestrator.py rely on.                                                *)
(*                                                                         *)
(*  - create is synchronous; an active document of the library with the    *)
(*    same external key, or with the same bytes, makes it a typed 409 that *)
(*    may name the existing document;                                      *)
(*  - a revision or a delete is admitted as an operation, applied later;   *)
(*    an idempotency key the service still remembers for the document gets *)
(*    the operation it named before;                                       *)
(*  - a mutation that meets another in flight is refused with a 409, or    *)
(*    supersedes it.                                                       *)
(***************************************************************************)
EXTENDS Identities

CONSTANTS
    Deletion,       \* stands for the fresh (uuid4) key of a delete request
    Forgotten       \* terminal statuses after which a key may be used afresh

VARIABLES docs, op

RevisionKeys == Items \X Payloads
OpKeys       == RevisionKeys \cup {Deletion}

Terminal == {"ready", "failed", "superseded", "canceled"}
Status   == Terminal \cup {"none", "processing"}

ASSUME ForgottenAssumption == Forgotten \subseteq Terminal
ASSUME DeletionAssumption  == Deletion \notin RevisionKeys

Document == [state   : {"free", "active", "deleted"},
             lib     : Libraries \cup {NoDoc},
             key     : Items \cup {NoDoc},
             content : Payloads \cup {NoPayload}]

FreeDoc == [state |-> "free", lib |-> NoDoc, key |-> NoDoc, content |-> NoPayload]

IronRagTypeOK == /\ docs \in [DocIds -> Document]
                 /\ op \in [DocIds -> [OpKeys -> Status]]

IronRagInit == /\ docs = [d \in DocIds |-> FreeDoc]
               /\ op = [d \in DocIds |-> [k \in OpKeys |-> "none"]]

Active(d) == d \in DocIds /\ docs[d].state = "active"
Free      == {d \in DocIds : docs[d].state = "free"}

Matches(l, i)       == {d \in DocIds : Active(d) /\ docs[d].lib = l /\ docs[d].key = i}
Duplicates(l, i, c) == {d \in DocIds : /\ Active(d)
                                       /\ docs[d].lib = l
                                       /\ docs[d].key = i \/ docs[d].content = c}

InFlight(d) == {k \in OpKeys : op[d][k] = "processing"}

\* The service still answers a request under key k with its old operation; a
\* delete request comes under a key of its own each time.
Remembers(d, k) == k # Deletion /\ op[d][k] \notin {"none"} \cup Forgotten

\* POST .../documents: 201.
AddDocument(l, i, c, d) ==
    /\ Duplicates(l, i, c) = {}
    /\ Free # {}
    /\ d = CHOOSE x \in Free : TRUE
    /\ docs' = [docs EXCEPT ![d] =
                   [state |-> "active", lib |-> l, key |-> i, content |-> c]]
    /\ UNCHANGED op

\* POST .../documents: 409 duplicate_content, existingDocumentId optional.
RefuseDuplicate(l, i, c, d) ==
    /\ Duplicates(l, i, c) # {}
    /\ d \in Duplicates(l, i, c) \cup {NoDoc}
    /\ UNCHANGED <<docs, op>>

\* A mutation of a document that is not there: 404.
RefuseGone(d) == ~Active(d) /\ UNCHANGED <<docs, op>>

\* A mutation of a document with another one in flight: 409.
RefuseBusy(d, k) ==
    /\ Active(d)
    /\ ~Remembers(d, k)
    /\ InFlight(d) # {}
    /\ UNCHANGED <<docs, op>>

\* A repeat of a remembered key: the earlier operation, no second mutation.
Dedupe(d, k) == Active(d) /\ Remembers(d, k) /\ UNCHANGED <<docs, op>>

\* A new operation; revisions still in flight are superseded by it.
Admit(d, k) ==
    /\ Active(d)
    /\ ~Remembers(d, k)
    /\ op[d][Deletion] # "processing"
    /\ op' = [op EXCEPT ![d] = [x \in OpKeys |->
                  IF x = k THEN "processing"
                  ELSE IF op[d][x] = "processing" THEN "superseded" ELSE op[d][x]]]
    /\ UNCHANGED docs

\* What is left of a document that is gone: its operations end unapplied.
Bury(d) == docs' = [docs EXCEPT ![d].state = "deleted", ![d].content = NoPayload]

Ended(d, k, s) == [x \in OpKeys |->
                      IF x = k THEN s
                      ELSE IF op[d][x] = "processing" THEN "canceled" ELSE op[d][x]]

\* An operation in flight is applied.
Apply(d, k) ==
    /\ op[d][k] = "processing"
    /\ IF k = Deletion
       THEN /\ Bury(d)
            /\ op' = [op EXCEPT ![d] = Ended(d, k, "ready")]
       ELSE /\ docs' = [docs EXCEPT ![d].content = k[2]]
            /\ op' = [op EXCEPT ![d][k] = "ready"]

\* An operation in flight ends without effect.
Abandon(d, k, s) ==
    /\ op[d][k] = "processing"
    /\ s \in {"failed", "canceled"}
    /\ op' = [op EXCEPT ![d][k] = s]
    /\ UNCHANGED docs

\* Somebody deletes the document on the server (library reset, operator).
RemoveByHand(d) ==
    /\ Active(d)
    /\ Bury(d)
    /\ op' = [op EXCEPT ![d] = Ended(d, Deletion, op[d][Deletion])]
=============================================================================
