---------------------------- MODULE OwnershipProofs ----------------------------
(***************************************************************************)
(* CursorOwnsDocument, for every value of Orchestrator's constants with    *)
(* DistinctPayloads.                                                       *)
(*                                                                         *)
(* The invariant follows a document id through every place that holds one: *)
(* the cursor, the sweep cache, a task, the row a task may restore.  A     *)
(* duplicate_content refusal names a document by its bytes, so it also     *)
(* says whose bytes documents, operations in flight and items to push hold.*)
(*                                                                         *)
(* Then RowInLibrary, for every value of the constants: the same places,   *)
(* followed for the library a document is in.                              *)
(***************************************************************************)
EXTENDS OrchestratorProofs

BytesOf(i) == {Bytes[i][v] : v \in Versions}

\* Among documents D, d was created under i's key.
Mine(D, i, d) == d \in DocIds => D[d].key = i

Holds(D, t) ==
    /\ Mine(D, Subject(t), t.doc)
    /\ Mine(D, Subject(t), t.got)
    /\ t.before # NoRow => Mine(D, t.ref, t.before.doc)
    /\ \A k \in 1 .. Len(t.todo) : t.todo[k].payload \in BytesOf(t.todo[k].item)
    /\ t.pc \in {"lookup", "dlookup", "delete", "dpoll"} => t.todo = <<>>
    /\ t.pc = "fetch" => t.doc = NoDoc /\ t.got = NoDoc

CursorOwned == \A i \in Items : Has(i) => Mine(docs, i, cursor[i].doc)
PushedOwned == \A l \in Libraries, i \in Items : Mine(docs, i, pushed[<<l, i>>])
TasksOwned  == \A p \in Tasks : Holds(docs, task[p])

\* What a step of a coroutine changes.
LocalOwned  == CursorOwned /\ PushedOwned /\ TasksOwned

DocsOwned ==
    \A d \in DocIds :
        /\ docs[d].state = "free" => docs[d].key = NoDoc
        /\ docs[d].content # NoPayload =>
              docs[d].key \in Items /\ docs[d].content \in BytesOf(docs[d].key)

OpsOwned ==
    \A d \in DocIds, k \in RevisionKeys :
        op[d][k] # "none" => docs[d].key \in Items /\ k[2] \in BytesOf(docs[d].key)

OwnInv == LocalOwned /\ DocsOwned /\ OpsOwned

\* A document keeps the key it has.
KeysKept == \A d \in DocIds : docs[d].key # NoDoc => docs'[d].key = docs[d].key

-----------------------------------------------------------------------------
(* Tasks.                                                                  *)

LEMMA NothingIsMine ==
    ASSUME NEW D, NEW i
    PROVE  Mine(D, i, NoDoc) /\ Mine(D, i, NotPushed)
  BY NoDocAssumption, NotPushedAssumption DEF Mine

LEMMA MineKept ==
    ASSUME KeysKept, NEW i \in Items, NEW d, Mine(docs, i, d)
    PROVE  Mine(docs', i, d)
  BY NoDocAssumption DEF KeysKept, Mine

LEMMA HoldsKept ==
    ASSUME KeysKept, NEW t \in Task, Holds(docs, t)
    PROVE  Holds(docs', t)
<1>1. Subject(t) \in Items /\ t.ref \in Items
  BY SubjectType DEF Task
<1>2. /\ Mine(docs', Subject(t), t.doc)
      /\ Mine(docs', Subject(t), t.got)
      /\ t.before # NoRow => Mine(docs', t.ref, t.before.doc)
  BY <1>1, MineKept DEF Holds
<1>3. QED
  BY <1>2 DEF Holds

\* A task that holds nothing.
LEMMA EmptyHolds ==
    ASSUME NEW D, NEW t \in Task, t.todo = <<>>, t.doc = NoDoc, t.got = NoDoc,
           t.before = NoRow
    PROVE  Holds(D, t)
<1>1. \A k \in 1 .. Len(t.todo) : t.todo[k].payload \in BytesOf(t.todo[k].item)
  BY EmptySeq, LenProperties
<1>2. QED
  BY <1>1, NothingIsMine DEF Holds

LEMMA OutcomeHolds ==
    ASSUME NEW D, NEW t \in Task, NEW a \in Actions, NEW b \in BOOLEAN
    PROVE  Holds(D, Outcome(t, a, b)) /\ Outcome(t, a, b) \in Task
<1>1. /\ Outcome(t, a, b) \in Task
      /\ Outcome(t, a, b).todo = <<>>
      /\ Outcome(t, a, b).doc = NoDoc
      /\ Outcome(t, a, b).got = NoDoc
      /\ Outcome(t, a, b).before = NoRow
  BY OutcomeType, Zenon
<1>2. QED
  BY <1>1, EmptyHolds

LEMMA AskHolds ==
    ASSUME NEW D, NEW t \in Task, Holds(D, t), NEW pc \in PC,
           NEW d \in DocIds \cup {NoDoc}, Mine(D, Subject(t), d),
           pc \in {"lookup", "dlookup", "delete", "dpoll"} => t.todo = <<>>,
           pc = "fetch" => d = NoDoc
    PROVE  Holds(D, Ask(t, pc, d)) /\ Ask(t, pc, d) \in Task
<1> DEFINE u == Ask(t, pc, d)
<1>1. /\ u \in Task /\ u.pc = pc /\ u.ref = t.ref /\ u.todo = t.todo
      /\ u.before = t.before /\ u.doc = d /\ u.got = NoDoc
  BY AskType
<1> HIDE DEF u
<1>2. Subject(u) = Subject(t)
  BY <1>1 DEF Subject
<1>3. Holds(D, u)
  BY <1>1, <1>2, NothingIsMine DEF Holds
<1>4. QED
  BY <1>1, <1>3 DEF u

LEMMA NextItemHolds ==
    ASSUME NEW D, SourceOK, NEW t \in Task, Holds(D, t), Pushing(t), NEW a \in Actions
    PROVE  Holds(D, NextItem(t, a)) /\ NextItem(t, a) \in Task
<1> DEFINE n == NextItem(t, a)
<1>1. /\ n \in Task /\ n.todo = Tail(t.todo) /\ n.ref = t.ref /\ n.doc = NoDoc
      /\ n.got = NoDoc /\ n.before \in {NoRow, t.before} /\ n.pc \in {"item", "done"}
  BY NextItemType DEF Pushing
<1>2. t.todo \in Seq(SourceItem) /\ t.todo # <<>>
  BY DEF Task, Pushing
<1>3. /\ Len(t.todo) \in Nat
      /\ Len(Tail(t.todo)) = Len(t.todo) - 1
      /\ \A k \in 1 .. Len(Tail(t.todo)) : Tail(t.todo)[k] = t.todo[k + 1]
  BY <1>2, HeadTailProperties, LenProperties
<1>4. \A k \in 1 .. Len(Tail(t.todo)) :
         Tail(t.todo)[k].payload \in BytesOf(Tail(t.todo)[k].item)
  BY <1>3 DEF Holds
<1> HIDE DEF n
<1>5. Holds(D, n)
  BY <1>1, <1>4, NothingIsMine DEF Holds
<1>6. QED
  BY <1>1, <1>5 DEF n

LEMMA ReplyHolds ==
    ASSUME NEW D, NEW t \in Task, Holds(D, t), NEW a \in Answers,
           NEW d \in DocIds \cup {NoDoc}, Mine(D, Subject(t), d),
           t.pc = "fetch" => d = NoDoc
    PROVE  LET u == [t EXCEPT !.answer = a, !.got = d] IN Holds(D, u) /\ u \in Task
<1> DEFINE u == [t EXCEPT !.answer = a, !.got = d]
<1>1. u \in Task
  BY DEF Task
<1>2. /\ u.pc = t.pc /\ u.ref = t.ref /\ u.todo = t.todo /\ u.before = t.before
      /\ u.doc = t.doc /\ u.got = d
  BY DEF Task
<1> HIDE DEF u
<1>3. Subject(u) = Subject(t)
  BY <1>2 DEF Subject
<1>4. Holds(D, u)
  BY <1>2, <1>3 DEF Holds
<1>5. QED
  BY <1>1, <1>4 DEF u

\* One task becomes t; documents may be created, but keep their keys.
LEMMA BecomeHolds ==
    ASSUME TasksOK, TasksOwned, KeysKept, NEW p \in Tasks, NEW t \in Task,
           Holds(docs', t), Become(p, t)
    PROVE  TasksOwned'
<1>1. task' = [task EXCEPT ![p] = t]
  BY DEF Become
<1>2. ASSUME NEW q \in Tasks
      PROVE  Holds(docs', task'[q])
  <2>1. CASE q = p
    <3>1. task'[q] = t
      BY <1>1, <2>1 DEF TasksOK
    <3>2. QED
      BY <3>1
  <2>2. CASE q # p
    <3>1. task'[q] = task[q]
      BY <1>1, <2>2 DEF TasksOK
    <3>2. task[q] \in Task /\ Holds(docs, task[q])
      BY DEF TasksOK, TasksOwned
    <3>3. QED
      BY <3>1, <3>2, HoldsKept
  <2>3. QED
    BY <2>1, <2>2
<1>3. QED
  BY <1>2 DEF TasksOwned, Holds, Mine

-----------------------------------------------------------------------------
(* The steps that handlers share.                                          *)

LEMMA UpsertOwned ==
    ASSUME CursorTypeOK, CursorOwned, UNCHANGED docs, NEW i \in Items,
           NEW t \in Tokens, NEW d \in DocIds \cup {NoDoc}, Mine(docs, i, d),
           NEW l \in Libraries, Upsert(i, t, d, l)
    PROVE  CursorOwned'
<1>1. Mine(docs, i, KeptDoc(i, d))
  BY DEF KeptDoc, CursorOwned
<1> DEFINE row == [token |-> t, doc |-> KeptDoc(i, d), lib |-> l]
<1>2. cursor' = [cursor EXCEPT ![i] = row] /\ row.doc = KeptDoc(i, d)
  BY DEF Upsert
<1> HIDE DEF row
<1>3. \A j \in Items : cursor'[j] = IF j = i THEN row ELSE cursor[j]
  BY <1>2 DEF CursorTypeOK
<1>4. QED
  BY <1>1, <1>2, <1>3 DEF CursorOwned, Has, Mine

LEMMA BackfillOwned ==
    ASSUME CursorTypeOK, CursorOwned, UNCHANGED docs, NEW i \in Items,
           NEW d \in DocIds \cup {NoDoc}, Mine(docs, i, d),
           NEW l \in Libraries, Backfill(i, d, l)
    PROVE  CursorOwned'
<1>1. CASE Has(i)
  <2> DEFINE row == [cursor[i] EXCEPT !.doc = d, !.lib = l]
  <2>1. row.doc = d
    BY <1>1 DEF Has, CursorTypeOK, Row
  <2>2. cursor' = [cursor EXCEPT ![i] = row]
    BY <1>1 DEF Backfill, CursorTypeOK
  <2> HIDE DEF row
  <2>3. \A j \in Items : cursor'[j] = IF j = i THEN row ELSE cursor[j]
    BY <2>2 DEF CursorTypeOK
  <2>4. QED
    BY <2>1, <2>3 DEF CursorOwned, Has, Mine
<1>2. CASE ~Has(i)
  BY <1>2 DEF Backfill, CursorOwned, Has, Mine
<1>3. QED
  BY <1>1, <1>2

LEMMA RestoreOwned ==
    ASSUME CursorTypeOK, CursorOwned, UNCHANGED docs, NEW i \in Items, NEW row,
           row # NoRow => Mine(docs, i, row.doc),
           Restore(i, row) \/ (Delete(i) /\ row = NoRow)
    PROVE  CursorOwned'
<1>1. \A j \in Items : cursor'[j] = IF j = i THEN row ELSE cursor[j]
  BY DEF CursorTypeOK, Restore, Delete
<1>2. QED
  BY <1>1 DEF CursorOwned, Has, Mine

LEMMA RememberOwned ==
    ASSUME PushedOK, PushedOwned, UNCHANGED docs, NEW p \in Tasks,
           NEW d \in DocIds \cup {NoDoc}, Mine(docs, Subject(task[p]), d), Remember(p, d)
    PROVE  PushedOwned'
<1> DEFINE k == <<task[p].lib, Subject(task[p])>>
<1>1. pushed' = [pushed EXCEPT ![k] = d]
  BY DEF Remember
<1>2. ASSUME NEW l \in Libraries, NEW i \in Items
      PROVE  Mine(docs, i, pushed'[<<l, i>>])
  <2>1. CASE <<l, i>> = k
    <3>1. pushed'[<<l, i>>] = d /\ i = Subject(task[p])
      BY <1>1, <2>1 DEF PushedOK
    <3>2. QED
      BY <3>1
  <2>2. CASE <<l, i>> # k
    <3>1. pushed'[<<l, i>>] = pushed[<<l, i>>]
      BY <1>1, <2>2 DEF PushedOK
    <3>2. QED
      BY <3>1 DEF PushedOwned
  <2>3. QED
    BY <2>1, <2>2
<1>3. QED
  BY <1>2 DEF PushedOwned, Mine

\* What the two invariants say of one task.
LEMMA TaskOwned ==
    ASSUME TypeInv, OwnInv, NEW p \in Tasks
    PROVE  /\ TasksOK /\ CursorTypeOK /\ PushedOK /\ SourceOK
           /\ CursorOwned /\ PushedOwned /\ TasksOwned
           /\ task[p] \in Task /\ Holds(docs, task[p])
           /\ task[p].ref \in Items /\ Subject(task[p]) \in Items
           /\ task[p].doc \in DocIds \cup {NoDoc}
           /\ task[p].got \in DocIds \cup {NoDoc}
           /\ Mine(docs, Subject(task[p]), task[p].doc)
           /\ Mine(docs, Subject(task[p]), task[p].got)
           /\ task[p].pc \in {"item", "find", "create", "revise", "poll"}
                 => Pushing(task[p])
           /\ task[p].pc \notin {"idle", "done"}
                 => task[p].home \in Libraries /\ task[p].lib \in Libraries
           /\ task[p].pc \in {"lookup", "dlookup", "delete", "dpoll"}
                 => task[p].todo = <<>> /\ Subject(task[p]) = task[p].ref
<1>1. CursorOwned /\ PushedOwned /\ TasksOwned /\ Holds(docs, task[p])
  BY DEF OwnInv, LocalOwned, TasksOwned
<1>2. task[p] \in Task
  BY TaskFacts
<1>3. Subject(task[p]) \in Items
  BY <1>2, SubjectType
<1>4. QED
  BY <1>1, <1>2, <1>3, TaskFacts DEF Holds, Subject

LEMMA UnchangedKeeps ==
    ASSUME UNCHANGED docs
    PROVE  KeysKept
  BY DEF KeysKept

\* A coroutine's step leaves the service alone.
LEMMA LocalKeeps ==
    ASSUME OwnInv, LocalOwned', UNCHANGED ragVars
    PROVE  OwnInv'
  BY DEF OwnInv, DocsOwned, OpsOwned, ragVars

\* A task takes a value that holds only what is its own.
LEMMA TaskStep ==
    ASSUME TypeInv, OwnInv, UNCHANGED ragVars, NEW p \in Tasks, NEW t \in Task,
           Holds(docs, t), Become(p, t)
    PROVE  TasksOwned'
<1>1. docs' = docs
  BY DEF ragVars
<1>2. Holds(docs', t)
  BY <1>1
<1>3. QED
  BY <1>1, <1>2, TaskOwned, UnchangedKeeps, BecomeHolds

LEMMA QuietKeeps ==
    ASSUME TypeInv, OwnInv, TasksOwned', UNCHANGED <<cursor, pushed>>, UNCHANGED ragVars
    PROVE  OwnInv'
<1>1. LocalOwned'
  BY DEF OwnInv, LocalOwned, CursorOwned, PushedOwned, Has, Mine, ragVars
<1>2. QED
  BY <1>1, LocalKeeps

LEMMA EndOwned ==
    ASSUME TypeInv, OwnInv, UNCHANGED ragVars, NEW p \in Tasks, NEW t \in Task,
           NEW a \in Actions, NEW b \in BOOLEAN, Become(p, Outcome(t, a, b))
    PROVE  TasksOwned'
<1>1. Holds(docs, Outcome(t, a, b)) /\ Outcome(t, a, b) \in Task
  BY OutcomeHolds, Zenon
<1>2. QED
  BY <1>1, TaskStep

LEMMA AskOwned ==
    ASSUME TypeInv, OwnInv, UNCHANGED ragVars, NEW p \in Tasks,
           NEW t \in Task, Holds(docs, t), NEW pc \in PC,
           NEW d \in DocIds \cup {NoDoc}, Mine(docs, Subject(t), d),
           pc \in {"lookup", "dlookup", "delete", "dpoll"} => t.todo = <<>>,
           pc = "fetch" => d = NoDoc,
           Become(p, Ask(t, pc, d))
    PROVE  TasksOwned'
<1>1. Holds(docs, Ask(t, pc, d)) /\ Ask(t, pc, d) \in Task
  BY AskHolds
<1>2. QED
  BY <1>1, TaskStep

LEMMA NextOwned ==
    ASSUME TypeInv, OwnInv, UNCHANGED ragVars, NEW p \in Tasks, Pushing(task[p]),
           NEW a \in Actions, Become(p, NextItem(task[p], a))
    PROVE  TasksOwned'
<1>1. Holds(docs, NextItem(task[p], a)) /\ NextItem(task[p], a) \in Task
  BY TaskOwned, NextItemHolds
<1>2. QED
  BY <1>1, TaskStep

LEMMA HandledOwned ==
    ASSUME TypeInv, OwnInv, UNCHANGED ragVars, NEW p \in Tasks, Pushing(task[p]),
           NEW d \in DocIds \cup {NoDoc}, Mine(docs, Subject(task[p]), d),
           NEW a \in Actions, Handled(p, d, a)
    PROVE  LocalOwned'
<1> DEFINE t == task[p]
<1>1. /\ t \in Task /\ CursorTypeOK /\ PushedOK /\ CursorOwned /\ PushedOwned
      /\ Subject(t) \in Items /\ UNCHANGED docs
  BY TaskOwned DEF ragVars
<1>2. Head(t.todo).token \in Tokens
  BY <1>1, SubjectType DEF Pushing, SourceItem
<1>3. CursorOwned'
  BY <1>1, <1>2, UpsertOwned DEF Handled, Pushing
<1>4. PushedOwned'
  BY <1>1, RememberOwned DEF Handled
<1>5. TasksOwned'
  BY NextOwned DEF Handled
<1>6. QED
  BY <1>3, <1>4, <1>5 DEF LocalOwned

LEMMA DeferOwned ==
    ASSUME TypeInv, OwnInv, UNCHANGED ragVars, NEW p \in Tasks, Defer(p)
    PROVE  LocalOwned'
<1> DEFINE t == task[p]
<1>1. /\ t \in Task /\ CursorTypeOK /\ PushedOK /\ CursorOwned /\ PushedOwned
      /\ t.ref \in Items /\ t.action \in Actions /\ UNCHANGED docs
      /\ t.before # NoRow => Mine(docs, t.ref, t.before.doc)
      /\ t.doc \in DocIds \cup {NoDoc} /\ Mine(docs, Subject(t), t.doc)
  BY TaskOwned DEF ragVars, Holds, Task
<1>2. PushedOwned'
  BY <1>1, RememberOwned DEF Defer
<1>3. CursorOwned'
  <2>1. CASE UNCHANGED cursor
    BY <1>1, <2>1 DEF CursorOwned, Has, Mine
  <2>2. CASE Restore(t.ref, t.before)
    BY <1>1, <2>2, RestoreOwned
  <2>3. QED
    BY <2>1, <2>2 DEF Defer
<1>4. \E a \in Actions : Become(p, Outcome(t, a, TRUE))
  BY <1>1 DEF Defer, Actions
<1>5. TRUE \in BOOLEAN
  OBVIOUS
<1>6. TasksOwned'
  <2>1. PICK a \in Actions : Become(p, Outcome(t, a, TRUE))
    BY <1>4
  <2>2. Holds(docs, Outcome(t, a, TRUE)) /\ Outcome(t, a, TRUE) \in Task
    BY <1>1, <1>5, OutcomeHolds, Zenon
  <2>3. QED
    BY <2>1, <2>2, TaskStep
<1>7. QED
  BY <1>2, <1>3, <1>6 DEF LocalOwned

\* A call that ends without touching the cursor or the cache.
LEMMA QuietEnd ==
    ASSUME TypeInv, OwnInv, UNCHANGED ragVars, NEW p \in Tasks, NEW t \in Task,
           NEW a \in Actions, Become(p, Outcome(t, a, FALSE)),
           UNCHANGED <<cursor, pushed>>
    PROVE  OwnInv'
<1>1. Holds(docs, Outcome(t, a, FALSE)) /\ Outcome(t, a, FALSE) \in Task
  BY OutcomeHolds, Zenon
<1>2. TasksOwned'
  BY <1>1, TaskStep
<1>3. QED
  BY <1>2, QuietKeeps

LEMMA RaiseOwned ==
    ASSUME TypeInv, OwnInv, UNCHANGED ragVars, NEW p \in Tasks, Raise(p)
    PROVE  OwnInv'
  BY TaskOwned, QuietEnd DEF Raise, Actions

-----------------------------------------------------------------------------
(* push_ref.                                                               *)

LEMMA PushRefOwned ==
    ASSUME TypeInv, OwnInv, NEW p \in Tasks, NEW i \in Items, NEW tok \in Tokens,
           PushRef(p, i, tok)
    PROVE  OwnInv'
<1> DEFINE t == Routed(i, tok)
<1>1. UNCHANGED ragVars /\ UNCHANGED <<cursor, pushed>>
  BY DEF PushRef, Starts, ragVars
<1>2. /\ t \in Task /\ t.todo = <<>> /\ t.doc = NoDoc /\ t.got = NoDoc
      /\ t.before = NoRow
  BY TaskOwned, RoutedType
<1>3. \/ Become(p, Outcome(t, "unrouted", FALSE))
      \/ Become(p, Outcome(t, "noop_unchanged", FALSE))
      \/ Become(p, Ask(t, "lookup", NoDoc))
      \/ Become(p, Ask(t, "fetch", NoDoc))
  BY DEF PushRef
<1> HIDE DEF t
<1>4. Holds(docs, t)
  BY <1>2, EmptyHolds
<1>5. ASSUME NEW a \in Actions, Become(p, Outcome(t, a, FALSE))
      PROVE  OwnInv'
  BY <1>1, <1>2, <1>5, QuietEnd
<1>6. ASSUME NEW pc \in {"lookup", "fetch"}, Become(p, Ask(t, pc, NoDoc))
      PROVE  OwnInv'
  <2>1. TasksOwned'
    BY <1>1, <1>2, <1>4, <1>6, AskOwned, NothingIsMine DEF PC, Await
  <2>2. QED
    BY <1>1, <2>1, QuietKeeps
<1>7. QED
  BY <1>3, <1>5, <1>6 DEF Actions

\* A document the service answers a lookup with was created under the key asked for.
LEMMA ServeFindOwned ==
    ASSUME TypeInv, OwnInv, NEW p \in Tasks, ServeFind(p)
    PROVE  OwnInv'
<1> DEFINE t == task[p]
<1>1. UNCHANGED ragVars /\ UNCHANGED <<cursor, pushed>> /\ t.pc # "fetch"
  BY DEF ServeFind, Waits, ragVars
<1>2. t \in Task /\ Holds(docs, t)
  BY TaskOwned
<1>3. \E a \in Answers, d \in DocIds \cup {NoDoc} :
         /\ Mine(docs, Subject(t), d)
         /\ Become(p, [t EXCEPT !.answer = a, !.got = d])
  <2>1. CASE \E d \in Matches(t.lib, Subject(t)) : Reply(p, "found", d)
    <3>1. PICK d \in Matches(t.lib, Subject(t)) : Reply(p, "found", d)
      BY <2>1
    <3>2. d \in DocIds /\ Mine(docs, Subject(t), d)
      BY DEF Matches, Mine
    <3>3. Become(p, [t EXCEPT !.answer = "found", !.got = d])
      BY <3>1 DEF Reply, Become
    <3>4. QED
      BY <3>2, <3>3 DEF Answers
  <2>2. CASE Reply(p, "absent", NoDoc)
    BY <2>2, NothingIsMine DEF Reply, Become, Answers
  <2>3. QED
    BY <2>1, <2>2 DEF ServeFind
<1>4. PICK a \in Answers, d \in DocIds \cup {NoDoc} :
         /\ Mine(docs, Subject(t), d)
         /\ Become(p, [t EXCEPT !.answer = a, !.got = d])
  BY <1>3
<1> DEFINE u == [t EXCEPT !.answer = a, !.got = d]
<1>5. Holds(docs, u) /\ u \in Task
  BY <1>1, <1>2, <1>4, ReplyHolds
<1> HIDE DEF u
<1>6. TasksOwned'
  BY <1>1, <1>4, <1>5, TaskStep DEF u
<1>7. QED
  BY <1>1, <1>6, QuietKeeps

LEMMA ResumeLookupOwned ==
    ASSUME TypeInv, OwnInv, NEW p \in Tasks, ResumeLookup(p)
    PROVE  OwnInv'
<1> DEFINE t == task[p]
<1>1. /\ t \in Task /\ CursorTypeOK /\ CursorOwned /\ PushedOwned
      /\ t.ref \in Items /\ t.got \in DocIds \cup {NoDoc} /\ t.home \in Libraries
      /\ Mine(docs, t.ref, t.got) /\ t.todo = <<>> /\ Holds(docs, t)
  BY TaskOwned DEF ResumeLookup, Resumes
<1>2. UNCHANGED ragVars /\ UNCHANGED docs
  BY DEF ResumeLookup, Resumes, ragVars
<1>3. CASE Resumes(p, "lookup", "found")
  <2>1. /\ Backfill(t.ref, t.got, t.home) /\ UNCHANGED pushed
        /\ Become(p, Outcome(t, "noop_unchanged", FALSE))
    BY <1>3 DEF ResumeLookup, Resumes
  <2>2. CursorOwned'
    BY <1>1, <1>2, <2>1, BackfillOwned
  <2>3. PushedOwned'
    BY <1>1, <1>2, <2>1 DEF PushedOwned, Mine
  <2>4. FALSE \in BOOLEAN /\ "noop_unchanged" \in Actions
    BY DEF Actions
  <2>5. TasksOwned'
    BY <1>1, <1>2, <2>1, <2>4, EndOwned, Zenon
  <2>6. QED
    BY <1>2, <2>2, <2>3, <2>5, LocalKeeps DEF LocalOwned
<1>4. CASE Resumes(p, "lookup", "absent")
  <2>1. /\ Become(p, Ask(t, "fetch", NoDoc))
        /\ UNCHANGED <<cursor, pushed>>
    BY <1>4 DEF ResumeLookup, Resumes
  <2>2. TasksOwned'
    BY <1>1, <1>2, <2>1, AskOwned, NothingIsMine DEF PC, Await
  <2>3. QED
    BY <1>2, <2>1, <2>2, QuietKeeps
<1>5. QED
  BY <1>3, <1>4 DEF ResumeLookup

\* fetch hands out every item with bytes of its own.
LEMMA ServeFetchOwned ==
    ASSUME TypeInv, OwnInv, NEW p \in Tasks, ServeFetch(p)
    PROVE  OwnInv'
<1> DEFINE t == task[p]
           u == [t EXCEPT !.answer = "fetched", !.todo = Fetched(t)]
           v == [t EXCEPT !.answer = "absent", !.got = NoDoc]
<1>1. /\ SourceOK /\ t \in Task /\ Holds(docs, t) /\ t.pc = "fetch"
  BY TaskOwned DEF ServeFetch, Waits
<1>2. UNCHANGED ragVars /\ UNCHANGED <<cursor, pushed>>
  BY DEF ServeFetch, Waits, ragVars
<1>3. ASSUME Become(p, u)
      PROVE  TasksOwned'
  <2>1. /\ Fetched(t) \in Seq(SourceItem) /\ Fetched(t) # <<>>
        /\ \A k \in 1 .. Len(Fetched(t)) :
              Fetched(t)[k].payload = Current(Fetched(t)[k].item)
    BY <1>1, FetchedType
  <2>2. ASSUME NEW k \in 1 .. Len(Fetched(t))
        PROVE  Fetched(t)[k].payload \in BytesOf(Fetched(t)[k].item)
    <3>1. Fetched(t)[k] \in SourceItem
      BY <2>1, ElementOfSeq
    <3>2. Fetched(t)[k].item \in Items
      BY <3>1 DEF SourceItem
    <3>3. QED
      BY <1>1, <2>1, <3>2 DEF Current, BytesOf, SourceOK
  <2> HIDE DEF t
  <2>3. u \in Task
    BY <1>1, <2>1 DEF Task, Answers
  <2>4. /\ u.pc = "fetch" /\ u.todo = Fetched(t) /\ u.ref = t.ref
        /\ u.before = t.before /\ u.doc = t.doc /\ u.got = t.got
    BY <1>1 DEF Task
  <2> HIDE DEF u
  <2>5. Holds(docs, u)
    BY <1>1, <2>2, <2>4, NothingIsMine DEF Holds
  <2>6. QED
    BY <1>2, <1>3, <2>3, <2>5, TaskStep
<1>4. ASSUME Become(p, v)
      PROVE  TasksOwned'
  <2>1. Holds(docs, v) /\ v \in Task
    BY <1>1, NothingIsMine, ReplyHolds DEF Answers
  <2> HIDE DEF v
  <2>2. QED
    BY <1>2, <1>4, <2>1, TaskStep
<1>5. Become(p, u) \/ Become(p, v)
  BY DEF ServeFetch, Reply, Become
<1>6. QED
  BY <1>2, <1>3, <1>4, <1>5, QuietKeeps

\* The row to restore is the cursor's own.
LEMMA ResumeFetchOwned ==
    ASSUME TypeInv, OwnInv, NEW p \in Tasks, ResumeFetch(p)
    PROVE  OwnInv'
<1> DEFINE t == task[p]
           u == Ask(t, "item", NoDoc)
           n == [u EXCEPT !.before = cursor[t.ref]]
<1>1. /\ CursorTypeOK /\ CursorOwned /\ t \in Task /\ Holds(docs, t)
      /\ t.ref \in Items
  BY TaskOwned
<1>2. UNCHANGED ragVars /\ UNCHANGED <<cursor, pushed>>
  BY DEF ResumeFetch, Resumes, ragVars
<1>3. ASSUME Become(p, n)
      PROVE  OwnInv'
  <2>1. /\ u \in Task /\ Holds(docs, u)
    BY <1>1, AskHolds, NothingIsMine DEF PC
  <2>2. u.ref = t.ref /\ u.pc = "item"
    BY <1>1, AskType DEF PC
  <2>3. /\ cursor[t.ref] \in Row \cup {NoRow}
        /\ cursor[t.ref] # NoRow => Mine(docs, t.ref, cursor[t.ref].doc)
    BY <1>1 DEF CursorTypeOK, CursorOwned, Has
  <2> HIDE DEF t, u
  <2>4. n \in Task
    BY <2>1, <2>3 DEF Task
  <2>5. /\ n.pc = u.pc /\ n.todo = u.todo /\ n.ref = u.ref /\ n.doc = u.doc
        /\ n.got = u.got /\ n.before = cursor[t.ref]
    BY <2>1 DEF Task
  <2> HIDE DEF n
  <2>6. Subject(n) = Subject(u)
    BY <2>5 DEF Subject
  <2>7. Holds(docs, n)
    BY <2>1, <2>2, <2>3, <2>5, <2>6 DEF Holds
  <2>8. TasksOwned'
    BY <1>2, <1>3, <2>4, <2>7, TaskStep
  <2>9. QED
    BY <1>2, <2>8, QuietKeeps
<1>4. Become(p, n) \/ Become(p, Outcome(t, "fetch_returned_none", FALSE))
  BY DEF ResumeFetch
<1>5. QED
  BY <1>1, <1>2, <1>3, <1>4, QuietEnd DEF Actions

-----------------------------------------------------------------------------
(* push_item.                                                              *)

\* A step of p that asks the service something and touches nothing else.
LEMMA QuietAsk ==
    ASSUME TypeInv, OwnInv, UNCHANGED ragVars, NEW p \in Tasks,
           NEW pc \in PC \ {"lookup", "dlookup", "delete", "dpoll", "fetch"},
           NEW d \in DocIds \cup {NoDoc}, Mine(docs, Subject(task[p]), d),
           Become(p, Ask(task[p], pc, d))
    PROVE  TasksOwned'
<1>1. task[p] \in Task /\ Holds(docs, task[p])
  BY TaskOwned
<1>2. QED
  BY <1>1, AskOwned

LEMMA StartCreateOwned ==
    ASSUME TypeInv, OwnInv, UNCHANGED ragVars, NEW p \in Tasks, Pushing(task[p]),
           Become(p, StartCreate(task[p]))
    PROVE  TasksOwned'
<1>1. CASE Become(p, NextItem(task[p], "skipped_new"))
  BY <1>1, NextOwned DEF Actions
<1>2. CASE Become(p, Ask(task[p], "create", NoDoc))
  BY <1>2, QuietAsk, NothingIsMine DEF PC, Await
<1>3. QED
  BY <1>1, <1>2 DEF StartCreate

LEMMA PushItemOwned ==
    ASSUME TypeInv, OwnInv, NEW p \in Tasks, PushItem(p)
    PROVE  OwnInv'
<1> DEFINE t == task[p]
           i == Subject(t)
<1>1. /\ CursorTypeOK /\ CursorOwned /\ t \in Task /\ Pushing(t) /\ i \in Items
  BY TaskOwned DEF PushItem, Resumes
<1>2. UNCHANGED ragVars
  BY DEF PushItem, Resumes
<1>3. CASE Become(p, NextItem(t, "noop_unchanged")) /\ UNCHANGED <<cursor, pushed>>
  <2>1. TasksOwned'
    BY <1>1, <1>2, <1>3, NextOwned DEF Actions
  <2>2. QED
    BY <1>2, <1>3, <2>1, QuietKeeps
<1>4. CASE Knows(i, t.lib) /\ PushChanged(p, cursor[i].doc)
  <2>1. cursor[i].doc \in DocIds /\ Mine(docs, i, cursor[i].doc)
    BY <1>1, <1>4 DEF Knows, Has, CursorTypeOK, Row, CursorOwned
  <2>2. CASE Handled(p, cursor[i].doc, "skipped_changed")
    <3>1. LocalOwned'
      BY <1>1, <1>2, <2>1, <2>2, HandledOwned DEF Actions
    <3>2. QED
      BY <1>2, <3>1, LocalKeeps
  <2>3. CASE /\ Become(p, Ask(t, "revise", cursor[i].doc))
             /\ UNCHANGED <<cursor, pushed>>
    <3>1. TasksOwned'
      BY <1>2, <2>1, <2>3, QuietAsk DEF PC, Await
    <3>2. QED
      BY <1>2, <2>3, <3>1, QuietKeeps
  <2>4. QED
    BY <1>4, <2>2, <2>3 DEF PushChanged
<1>5. CASE Become(p, Ask(t, "find", NoDoc)) /\ UNCHANGED <<cursor, pushed>>
  <2>1. TasksOwned'
    BY <1>2, <1>5, QuietAsk, NothingIsMine DEF PC, Await
  <2>2. QED
    BY <1>2, <1>5, <2>1, QuietKeeps
<1>6. QED
  BY <1>3, <1>4, <1>5 DEF PushItem

LEMMA ResumeFindOwned ==
    ASSUME TypeInv, OwnInv, NEW p \in Tasks, ResumeFind(p)
    PROVE  OwnInv'
<1> DEFINE t == task[p]
<1>1. /\ CursorTypeOK /\ CursorOwned /\ PushedOwned /\ t \in Task /\ Pushing(t)
      /\ Subject(t) \in Items /\ t.got \in DocIds \cup {NoDoc}
      /\ Mine(docs, Subject(t), t.got)
  BY TaskOwned DEF ResumeFind, Resumes
<1>2. UNCHANGED ragVars /\ UNCHANGED docs
  BY DEF ResumeFind, Resumes, ragVars
<1>3. CASE Become(p, StartCreate(t)) /\ UNCHANGED <<cursor, pushed>>
  BY <1>1, <1>2, <1>3, StartCreateOwned, QuietKeeps
<1>4. CASE Handled(p, t.got, "skipped_changed")
  <2>1. LocalOwned'
    BY <1>1, <1>2, <1>4, HandledOwned DEF Actions
  <2>2. QED
    BY <1>2, <2>1, LocalKeeps
<1>5. CASE /\ Backfill(Subject(t), t.got, t.lib)
           /\ Become(p, Ask(t, "revise", t.got))
           /\ UNCHANGED pushed
  <2>1. CursorOwned'
    BY <1>1, <1>2, <1>5, BackfillOwned DEF Pushing
  <2>2. TasksOwned'
    BY <1>1, <1>2, <1>5, QuietAsk DEF PC, Await
  <2>3. PushedOwned'
    BY <1>1, <1>2, <1>5 DEF PushedOwned, Mine
  <2>4. QED
    BY <1>2, <2>1, <2>2, <2>3, LocalKeeps DEF LocalOwned
<1>6. QED
  BY <1>3, <1>4, <1>5 DEF ResumeFind

LEMMA ResumeCreateOwned ==
    ASSUME TypeInv, OwnInv, NEW p \in Tasks, ResumeCreate(p)
    PROVE  OwnInv'
<1> DEFINE t == task[p]
<1>1. /\ Pushing(t) /\ t.got \in DocIds \cup {NoDoc} /\ Mine(docs, Subject(t), t.got)
  BY TaskOwned DEF ResumeCreate, Resumes
<1>2. UNCHANGED ragVars
  BY DEF ResumeCreate, Resumes
<1>3. ASSUME NEW a \in Actions, Handled(p, t.got, a)
      PROVE  OwnInv'
  <2>1. LocalOwned'
    BY <1>1, <1>2, <1>3, HandledOwned
  <2>2. QED
    BY <1>2, <2>1, LocalKeeps
<1>4. CASE Raise(p)
  BY <1>2, <1>4, RaiseOwned
<1>5. QED
  BY <1>3, <1>4 DEF ResumeCreate, Actions

LEMMA ResumeReviseOwned ==
    ASSUME TypeInv, OwnInv, NEW p \in Tasks, ResumeRevise(p)
    PROVE  OwnInv'
<1> DEFINE t == task[p]
<1>1. /\ CursorTypeOK /\ CursorOwned /\ PushedOwned /\ t \in Task /\ Pushing(t)
      /\ Subject(t) \in Items /\ t.doc \in DocIds \cup {NoDoc}
      /\ Mine(docs, Subject(t), t.doc)
  BY TaskOwned DEF ResumeRevise, Resumes
<1>2. UNCHANGED ragVars /\ UNCHANGED docs
  BY DEF ResumeRevise, Resumes, ragVars
<1>3. CASE /\ Delete(Subject(t)) /\ Become(p, StartCreate(t)) /\ UNCHANGED pushed
  <2>1. CursorOwned'
    BY <1>1, <1>2, <1>3, RestoreOwned
  <2>2. TasksOwned'
    BY <1>1, <1>2, <1>3, StartCreateOwned
  <2>3. PushedOwned'
    BY <1>1, <1>2, <1>3 DEF PushedOwned, Mine
  <2>4. QED
    BY <1>2, <2>1, <2>2, <2>3, LocalKeeps DEF LocalOwned
<1>4. CASE Defer(p)
  BY <1>2, <1>4, DeferOwned, LocalKeeps
<1>5. CASE Become(p, Ask(t, "poll", t.doc)) /\ UNCHANGED <<cursor, pushed>>
  <2>1. TasksOwned'
    BY <1>1, <1>2, <1>5, QuietAsk DEF PC, Await
  <2>2. QED
    BY <1>2, <1>5, <2>1, QuietKeeps
<1>6. QED
  BY <1>3, <1>4, <1>5 DEF ResumeRevise

LEMMA PollOwned ==
    ASSUME TypeInv, OwnInv, NEW p \in Tasks, Poll(p) \/ PollTimeout(p)
    PROVE  OwnInv'
<1> DEFINE t == task[p]
<1>1. /\ Pushing(t) /\ t.doc \in DocIds \cup {NoDoc} /\ Mine(docs, Subject(t), t.doc)
  BY TaskOwned DEF Poll, PollTimeout, Resumes
<1>2. UNCHANGED ragVars
  BY DEF Poll, PollTimeout, Resumes
<1>3. Handled(p, t.doc, "replaced") \/ Raise(p) \/ Defer(p)
  BY DEF Poll, PollTimeout
<1>4. CASE Handled(p, t.doc, "replaced")
  <2>1. LocalOwned'
    BY <1>1, <1>2, <1>4, HandledOwned DEF Actions
  <2>2. QED
    BY <1>2, <2>1, LocalKeeps
<1>5. QED
  BY <1>2, <1>3, <1>4, RaiseOwned, DeferOwned, LocalKeeps

-----------------------------------------------------------------------------
(* The service.                                                            *)

\* A step that hands no document to the cursor or the cache.
LEMMA KeptOwned ==
    ASSUME OwnInv, KeysKept, UNCHANGED <<cursor, pushed>>
    PROVE  CursorOwned' /\ PushedOwned'
<1>1. ASSUME NEW i \in Items, Has(i)'
      PROVE  Mine(docs', i, cursor'[i].doc)
  <2>1. cursor'[i] = cursor[i] /\ Has(i)
    BY <1>1 DEF Has
  <2>2. QED
    BY <2>1, MineKept DEF OwnInv, LocalOwned, CursorOwned
<1>2. ASSUME NEW l \in Libraries, NEW i \in Items
      PROVE  Mine(docs', i, pushed'[<<l, i>>])
  BY MineKept DEF OwnInv, LocalOwned, PushedOwned
<1>3. QED
  BY <1>1, <1>2 DEF CursorOwned, PushedOwned, Mine

LEMMA IdleOwned ==
    ASSUME TypeInv, OwnInv, KeysKept, UNCHANGED task
    PROVE  TasksOwned'
<1>1. ASSUME NEW p \in Tasks
      PROVE  Holds(docs', task'[p])
  BY TaskOwned, HoldsKept
<1>2. QED
  BY <1>1 DEF TasksOwned, Holds, Mine

\* p's request is answered with a document of the item it is about.
LEMMA ReplyOwned ==
    ASSUME TypeInv, OwnInv, KeysKept, NEW p \in Tasks, NEW a \in Answers,
           NEW d \in DocIds \cup {NoDoc}, Mine(docs', Subject(task[p]), d),
           task[p].pc # "fetch", Reply(p, a, d)
    PROVE  TasksOwned'
<1> DEFINE t == task[p]
           u == [t EXCEPT !.answer = a, !.got = d]
<1>1. t \in Task /\ Holds(docs', t) /\ TasksOK /\ TasksOwned
  BY TaskOwned, HoldsKept
<1>2. Holds(docs', u) /\ u \in Task
  BY <1>1, ReplyHolds
<1>3. Become(p, u)
  BY DEF Reply, Become
<1> HIDE DEF u
<1>4. QED
  BY <1>1, <1>2, <1>3, BecomeHolds

\* No operation appears on a document whose key stays.
LEMMA OpsKept ==
    ASSUME OpsOwned, \A d \in DocIds : docs[d].key \in Items => docs'[d].key = docs[d].key,
           \A d \in DocIds, k \in RevisionKeys : op'[d][k] # "none" => op[d][k] # "none"
    PROVE  OpsOwned'
<1>1. ASSUME NEW d \in DocIds, NEW k \in RevisionKeys, op'[d][k] # "none"
      PROVE  docs'[d].key \in Items /\ k[2] \in BytesOf(docs'[d].key)
  <2>1. docs[d].key \in Items /\ k[2] \in BytesOf(docs[d].key)
    BY <1>1 DEF OpsOwned
  <2>2. QED
    BY <2>1
<1>2. QED
  BY <1>1 DEF OpsOwned, BytesOf

\* What p pushes has bytes of the item it is about.
LEMMA HeadBytes ==
    ASSUME TypeInv, OwnInv, NEW p \in Tasks, Pushing(task[p])
    PROVE  /\ Head(task[p].todo).payload \in BytesOf(Subject(task[p]))
           /\ Head(task[p].todo).payload \in Payloads
<1> DEFINE t == task[p]
<1>1. /\ t \in Task /\ t.todo # <<>>
      /\ \A k \in 1 .. Len(t.todo) : t.todo[k].payload \in BytesOf(t.todo[k].item)
  BY TaskOwned DEF Pushing, Holds
<1>2. t.todo \in Seq(SourceItem)
  BY <1>1 DEF Task
<1>3. Head(t.todo) = t.todo[1] /\ 1 \in 1 .. Len(t.todo)
  BY <1>1, <1>2, HeadTailProperties, LenProperties, EmptySeq
<1>4. /\ Subject(t) = Head(t.todo).item
      /\ Head(t.todo).payload \in Payloads
  BY <1>1, SubjectType DEF SourceItem
<1>5. QED
  BY <1>1, <1>3, <1>4

\* create: the new document goes under the item's key; a refusal names one
\* that has the item's key, or its bytes and so, bytes being distinct, its key.
LEMMA ServeCreateOwned ==
    ASSUME DistinctPayloads, TypeInv, OwnInv, NEW p \in Tasks, ServeCreate(p)
    PROVE  OwnInv'
<1> DEFINE t == task[p]
           i == Subject(t)
           c == Head(t.todo).payload
<1>1. /\ RagOK /\ t \in Task /\ Pushing(t) /\ i \in Items /\ t.pc # "fetch"
      /\ DocsOwned /\ OpsOwned
  BY TaskOwned DEF ServeCreate, Waits, TypeInv, RagOK, OwnInv
<1>2. c \in Payloads /\ c \in BytesOf(i) /\ c # NoPayload
  BY <1>1, HeadBytes, NoPayloadAssumption
<1>3. UNCHANGED <<cursor, pushed>>
  BY DEF ServeCreate, Waits
<1>4. PICK d \in DocIds \cup {NoDoc} :
             \/ AddDocument(t.lib, i, c, d) /\ Reply(p, "created", d)
             \/ RefuseDuplicate(t.lib, i, c, d) /\ Reply(p, "duplicate", d)
  BY DEF ServeCreate
<1>5. "created" \in Answers /\ "duplicate" \in Answers
  BY DEF Answers
<1> HIDE DEF i, c
<1>6. CASE AddDocument(t.lib, i, c, d) /\ Reply(p, "created", d)
  <2> DEFINE new == [state |-> "active", lib |-> t.lib, key |-> i, content |-> c]
  <2>1. d \in DocIds /\ docs[d].state = "free"
    BY <1>1, <1>2, <1>6, AddDocumentType DEF Pushing, Free
  <2>2. docs' = [docs EXCEPT ![d] = new] /\ UNCHANGED op
    BY <1>6 DEF AddDocument
  <2>3. new.key = i /\ new.content = c /\ new.state = "active"
    OBVIOUS
  <2> HIDE DEF new
  <2>4. \A e \in DocIds : docs'[e] = IF e = d THEN new ELSE docs[e]
    BY <2>1, <2>2, <1>1 DEF RagOK, IronRagTypeOK
  <2>5. docs[d].key = NoDoc /\ NoDoc \notin Items
    BY <1>1, <2>1, NoDocAssumption DEF DocsOwned
  <2>6. KeysKept
    BY <2>4, <2>5 DEF KeysKept
  <2>7. DocsOwned'
    BY <1>1, <1>2, <2>3, <2>4 DEF DocsOwned, BytesOf
  <2>8. OpsOwned'
    BY <1>1, <2>2, <2>4, <2>5, OpsKept
  <2>9. Mine(docs', i, d)
    BY <2>1, <2>3, <2>4 DEF Mine
  <2>10. TasksOwned'
    BY <1>1, <1>5, <1>6, <2>6, <2>9, ReplyOwned DEF i
  <2>11. QED
    BY <1>3, <2>6, <2>7, <2>8, <2>10, KeptOwned DEF OwnInv, LocalOwned
<1>7. CASE RefuseDuplicate(t.lib, i, c, d) /\ Reply(p, "duplicate", d)
  <2>1. UNCHANGED ragVars /\ KeysKept /\ UNCHANGED docs
    BY <1>7 DEF RefuseDuplicate, KeysKept, ragVars
  <2>2. Mine(docs, i, d)
    <3>1. ASSUME d \in DocIds
          PROVE  docs[d].key = i
      <4>1. docs[d].key = i \/ docs[d].content = c
        BY <1>7, <3>1, NoDocAssumption DEF RefuseDuplicate, Duplicates
      <4>2. ASSUME docs[d].content = c
            PROVE  docs[d].key = i
        <5>1. docs[d].key \in Items /\ c \in BytesOf(docs[d].key)
          BY <1>1, <1>2, <3>1, <4>2 DEF DocsOwned
        <5>2. QED
          BY <1>1, <1>2, <5>1 DEF DistinctPayloads, BytesOf
      <4>3. QED
        BY <4>1, <4>2
    <3>2. QED
      BY <3>1 DEF Mine
  <2>3. TasksOwned'
    BY <1>1, <1>5, <1>7, <2>1, <2>2, ReplyOwned DEF i
  <2>4. QED
    BY <1>3, <2>1, <2>3, QuietKeeps
<1>8. QED
  BY <1>4, <1>6, <1>7

\* A mutation is refused, repeated or admitted; one admitted under a revision
\* key is of the document's own item.
LEMMA MutationOwned ==
    ASSUME TypeInv, OwnInv, NEW p \in Tasks, task[p].pc # "fetch", NEW k \in OpKeys,
           \A x \in RevisionKeys : k = x => /\ Subject(task[p]) \in Items
                                            /\ k[2] \in BytesOf(Subject(task[p])),
           LET d == task[p].doc
           IN  \/ RefuseGone(d) /\ Reply(p, "notfound", NoDoc)
               \/ RefuseBusy(d, k) /\ Reply(p, "conflict", NoDoc)
               \/ Dedupe(d, k) /\ Reply(p, "accepted", NoDoc)
               \/ Admit(d, k) /\ Reply(p, "accepted", NoDoc),
           UNCHANGED <<cursor, pushed>>
    PROVE  OwnInv'
<1> DEFINE d == task[p].doc
<1>1. /\ DocsOwned /\ OpsOwned /\ RagOK /\ Mine(docs, Subject(task[p]), d)
      /\ "notfound" \in Answers /\ "conflict" \in Answers /\ "accepted" \in Answers
  BY TaskOwned DEF OwnInv, TypeInv, RagOK, Answers
<1>2. UNCHANGED docs
  BY DEF RefuseGone, RefuseBusy, Dedupe, Admit
<1>3. KeysKept /\ DocsOwned'
  BY <1>1, <1>2 DEF KeysKept, DocsOwned
<1>4. OpsOwned'
  <2>1. CASE UNCHANGED op
    BY <1>1, <1>2, <2>1 DEF OpsOwned
  <2>2. CASE Admit(d, k)
    <3> DEFINE f == [x \in OpKeys |->
                        IF x = k THEN "processing"
                        ELSE IF op[d][x] = "processing" THEN "superseded" ELSE op[d][x]]
    <3>1. d \in DocIds /\ op' = [op EXCEPT ![d] = f]
      BY <2>2 DEF Admit, Active
    <3>2. \A x \in OpKeys : x # k /\ f[x] # "none" => op[d][x] # "none"
      OBVIOUS
    <3> HIDE DEF f
    <3>3. \A e \in DocIds : op'[e] = IF e = d THEN f ELSE op[e]
      BY <1>1, <3>1 DEF RagOK, IronRagTypeOK
    <3>4. docs[d].key = Subject(task[p])
      BY <1>1, <3>1 DEF Mine
    <3>5. ASSUME NEW e \in DocIds, NEW x \in RevisionKeys, op'[e][x] # "none"
          PROVE  docs[e].key \in Items /\ x[2] \in BytesOf(docs[e].key)
      <4>1. CASE e = d /\ x = k
        BY <3>4, <4>1
      <4>2. CASE ~(e = d /\ x = k)
        <5>1. op[e][x] # "none"
          BY <3>2, <3>3, <3>5, <4>2 DEF OpKeys
        <5>2. QED
          BY <1>1, <5>1 DEF OpsOwned
      <4>3. QED
        BY <4>1, <4>2
    <3>6. QED
      BY <1>2, <3>5 DEF OpsOwned
  <2>3. QED
    BY <2>1, <2>2 DEF RefuseGone, RefuseBusy, Dedupe
<1>5. TasksOwned'
  BY <1>1, <1>3, ReplyOwned, NothingIsMine
<1>6. QED
  BY <1>3, <1>4, <1>5, KeptOwned DEF OwnInv, LocalOwned

LEMMA ServeReviseOwned ==
    ASSUME TypeInv, OwnInv, NEW p \in Tasks, ServeRevise(p)
    PROVE  OwnInv'
<1> DEFINE t == task[p]
<1>1. t \in Task /\ Pushing(t) /\ t.pc # "fetch" /\ Subject(t) \in Items
  BY TaskOwned DEF ServeRevise, Waits
<1>2. /\ RevisionKey(t) \in OpKeys
      /\ RevisionKey(t)[2] \in BytesOf(Subject(t))
  BY <1>1, HeadBytes DEF RevisionKey, OpKeys, RevisionKeys
<1>3. UNCHANGED <<cursor, pushed>>
  BY DEF ServeRevise, Waits
<1>4. QED
  BY <1>1, <1>2, <1>3, MutationOwned DEF ServeRevise

LEMMA ServeDeleteOwned ==
    ASSUME TypeInv, OwnInv, NEW p \in Tasks, ServeDelete(p)
    PROVE  OwnInv'
<1>1. Deletion \in OpKeys /\ Deletion \notin RevisionKeys
  BY DeletionAssumption DEF OpKeys
<1>2. UNCHANGED <<cursor, pushed>> /\ task[p].pc # "fetch"
  BY DEF ServeDelete, Waits
<1>3. QED
  BY <1>1, <1>2, MutationOwned DEF ServeDelete

-----------------------------------------------------------------------------
(* delete_by_ref and reap_orphan.                                          *)

LEMMA DeleteByRefOwned ==
    ASSUME TypeInv, OwnInv, NEW p \in Tasks, NEW i \in Items, DeleteByRef(p, i)
    PROVE  OwnInv'
<1> DEFINE t == Routed(i, NoToken)
<1>1. UNCHANGED ragVars /\ UNCHANGED <<cursor, pushed>>
  BY DEF DeleteByRef, Starts, ragVars
<1>2. /\ t \in Task /\ t.todo = <<>> /\ t.doc = NoDoc /\ t.got = NoDoc
      /\ t.before = NoRow
  BY TaskOwned, RoutedType DEF Tokens
<1>3. \/ Become(p, Outcome(t, "unrouted", FALSE))
      \/ Become(p, Ask(t, "dlookup", NoDoc))
  BY DEF DeleteByRef
<1> HIDE DEF t
<1>4. Holds(docs, t)
  BY <1>2, EmptyHolds
<1>5. CASE Become(p, Outcome(t, "unrouted", FALSE))
  BY <1>1, <1>2, <1>5, QuietEnd DEF Actions
<1>6. CASE Become(p, Ask(t, "dlookup", NoDoc))
  <2>1. TasksOwned'
    BY <1>1, <1>2, <1>4, <1>6, AskOwned, NothingIsMine DEF PC, Await
  <2>2. QED
    BY <1>1, <2>1, QuietKeeps
<1>7. QED
  BY <1>3, <1>5, <1>6

\* reap_orphan asks for the delete of a document of its item, or ends.
LEMMA StartReapOwned ==
    ASSUME TypeInv, OwnInv, UNCHANGED ragVars, UNCHANGED <<cursor, pushed>>,
           NEW p \in Tasks, NEW t \in Task, Holds(docs, t), t.todo = <<>>,
           NEW d \in DocIds \cup {NoDoc}, Mine(docs, Subject(t), d),
           Become(p, StartReap(t, d))
    PROVE  OwnInv'
<1>1. CASE Become(p, Outcome(t, "skipped_missing", FALSE))
  BY <1>1, QuietEnd DEF Actions
<1>2. CASE Become(p, Ask(t, "delete", d))
  <2>1. TasksOwned'
    BY <1>2, AskOwned DEF PC, Await
  <2>2. QED
    BY <2>1, QuietKeeps
<1>3. QED
  BY <1>1, <1>2 DEF StartReap

LEMMA ReapOrphanOwned ==
    ASSUME TypeInv, OwnInv, NEW p \in Tasks, NEW i \in Items, NEW d \in DocIds,
           ReapOrphan(p, i, d)
    PROVE  OwnInv'
<1> DEFINE l == docs[d].lib
           t == [Blank(i, NoToken) EXCEPT !.home = l, !.lib = l]
<1>1. docs[d].key = i /\ i # NoDoc
  BY NoDocAssumption DEF ReapOrphan
<1>2. l \in Libraries
  BY <1>1 DEF TypeInv, Housed, IronRagTypeOK, Document
<1>3. UNCHANGED ragVars /\ UNCHANGED <<cursor, pushed>>
  BY DEF ReapOrphan, Starts, ragVars
<1>4. Become(p, StartReap(t, d))
  BY DEF ReapOrphan
<1> HIDE DEF l
<1>5. /\ t \in Task /\ t.ref = i /\ t.todo = <<>> /\ t.doc = NoDoc
      /\ t.got = NoDoc /\ t.before = NoRow
  BY <1>2, ReapedRefType
<1> HIDE DEF t
<1>6. Holds(docs, t)
  BY <1>5, EmptyHolds
<1>7. Mine(docs, Subject(t), d)
  BY <1>1, <1>5 DEF Mine, Subject
<1>8. QED
  BY <1>3, <1>4, <1>5, <1>6, <1>7, StartReapOwned

LEMMA ResumeDeleteLookupOwned ==
    ASSUME TypeInv, OwnInv, NEW p \in Tasks, ResumeDeleteLookup(p)
    PROVE  OwnInv'
<1> DEFINE t == task[p]
<1>1. /\ t \in Task /\ Holds(docs, t) /\ t.todo = <<>>
      /\ t.got \in DocIds \cup {NoDoc} /\ Mine(docs, Subject(t), t.got)
  BY TaskOwned DEF ResumeDeleteLookup, Resumes
<1>2. UNCHANGED ragVars /\ UNCHANGED <<cursor, pushed>>
  BY DEF ResumeDeleteLookup, Resumes
<1>3. CASE Become(p, Outcome(t, "skipped_missing", FALSE))
  BY <1>1, <1>2, <1>3, QuietEnd DEF Actions
<1>4. CASE Become(p, StartReap(t, t.got))
  BY <1>1, <1>2, <1>4, StartReapOwned
<1>5. QED
  BY <1>3, <1>4 DEF ResumeDeleteLookup

LEMMA ReapedOwned ==
    ASSUME TypeInv, OwnInv, UNCHANGED ragVars, NEW p \in Tasks, Reaped(p)
    PROVE  OwnInv'
<1> DEFINE t == task[p]
<1>1. /\ t \in Task /\ CursorTypeOK /\ CursorOwned /\ PushedOwned /\ t.ref \in Items
      /\ UNCHANGED docs
  BY TaskOwned DEF ragVars
<1>2. CursorOwned'
  <2>1. CASE UNCHANGED cursor
    BY <1>1, <2>1 DEF CursorOwned, Has, Mine
  <2>2. CASE Delete(t.ref)
    BY <1>1, <2>2, RestoreOwned
  <2>3. QED
    BY <2>1, <2>2 DEF Reaped
<1>3. PushedOwned'
  BY <1>1 DEF Reaped, PushedOwned, Mine
<1>4. Holds(docs, Outcome(t, "deleted", FALSE)) /\ Outcome(t, "deleted", FALSE) \in Task
  <2>1. "deleted" \in Actions /\ FALSE \in BOOLEAN
    BY DEF Actions
  <2>2. QED
    BY <1>1, <2>1, OutcomeHolds, Zenon
<1>5. TasksOwned'
  BY <1>4, TaskStep DEF Reaped
<1>6. QED
  BY <1>2, <1>3, <1>5, LocalKeeps DEF LocalOwned

LEMMA ResumeDeleteOwned ==
    ASSUME TypeInv, OwnInv, NEW p \in Tasks, ResumeDelete(p) \/ DeletePoll(p)
    PROVE  OwnInv'
<1> DEFINE t == task[p]
<1>1. /\ t \in Task /\ Holds(docs, t) /\ t.todo = <<>>
      /\ t.doc \in DocIds \cup {NoDoc} /\ Mine(docs, Subject(t), t.doc)
  BY TaskOwned DEF ResumeDelete, DeletePoll, Resumes
<1>2. UNCHANGED ragVars
  BY DEF ResumeDelete, DeletePoll, Resumes
<1>3. CASE Reaped(p) \/ Raise(p)
  BY <1>2, <1>3, ReapedOwned, RaiseOwned
<1>4. CASE Become(p, Ask(t, "dpoll", t.doc)) /\ UNCHANGED <<cursor, pushed>>
  <2>1. TasksOwned'
    BY <1>1, <1>2, <1>4, AskOwned DEF PC, Await
  <2>2. QED
    BY <1>2, <1>4, <2>1, QuietKeeps
<1>5. QED
  BY <1>3, <1>4 DEF ResumeDelete, DeletePoll

-----------------------------------------------------------------------------
(* Callers, faults, the source, and the service on its own.                *)

LEMMA CollectOwned ==
    ASSUME TypeInv, OwnInv, NEW p \in Tasks, Collect(p)
    PROVE  OwnInv'
<1> DEFINE u == Blank(AnItem, NoToken)
<1>1. /\ u \in Task /\ u.todo = <<>> /\ u.doc = NoDoc /\ u.got = NoDoc
      /\ u.before = NoRow
  BY AnItemIsOne, BlankType DEF Tokens
<1>2. Become(p, u) /\ UNCHANGED ragVars /\ UNCHANGED <<cursor, pushed>>
  BY DEF Collect
<1> HIDE DEF u
<1>3. Holds(docs, u)
  BY <1>1, EmptyHolds
<1>4. TasksOwned'
  BY <1>1, <1>2, <1>3, TaskStep
<1>5. QED
  BY <1>2, <1>4, QuietKeeps

LEMMA CrashOwned ==
    ASSUME TypeInv, OwnInv, Crash
    PROVE  OwnInv'
<1>1. UNCHANGED ragVars /\ UNCHANGED docs /\ UNCHANGED cursor
  BY DEF Crash, ragVars
<1>2. CursorOwned'
  BY <1>1 DEF OwnInv, LocalOwned, CursorOwned, Has, Mine
<1>3. PushedOwned'
  BY NothingIsMine DEF Crash, PushedOwned
<1>4. ASSUME NEW p \in Tasks
      PROVE  Holds(docs', task'[p])
  <2> DEFINE u == Blank(AnItem, NoToken)
  <2>1. /\ u \in Task /\ u.todo = <<>> /\ u.doc = NoDoc /\ u.got = NoDoc
        /\ u.before = NoRow
    BY AnItemIsOne, BlankType DEF Tokens
  <2>2. task'[p] = u
    BY DEF Crash
  <2> HIDE DEF u
  <2>3. QED
    BY <2>1, <2>2, EmptyHolds
<1>5. TasksOwned'
  BY <1>4 DEF TasksOwned, Holds, Mine
<1>6. QED
  BY <1>1, <1>2, <1>3, <1>5, LocalKeeps DEF LocalOwned

LEMMA ResetSweepCacheOwned ==
    ASSUME TypeInv, OwnInv, ResetSweepCache
    PROVE  OwnInv'
<1>1. UNCHANGED ragVars /\ UNCHANGED docs /\ UNCHANGED <<cursor, task>>
  BY DEF ResetSweepCache, ragVars
<1>2. CursorOwned'
  BY <1>1 DEF OwnInv, LocalOwned, CursorOwned, Has, Mine
<1>3. PushedOwned'
  BY NothingIsMine DEF ResetSweepCache, PushedOwned
<1>4. TasksOwned'
  BY <1>1, UnchangedKeeps, IdleOwned
<1>5. QED
  BY <1>1, <1>2, <1>3, <1>4, LocalKeeps DEF LocalOwned

\* A step that leaves the connector and the service alone.
LEMMA SourceOwned ==
    ASSUME TypeInv, OwnInv, UNCHANGED <<cursor, pushed, task>>, UNCHANGED ragVars
    PROVE  OwnInv'
<1>1. TasksOwned'
  BY UnchangedKeeps, IdleOwned DEF ragVars
<1>2. QED
  BY <1>1, QuietKeeps

\* The service changes a document, but not its key.
LEMMA ServiceOwned ==
    ASSUME TypeInv, OwnInv, UNCHANGED <<cursor, pushed, task>>,
           \A e \in DocIds : docs'[e].key = docs[e].key, DocsOwned', OpsOwned'
    PROVE  OwnInv'
<1>1. KeysKept
  BY DEF KeysKept
<1>2. TasksOwned'
  BY <1>1, IdleOwned
<1>3. QED
  BY <1>1, <1>2, KeptOwned DEF OwnInv, LocalOwned

\* A document is gone; what was in flight on it has ended.
LEMMA BuryOwned ==
    ASSUME RagOK, DocsOwned, OpsOwned, NEW d \in DocIds, NEW k \in OpKeys, NEW s,
           Bury(d), op' = [op EXCEPT ![d] = Ended(d, k, s)],
           k \in RevisionKeys /\ s # "none" => op[d][k] # "none"
    PROVE  DocsOwned' /\ OpsOwned' /\ \A e \in DocIds : docs'[e].key = docs[e].key
<1>1. /\ \A e \in DocIds : docs'[e].key = docs[e].key
      /\ \A e \in DocIds :
            docs'[e].content = IF e = d THEN NoPayload ELSE docs[e].content
      /\ \A e \in DocIds : docs'[e].state = IF e = d THEN "deleted" ELSE docs[e].state
  BY BuryType
<1>2. DocsOwned'
  BY <1>1 DEF DocsOwned, BytesOf
<1>3. \A x \in RevisionKeys : Ended(d, k, s)[x] # "none" => op[d][x] # "none"
  BY DEF Ended, OpKeys
<1>4. \A e \in DocIds : op'[e] = IF e = d THEN Ended(d, k, s) ELSE op[e]
  BY DEF RagOK, IronRagTypeOK
<1>5. \A e \in DocIds, x \in RevisionKeys : op'[e][x] # "none" => op[e][x] # "none"
  BY <1>3, <1>4
<1>6. OpsOwned'
  BY <1>1, <1>5, OpsKept
<1>7. QED
  BY <1>1, <1>2, <1>6

LEMMA SettleOwned ==
    ASSUME TypeInv, OwnInv, NEW d \in DocIds, NEW k \in OpKeys, Settle(d, k)
    PROVE  OwnInv'
<1>1. /\ RagOK /\ DocsOwned /\ OpsOwned /\ Apply(d, k)
      /\ UNCHANGED <<cursor, pushed, task>> /\ op[d][k] = "processing"
  BY DEF TypeInv, RagOK, OwnInv, Settle, Apply
<1>2. \A e \in DocIds : docs'[e].key = docs[e].key
  BY <1>1, ApplyType
<1>3. CASE k = Deletion
  <2>1. Bury(d) /\ op' = [op EXCEPT ![d] = Ended(d, k, "ready")]
    BY <1>1, <1>3 DEF Apply
  <2>2. DocsOwned' /\ OpsOwned'
    BY <1>1, <2>1, BuryOwned
  <2>3. QED
    BY <1>1, <1>2, <2>2, ServiceOwned
<1>4. CASE k # Deletion
  <2>1. k \in RevisionKeys
    BY <1>4 DEF OpKeys
  <2>2. /\ docs' = [docs EXCEPT ![d].content = k[2]]
        /\ op' = [op EXCEPT ![d][k] = "ready"]
    BY <1>1, <1>4 DEF Apply
  <2>3. docs[d].key \in Items /\ k[2] \in BytesOf(docs[d].key)
    BY <1>1, <2>1 DEF OpsOwned
  <2>4. docs \in [DocIds -> Document] /\ docs[d] \in Document
    BY <1>1 DEF RagOK, IronRagTypeOK
  <2> DEFINE new == [docs[d] EXCEPT !.content = k[2]]
  <2>5. new.state = docs[d].state /\ new.content = k[2]
    BY <2>4 DEF Document
  <2>6. docs' = [docs EXCEPT ![d] = new]
    BY <2>2, <2>4
  <2> HIDE DEF new
  <2>7. \A e \in DocIds : docs'[e] = IF e = d THEN new ELSE docs[e]
    BY <2>4, <2>6
  <2>8. DocsOwned'
    BY <1>1, <1>2, <2>3, <2>5, <2>7 DEF DocsOwned, BytesOf
  <2>9. \A e \in DocIds, x \in RevisionKeys : op'[e][x] # "none" => op[e][x] # "none"
    BY <1>1, <2>2 DEF RagOK, IronRagTypeOK, OpKeys
  <2>10. OpsOwned'
    BY <1>1, <1>2, <2>9, OpsKept
  <2>11. QED
    BY <1>1, <1>2, <2>8, <2>10, ServiceOwned
<1>5. QED
  BY <1>3, <1>4

LEMMA MisfireOwned ==
    ASSUME TypeInv, OwnInv, NEW d \in DocIds, NEW k \in OpKeys, Misfire(d, k)
    PROVE  OwnInv'
<1>1. /\ RagOK /\ DocsOwned /\ OpsOwned /\ UNCHANGED <<cursor, pushed, task>>
  BY DEF TypeInv, RagOK, OwnInv, Misfire
<1>2. PICK s \in {"failed", "canceled"} : Abandon(d, k, s)
  BY DEF Misfire
<1>3. op[d][k] = "processing" /\ op' = [op EXCEPT ![d][k] = s] /\ UNCHANGED docs
  BY <1>2 DEF Abandon
<1>4. \A e \in DocIds, x \in RevisionKeys : op'[e][x] # "none" => op[e][x] # "none"
  BY <1>1, <1>3 DEF RagOK, IronRagTypeOK, OpKeys
<1>5. OpsOwned' /\ DocsOwned'
  BY <1>1, <1>3, <1>4, OpsKept DEF DocsOwned
<1>6. QED
  BY <1>1, <1>3, <1>5, ServiceOwned

LEMMA RemoveOwned ==
    ASSUME TypeInv, OwnInv, NEW d \in DocIds, Remove(d)
    PROVE  OwnInv'
<1>1. /\ RagOK /\ DocsOwned /\ OpsOwned /\ UNCHANGED <<cursor, pushed, task>>
      /\ Bury(d) /\ op' = [op EXCEPT ![d] = Ended(d, Deletion, op[d][Deletion])]
  BY DEF TypeInv, RagOK, OwnInv, Remove, RemoveByHand
<1>2. Deletion \in OpKeys
  BY DEF OpKeys
<1>3. DocsOwned' /\ OpsOwned' /\ \A e \in DocIds : docs'[e].key = docs[e].key
  BY <1>1, <1>2, BuryOwned
<1>4. QED
  BY <1>1, <1>3, ServiceOwned

LEMMA SeedOwned ==
    ASSUME TypeInv, OwnInv, NEW d \in DocIds, Seed(d)
    PROVE  OwnInv'
<1>1. /\ CursorTypeOK /\ CursorOwned /\ docs[d].key \in Items
      /\ UNCHANGED <<srcVars, pushed, task, ragVars, faults>>
  BY DEF TypeInv, Local, OwnInv, LocalOwned, Seed
<1>2. docs[d].lib \in Libraries /\ Mine(docs, docs[d].key, d)
  BY <1>1, NoDocAssumption DEF TypeInv, Housed, IronRagTypeOK, Document, Mine
<1>3. CursorOwned'
  BY <1>1, <1>2, UpsertOwned DEF Seed, Tokens, ragVars
<1>4. QED
  BY <1>1, <1>3 DEF OwnInv, LocalOwned, PushedOwned, TasksOwned, DocsOwned, OpsOwned, ragVars

-----------------------------------------------------------------------------
LEMMA OwnInit == Init => OwnInv
<1> SUFFICES ASSUME Init PROVE OwnInv
  OBVIOUS
<1>1. CursorOwned /\ PushedOwned
  BY NothingIsMine DEF Init, CursorInit, CursorOwned, PushedOwned, Has
<1>2. TasksOwned
  <2>1. Holds(docs, Blank(AnItem, NoToken))
    BY AnItemIsOne, BlankType, EmptyHolds DEF Tokens
  <2>2. QED
    BY <2>1 DEF Init, TasksOwned
<1>3. DocsOwned
  BY DEF Init, IronRagInit, FreeDoc, DocsOwned
<1>4. OpsOwned
  BY DEF Init, IronRagInit, OpsOwned, OpKeys
<1>5. QED
  BY <1>1, <1>2, <1>3, <1>4 DEF OwnInv, LocalOwned

LEMMA OwnStep ==
    ASSUME DistinctPayloads
    PROVE  TypeInv /\ OwnInv /\ [Next]_vars => OwnInv'
<1> SUFFICES ASSUME TypeInv, OwnInv, [Next]_vars PROVE OwnInv'
  OBVIOUS
<1>1. CASE UNCHANGED vars
  BY <1>1, SourceOwned DEF vars, ragVars
<1>2. ASSUME NEW p \in Tasks, Call(p)
      PROVE  OwnInv'
  <2>1. PICK i \in Items : \/ \E tok \in Versions : PushRef(p, i, tok)
                           \/ DeleteByRef(p, i)
                           \/ \E d \in DocIds : ReapOrphan(p, i, d)
    BY <1>2 DEF Call
  <2>2. QED
    BY <2>1, PushRefOwned, DeleteByRefOwned, ReapOrphanOwned DEF Tokens
<1>3. ASSUME NEW p \in Tasks, Run(p)
      PROVE  OwnInv'
  BY <1>3, ResumeLookupOwned, ResumeFetchOwned, PushItemOwned, ResumeFindOwned,
     ResumeCreateOwned, ResumeReviseOwned, PollOwned, ResumeDeleteLookupOwned,
     ResumeDeleteOwned DEF Run
<1>4. ASSUME NEW p \in Tasks, Serve(p)
      PROVE  OwnInv'
  BY <1>4, ServeFindOwned, ServeFetchOwned, ServeCreateOwned, ServeReviseOwned,
     ServeDeleteOwned DEF Serve
<1>5. ASSUME NEW p \in Tasks, Abort(p) \/ Collect(p)
      PROVE  OwnInv'
  BY <1>5, RaiseOwned, CollectOwned DEF Abort
<1>6. CASE Source
  BY <1>6, SourceOwned DEF Source, Edit, Vanish, Reroute
<1>7. CASE Service
  BY <1>7, RemoveOwned, SettleOwned, MisfireOwned DEF Service
<1>8. CASE Crash \/ ResetSweepCache
  BY <1>8, CrashOwned, ResetSweepCacheOwned
<1>9. CASE Seeder
  BY <1>9, SeedOwned DEF Seeder
<1>10. QED
  BY <1>1, <1>2, <1>3, <1>4, <1>5, <1>6, <1>7, <1>8, <1>9 DEF Next

LEMMA OwnInvOwns == OwnInv => CursorOwnsDocument
  BY DEF OwnInv, LocalOwned, CursorOwned, PushedOwned, TasksOwned, Holds, Mine,
         CursorOwnsDocument, Owns

\* Ownership, for any number of items, calls, libraries, documents and versions:
\* no interleaving of pushes, adoptions, restores, reroutes, reaps and crashes
\* makes the connector hold a document id that was created under another item's
\* external key, provided items never share bytes (orchestrator.py: _create
\* adopts whatever document the service names as having the bytes).
THEOREM Ownership ==
    ASSUME DistinctPayloads
    PROVE  Spec => []CursorOwnsDocument
<1>1. Init => TypeInv /\ OwnInv
  BY TypeInit, OwnInit
<1>2. TypeInv /\ OwnInv /\ [Next]_vars => (TypeInv /\ OwnInv)'
  BY TypeStep, OwnStep
<1>3. TypeInv /\ OwnInv => CursorOwnsDocument
  BY OwnInvOwns
<1>4. QED
  BY <1>1, <1>2, <1>3, PTL DEF Spec
-----------------------------------------------------------------------------
(* Libraries.  The row of an item whose duplicates are refused names a     *)
(* document of the library it names.  A document never moves, so what has  *)
(* to be followed is which library a call took its document from: the one  *)
(* it pushes to.                                                           *)

Strict(i) == Policy[i].on_duplicate_content = "fail"

\* Among documents D, d is one of library l.
Lodges(D, d, l) == d \in DocIds /\ D[d].lib = l

RowLodged(D, row) == row # NoRow /\ row.doc # NoDoc => Lodges(D, row.doc, row.lib)

Lodged(D, t) ==
    /\ Strict(t.ref) => RowLodged(D, t.before)
    /\ t.pc \in {"revise", "poll"} /\ Strict(Subject(t)) => Lodges(D, t.doc, t.lib)
    /\ t.answer \in {"found", "created"} => t.pc \notin {"idle", "done"} /\ Lodges(D, t.got, t.lib)
    /\ t.pc = "lookup" => t.todo = <<>> /\ t.lib = t.home

RowsLodged  == \A i \in Items : Strict(i) => RowLodged(docs, cursor[i])
TasksLodged == \A p \in Tasks : Lodged(docs, task[p])

\* A document that is still to be created is in no library.
Unhoused == \A d \in DocIds : docs[d].state = "free" => docs[d].lib = NoDoc

LibInv == RowsLodged /\ TasksLodged /\ Unhoused

\* Where every document there is stays.
LibsKept == \A d \in DocIds : docs[d].lib \in Libraries => docs'[d].lib = docs[d].lib

LEMMA RowLodgedKept ==
    ASSUME LibsKept, NEW row \in Row \cup {NoRow}, RowLodged(docs, row)
    PROVE  RowLodged(docs', row)
  BY DEF LibsKept, RowLodged, Lodges, Row

LEMMA LodgedKept ==
    ASSUME LibsKept, NEW t \in Task, WellFormed(t), Lodged(docs, t)
    PROVE  Lodged(docs', t)
<1>1. Strict(t.ref) => RowLodged(docs', t.before)
  BY RowLodgedKept DEF Lodged, Task
<1>2. t.pc \in {"revise", "poll"} /\ Strict(Subject(t)) => Lodges(docs', t.doc, t.lib)
  BY DEF LibsKept, Lodged, Lodges, WellFormed
<1>3. t.answer \in {"found", "created"} =>
         t.pc \notin {"idle", "done"} /\ Lodges(docs', t.got, t.lib)
  BY DEF LibsKept, Lodged, Lodges, WellFormed
<1>4. QED
  BY <1>1, <1>2, <1>3 DEF Lodged

\* A call that has neither asked for anything nor anything to restore.
LEMMA FreshLodged ==
    ASSUME NEW D, NEW t, t.before = NoRow, t.answer = "none",
           t.pc \notin {"revise", "poll", "lookup"}
    PROVE  Lodged(D, t)
  BY DEF Lodged, RowLodged

LEMMA OutcomeLodged ==
    ASSUME NEW D, NEW t \in Task, NEW a, NEW b
    PROVE  Lodged(D, Outcome(t, a, b))
<1>1. /\ Outcome(t, a, b).before = NoRow /\ Outcome(t, a, b).answer = "none"
      /\ Outcome(t, a, b).pc = "done"
  BY DEF Outcome, Blank
<1>2. QED
  BY <1>1, FreshLodged

LEMMA AskLodged ==
    ASSUME NEW D, NEW t \in Task, Strict(t.ref) => RowLodged(D, t.before),
           NEW pc \in PC, NEW d \in DocIds \cup {NoDoc},
           pc \in {"revise", "poll"} /\ Strict(Subject(t)) => Lodges(D, d, t.lib),
           pc = "lookup" => t.todo = <<>> /\ t.lib = t.home
    PROVE  Lodged(D, Ask(t, pc, d))
<1> DEFINE u == Ask(t, pc, d)
<1>1. /\ u.pc = pc /\ u.answer = "none" /\ u.ref = t.ref /\ u.todo = t.todo
      /\ u.home = t.home /\ u.lib = t.lib /\ u.before = t.before /\ u.doc = d
  BY AskType
<1> HIDE DEF u
<1>2. Subject(u) = Subject(t)
  BY <1>1 DEF Subject
<1>3. Lodged(D, u)
  BY <1>1, <1>2 DEF Lodged
<1>4. QED
  BY <1>3 DEF u

LEMMA NextItemLodged ==
    ASSUME NEW D, NEW t \in Task, Lodged(D, t), NEW a
    PROVE  Lodged(D, NextItem(t, a))
<1> DEFINE main == IF IsPrimary(t) THEN a ELSE t.action
           l == DependentLibrary(t, Head(Tail(t.todo)).item)
           u == Ask(t, "item", NoDoc)
<1>1. CASE Tail(t.todo) = <<>>
  BY <1>1, OutcomeLodged DEF NextItem
<1>2. CASE Tail(t.todo) # <<>>
  <2>1. NextItem(t, a) = [u EXCEPT !.todo = Tail(t.todo), !.lib = l, !.action = main]
    BY <1>2 DEF NextItem
  <2>2. /\ u \in Task /\ u.pc = "item" /\ u.answer = "none" /\ u.ref = t.ref
        /\ u.before = t.before
    BY AskType DEF PC
  <2> HIDE DEF main, l, u
  <2>3. LET n == NextItem(t, a)
        IN  n.pc = "item" /\ n.answer = "none" /\ n.ref = t.ref /\ n.before = t.before
    BY <2>1, <2>2 DEF Task
  <2>4. QED
    BY <2>3 DEF Lodged
<1>3. QED
  BY <1>1, <1>2

\* One task becomes t; documents may be created, but stay where they are.
LEMMA BecomeLodged ==
    ASSUME TypeInv, LibInv, LibsKept, NEW p \in Tasks, NEW t, Lodged(docs', t), Become(p, t)
    PROVE  TasksLodged'
<1>1. task' = [task EXCEPT ![p] = t] /\ task \in [Tasks -> Task]
  BY DEF Become, TypeInv, Local, TasksOK
<1>2. ASSUME NEW q \in Tasks
      PROVE  Lodged(docs', task'[q])
  <2>1. CASE q = p
    <3>1. task'[q] = t
      BY <1>1, <2>1
    <3>2. QED
      BY <3>1
  <2>2. CASE q # p
    <3>1. task'[q] = task[q]
      BY <1>1, <2>2
    <3>2. /\ task[q] \in Task /\ WellFormed(task[q]) /\ Lodged(docs, task[q])
      BY DEF TypeInv, Local, TasksOK, LibInv, TasksLodged
    <3>3. QED
      BY <3>1, <3>2, LodgedKept
  <2>3. QED
    BY <2>1, <2>2
<1>3. QED
  BY <1>2 DEF TasksLodged, Lodged, RowLodged, Lodges

-----------------------------------------------------------------------------
(* A coroutine's steps move no document.                                   *)

LEMMA UnmovedKeeps ==
    ASSUME UNCHANGED docs
    PROVE  LibsKept /\ (Unhoused => Unhoused')
  BY DEF LibsKept, Unhoused

LEMMA RowsChange ==
    ASSUME CursorTypeOK, RowsLodged, UNCHANGED docs, NEW i \in Items, NEW row,
           Strict(i) => RowLodged(docs, row), cursor' = [cursor EXCEPT ![i] = row]
    PROVE  RowsLodged'
<1>1. \A j \in Items : cursor'[j] = IF j = i THEN row ELSE cursor[j]
  BY DEF CursorTypeOK
<1>2. QED
  BY <1>1 DEF RowsLodged, RowLodged, Lodges

LEMMA RowsStay ==
    ASSUME RowsLodged, UNCHANGED docs, UNCHANGED cursor
    PROVE  RowsLodged'
  BY DEF RowsLodged, RowLodged, Lodges

\* Only a document of the library may be written into the row of that library:
\* an upsert without one would keep that of the library the item was in before.
LEMMA UpsertLodged ==
    ASSUME CursorTypeOK, RowsLodged, UNCHANGED docs, NEW i \in Items, NEW t, NEW d, NEW l,
           Strict(i) => Lodges(docs, d, l), Upsert(i, t, d, l)
    PROVE  RowsLodged'
<1> DEFINE row == [token |-> t, doc |-> KeptDoc(i, d), lib |-> l]
<1>1. cursor' = [cursor EXCEPT ![i] = row] /\ row.doc = KeptDoc(i, d) /\ row.lib = l
  BY DEF Upsert
<1>2. Strict(i) => KeptDoc(i, d) = d
  BY NoDocAssumption DEF KeptDoc, Lodges
<1> HIDE DEF row
<1>3. Strict(i) => RowLodged(docs, row)
  BY <1>1, <1>2 DEF RowLodged
<1>4. QED
  BY <1>1, <1>3, RowsChange

LEMMA BackfillLodged ==
    ASSUME CursorTypeOK, RowsLodged, UNCHANGED docs, NEW i \in Items, NEW d, NEW l,
           Lodges(docs, d, l), Backfill(i, d, l)
    PROVE  RowsLodged'
<1>1. CASE Has(i)
  <2> DEFINE row == [cursor[i] EXCEPT !.doc = d, !.lib = l]
  <2>1. row.doc = d /\ row.lib = l
    BY <1>1 DEF Has, CursorTypeOK, Row
  <2>2. cursor' = [cursor EXCEPT ![i] = row]
    BY <1>1 DEF Backfill, CursorTypeOK
  <2> HIDE DEF row
  <2>3. RowLodged(docs, row)
    BY <2>1 DEF RowLodged
  <2>4. QED
    BY <2>2, <2>3, RowsChange
<1>2. CASE ~Has(i)
  BY <1>2, RowsStay DEF Backfill
<1>3. QED
  BY <1>1, <1>2

LEMMA RestoreLodged ==
    ASSUME CursorTypeOK, RowsLodged, UNCHANGED docs, NEW i \in Items, NEW row,
           Strict(i) => RowLodged(docs, row), Restore(i, row)
    PROVE  RowsLodged'
  BY RowsChange DEF Restore

LEMMA DeleteLodged ==
    ASSUME CursorTypeOK, RowsLodged, UNCHANGED docs, NEW i \in Items, Delete(i)
    PROVE  RowsLodged'
  BY RowsChange DEF Delete, RowLodged

\* What the two invariants say of one task.
LEMMA TaskLodged ==
    ASSUME TypeInv, LibInv, NEW p \in Tasks
    PROVE  /\ CursorTypeOK /\ RowsLodged /\ SourceOK
           /\ task[p] \in Task /\ WellFormed(task[p]) /\ Lodged(docs, task[p])
           /\ task[p].ref \in Items /\ Subject(task[p]) \in Items
           /\ task[p].doc \in DocIds \cup {NoDoc}
           /\ task[p].got \in DocIds \cup {NoDoc}
           /\ Strict(task[p].ref) => RowLodged(docs, task[p].before)
<1>1. RowsLodged /\ Lodged(docs, task[p])
  BY DEF LibInv, TasksLodged
<1>2. task[p] \in Task /\ WellFormed(task[p])
  BY TaskFacts
<1>3. Subject(task[p]) \in Items
  BY <1>2, SubjectType
<1>4. QED
  BY <1>1, <1>2, <1>3, TaskFacts DEF Lodged

\* The rows and p's next state decide a step that moves no document.
LEMMA LibTask ==
    ASSUME TypeInv, LibInv, UNCHANGED docs, RowsLodged', NEW p \in Tasks, NEW t,
           Lodged(docs, t), Become(p, t)
    PROVE  LibInv'
<1>1. Lodged(docs', t)
  OBVIOUS
<1>2. TasksLodged'
  BY <1>1, UnmovedKeeps, BecomeLodged
<1>3. QED
  BY <1>2, UnmovedKeeps DEF LibInv

LEMMA LibQuiet ==
    ASSUME TypeInv, LibInv, UNCHANGED docs, UNCHANGED cursor, NEW p \in Tasks, NEW t,
           Lodged(docs, t), Become(p, t)
    PROVE  LibInv'
<1>1. RowsLodged'
  BY RowsStay DEF LibInv
<1>2. QED
  BY <1>1, LibTask

LEMMA LibEnds ==
    ASSUME TypeInv, LibInv, UNCHANGED docs, UNCHANGED cursor, NEW p \in Tasks, NEW t \in Task,
           NEW a, NEW b, Become(p, Outcome(t, a, b))
    PROVE  LibInv'
  BY OutcomeLodged, LibQuiet

LEMMA LibAsks ==
    ASSUME TypeInv, LibInv, UNCHANGED docs, UNCHANGED cursor, NEW p \in Tasks,
           NEW pc \in PC, NEW d \in DocIds \cup {NoDoc},
           pc \in {"revise", "poll"} /\ Strict(Subject(task[p])) => Lodges(docs, d, task[p].lib),
           pc # "lookup", Become(p, Ask(task[p], pc, d))
    PROVE  LibInv'
<1>1. Lodged(docs, Ask(task[p], pc, d))
  BY TaskLodged, AskLodged
<1>2. QED
  BY <1>1, LibQuiet

LEMMA HandledLodged ==
    ASSUME TypeInv, LibInv, UNCHANGED docs, NEW p \in Tasks, NEW d, NEW a,
           Strict(Subject(task[p])) => Lodges(docs, d, task[p].lib), Handled(p, d, a)
    PROVE  LibInv'
<1>1. RowsLodged'
  BY TaskLodged, UpsertLodged DEF Handled
<1>2. Lodged(docs, NextItem(task[p], a))
  BY TaskLodged, NextItemLodged
<1>3. QED
  BY <1>1, <1>2, LibTask DEF Handled

LEMMA DeferLodged ==
    ASSUME TypeInv, LibInv, UNCHANGED docs, NEW p \in Tasks, Defer(p)
    PROVE  LibInv'
<1>1. RowsLodged'
  <2>1. CASE UNCHANGED cursor
    BY <2>1, TaskLodged, RowsStay
  <2>2. CASE Restore(task[p].ref, task[p].before)
    BY <2>2, TaskLodged, RestoreLodged
  <2>3. QED
    BY <2>1, <2>2 DEF Defer
<1>2. PICK a : Become(p, Outcome(task[p], a, TRUE))
  BY DEF Defer
<1>3. Lodged(docs, Outcome(task[p], a, TRUE))
  BY TaskLodged, OutcomeLodged
<1>4. QED
  BY <1>1, <1>2, <1>3, LibTask

LEMMA RaiseLodged ==
    ASSUME TypeInv, LibInv, UNCHANGED docs, NEW p \in Tasks, Raise(p)
    PROVE  LibInv'
  BY TaskLodged, LibEnds DEF Raise

LEMMA CreateLodged ==
    ASSUME TypeInv, LibInv, UNCHANGED docs, RowsLodged', NEW p \in Tasks,
           Become(p, StartCreate(task[p]))
    PROVE  LibInv'
<1>1. Lodged(docs, NextItem(task[p], "skipped_new"))
  BY TaskLodged, NextItemLodged
<1>2. Lodged(docs, Ask(task[p], "create", NoDoc))
  BY TaskLodged, AskLodged DEF PC, Await
<1>3. Lodged(docs, StartCreate(task[p]))
  BY <1>1, <1>2 DEF StartCreate
<1>4. QED
  BY <1>3, LibTask

-----------------------------------------------------------------------------
(* The handlers.                                                           *)

LEMMA PushRefLodged ==
    ASSUME TypeInv, LibInv, NEW p \in Tasks, NEW i \in Items, NEW tok \in Tokens,
           PushRef(p, i, tok)
    PROVE  LibInv'
<1> DEFINE t == Routed(i, tok)
<1>1. UNCHANGED docs /\ UNCHANGED cursor
  BY DEF PushRef, Starts, ragVars
<1>2. /\ t \in Task /\ t.todo = <<>> /\ t.before = NoRow
      /\ t.home = route[i] /\ t.lib = route[i]
  BY TaskLodged, RoutedType
<1>3. \/ Become(p, Outcome(t, "unrouted", FALSE))
      \/ Become(p, Outcome(t, "noop_unchanged", FALSE))
      \/ Become(p, Ask(t, "lookup", NoDoc))
      \/ Become(p, Ask(t, "fetch", NoDoc))
  BY DEF PushRef
<1> HIDE DEF t
<1>4. ASSUME NEW pc \in {"lookup", "fetch"}
      PROVE  Lodged(docs, Ask(t, pc, NoDoc))
  BY <1>2, AskLodged DEF PC, Await, RowLodged
<1>5. QED
  BY <1>1, <1>2, <1>3, <1>4, LibEnds, LibQuiet

\* The row of an item found again is told the library it was looked for in.
LEMMA ResumeLookupLodged ==
    ASSUME TypeInv, LibInv, NEW p \in Tasks, ResumeLookup(p)
    PROVE  LibInv'
<1> DEFINE t == task[p]
<1>1. /\ CursorTypeOK /\ RowsLodged /\ t \in Task /\ Lodged(docs, t) /\ t.ref \in Items
      /\ t.pc = "lookup" /\ t.lib = t.home
  BY TaskLodged DEF ResumeLookup, Resumes, Lodged
<1>2. UNCHANGED docs
  BY DEF ResumeLookup, Resumes, ragVars
<1>3. CASE Resumes(p, "lookup", "found")
  <2>1. Backfill(t.ref, t.got, t.home) /\ Become(p, Outcome(t, "noop_unchanged", FALSE))
    BY <1>3 DEF ResumeLookup, Resumes
  <2>2. Lodges(docs, t.got, t.home)
    BY <1>1, <1>3 DEF Lodged, Resumes
  <2>3. RowsLodged'
    BY <1>1, <1>2, <2>1, <2>2, BackfillLodged
  <2>4. QED
    BY <1>1, <1>2, <2>1, <2>3, OutcomeLodged, LibTask
<1>4. CASE Resumes(p, "lookup", "absent")
  <2>1. Become(p, Ask(t, "fetch", NoDoc)) /\ UNCHANGED cursor
    BY <1>4 DEF ResumeLookup, Resumes
  <2>2. QED
    BY <1>2, <2>1, LibAsks DEF PC, Await
<1>5. QED
  BY <1>3, <1>4 DEF ResumeLookup

\* The row to restore is the cursor's own.
LEMMA ResumeFetchLodged ==
    ASSUME TypeInv, LibInv, NEW p \in Tasks, ResumeFetch(p)
    PROVE  LibInv'
<1> DEFINE t == task[p]
           u == Ask(t, "item", NoDoc)
           n == [u EXCEPT !.before = cursor[t.ref]]
<1>1. /\ t \in Task /\ t.ref \in Items /\ UNCHANGED docs /\ UNCHANGED cursor
      /\ Strict(t.ref) => RowLodged(docs, cursor[t.ref])
  BY TaskLodged DEF ResumeFetch, Resumes, ragVars, RowsLodged
<1>2. CASE Become(p, n)
  <2>1. /\ u \in Task /\ u.pc = "item" /\ u.answer = "none" /\ u.ref = t.ref
    BY <1>1, AskType DEF PC
  <2> HIDE DEF t, u
  <2>2. /\ n.pc = "item" /\ n.answer = "none" /\ n.ref = t.ref
        /\ n.before = cursor[t.ref]
    BY <2>1 DEF Task
  <2> HIDE DEF n
  <2>3. Lodged(docs, n)
    BY <1>1, <2>2 DEF Lodged
  <2>4. QED
    BY <1>1, <1>2, <2>3, LibQuiet
<1>3. QED
  BY <1>1, <1>2, LibEnds DEF ResumeFetch

\* A row that names a document of the library at hand hands it on.
LEMMA PushItemLodged ==
    ASSUME TypeInv, LibInv, NEW p \in Tasks, PushItem(p)
    PROVE  LibInv'
<1> DEFINE t == task[p]
           i == Subject(t)
<1>1. /\ CursorTypeOK /\ RowsLodged /\ t \in Task /\ Lodged(docs, t) /\ i \in Items
      /\ UNCHANGED docs
  BY TaskLodged DEF PushItem, Resumes, ragVars
<1>2. CASE Become(p, NextItem(t, "noop_unchanged")) /\ UNCHANGED cursor
  BY <1>1, <1>2, NextItemLodged, LibQuiet
<1>3. CASE Knows(i, t.lib) /\ PushChanged(p, cursor[i].doc)
  <2>1. /\ cursor[i].doc \in DocIds
        /\ Strict(i) => Lodges(docs, cursor[i].doc, t.lib)
    BY <1>1, <1>3 DEF Knows, Has, CursorTypeOK, Row, RowsLodged, RowLodged
  <2>2. CASE Handled(p, cursor[i].doc, "skipped_changed")
    BY <1>1, <2>1, <2>2, HandledLodged
  <2>3. CASE Become(p, Ask(t, "revise", cursor[i].doc)) /\ UNCHANGED cursor
    BY <1>1, <2>1, <2>3, LibAsks DEF PC, Await
  <2>4. QED
    BY <1>3, <2>2, <2>3 DEF PushChanged
<1>4. CASE Become(p, Ask(t, "find", NoDoc)) /\ UNCHANGED cursor
  BY <1>1, <1>4, LibAsks DEF PC, Await
<1>5. QED
  BY <1>2, <1>3, <1>4 DEF PushItem

LEMMA ResumeFindLodged ==
    ASSUME TypeInv, LibInv, NEW p \in Tasks, ResumeFind(p)
    PROVE  LibInv'
<1> DEFINE t == task[p]
<1>1. /\ CursorTypeOK /\ RowsLodged /\ t \in Task /\ Lodged(docs, t) /\ Subject(t) \in Items
      /\ t.got \in DocIds \cup {NoDoc} /\ UNCHANGED docs
  BY TaskLodged DEF ResumeFind, Resumes, ragVars
<1>2. CASE Become(p, StartCreate(t)) /\ UNCHANGED cursor
  BY <1>1, <1>2, RowsStay, CreateLodged
<1>3. CASE Resumes(p, "find", "found")
  <2>1. Lodges(docs, t.got, t.lib)
    BY <1>1, <1>3 DEF Lodged, Resumes
  <2>2. CASE Handled(p, t.got, "skipped_changed")
    BY <1>1, <2>1, <2>2, HandledLodged
  <2>3. CASE Backfill(Subject(t), t.got, t.lib) /\ Become(p, Ask(t, "revise", t.got))
    <3>1. RowsLodged'
      BY <1>1, <2>1, <2>3, BackfillLodged
    <3>2. Strict(t.ref) => RowLodged(docs, t.before)
      BY <1>1 DEF Lodged
    <3>3. Lodged(docs, Ask(t, "revise", t.got))
      BY <1>1, <2>1, <3>2, AskLodged DEF PC, Await
    <3>4. QED
      BY <1>1, <2>3, <3>1, <3>3, LibTask
  <2>4. QED
    BY <1>3, <2>2, <2>3 DEF ResumeFind, Resumes
<1>4. QED
  BY <1>2, <1>3 DEF ResumeFind

\* A duplicate, which may come without a document, is not for a strict kind to adopt.
LEMMA ResumeCreateLodged ==
    ASSUME TypeInv, LibInv, NEW p \in Tasks, ResumeCreate(p)
    PROVE  LibInv'
<1> DEFINE t == task[p]
<1>1. Lodged(docs, t) /\ UNCHANGED docs
  BY TaskLodged DEF ResumeCreate, Resumes, ragVars
<1>2. CASE Resumes(p, "create", "created") /\ Handled(p, t.got, "created")
  <2>1. Lodges(docs, t.got, t.lib)
    BY <1>1, <1>2 DEF Lodged, Resumes
  <2>2. QED
    BY <1>1, <1>2, <2>1, HandledLodged
<1>3. CASE /\ Policy[Subject(t)].on_duplicate_content = "skip"
           /\ Handled(p, t.got, "skipped_duplicate_content")
  <2>1. ~Strict(Subject(t))
    BY <1>3 DEF Strict
  <2>2. QED
    BY <1>1, <1>3, <2>1, HandledLodged
<1>4. CASE Raise(p)
  BY <1>1, <1>4, RaiseLodged
<1>5. QED
  BY <1>2, <1>3, <1>4 DEF ResumeCreate

LEMMA ResumeReviseLodged ==
    ASSUME TypeInv, LibInv, NEW p \in Tasks, ResumeRevise(p)
    PROVE  LibInv'
<1> DEFINE t == task[p]
<1>1. /\ CursorTypeOK /\ RowsLodged /\ Lodged(docs, t) /\ Subject(t) \in Items
      /\ t.doc \in DocIds \cup {NoDoc} /\ t.pc = "revise" /\ UNCHANGED docs
  BY TaskLodged DEF ResumeRevise, Resumes, ragVars
<1>2. CASE Delete(Subject(t)) /\ Become(p, StartCreate(t))
  BY <1>1, <1>2, DeleteLodged, CreateLodged
<1>3. CASE Defer(p)
  BY <1>1, <1>3, DeferLodged
<1>4. CASE Become(p, Ask(t, "poll", t.doc)) /\ UNCHANGED cursor
  <2>1. Strict(Subject(t)) => Lodges(docs, t.doc, t.lib)
    BY <1>1 DEF Lodged
  <2>2. QED
    BY <1>1, <1>4, <2>1, LibAsks DEF PC, Await
<1>5. QED
  BY <1>2, <1>3, <1>4 DEF ResumeRevise

LEMMA PollLodged ==
    ASSUME TypeInv, LibInv, NEW p \in Tasks, Poll(p) \/ PollTimeout(p)
    PROVE  LibInv'
<1>1. UNCHANGED docs /\ Lodged(docs, task[p]) /\ task[p].pc = "poll"
  BY TaskLodged DEF Poll, PollTimeout, Resumes, ragVars
<1>2. Strict(Subject(task[p])) => Lodges(docs, task[p].doc, task[p].lib)
  BY <1>1 DEF Lodged
<1>3. Handled(p, task[p].doc, "replaced") \/ Raise(p) \/ Defer(p)
  BY DEF Poll, PollTimeout
<1>4. QED
  BY <1>1, <1>2, <1>3, HandledLodged, RaiseLodged, DeferLodged

LEMMA ReapsLodged ==
    ASSUME TypeInv, LibInv, UNCHANGED docs, UNCHANGED cursor, NEW p \in Tasks, NEW t \in Task,
           Strict(t.ref) => RowLodged(docs, t.before),
           NEW d \in DocIds \cup {NoDoc}, Become(p, StartReap(t, d))
    PROVE  LibInv'
<1>1. Lodged(docs, Ask(t, "delete", d))
  BY AskLodged DEF PC, Await
<1>2. QED
  BY <1>1, LibEnds, LibQuiet DEF StartReap

LEMMA DeleteByRefLodged ==
    ASSUME TypeInv, LibInv, NEW p \in Tasks, NEW i \in Items, DeleteByRef(p, i)
    PROVE  LibInv'
<1> DEFINE t == Routed(i, NoToken)
<1>1. UNCHANGED docs /\ UNCHANGED cursor
  BY DEF DeleteByRef, Starts, ragVars
<1>2. t \in Task /\ t.before = NoRow
  BY TaskLodged, RoutedType DEF Tokens
<1>3. \/ Become(p, Outcome(t, "unrouted", FALSE))
      \/ Become(p, Ask(t, "dlookup", NoDoc))
  BY DEF DeleteByRef
<1> HIDE DEF t
<1>4. Lodged(docs, Ask(t, "dlookup", NoDoc))
  BY <1>2, AskLodged DEF PC, Await, RowLodged
<1>5. QED
  BY <1>1, <1>2, <1>3, <1>4, LibEnds, LibQuiet

LEMMA ReapOrphanLodged ==
    ASSUME TypeInv, LibInv, NEW p \in Tasks, NEW i \in Items, NEW d \in DocIds,
           ReapOrphan(p, i, d)
    PROVE  LibInv'
<1> DEFINE l == docs[d].lib
           t == [Blank(i, NoToken) EXCEPT !.home = l, !.lib = l]
<1>1. UNCHANGED docs /\ UNCHANGED cursor
  BY DEF ReapOrphan, Starts, ragVars
<1>2. docs[d].key = i /\ i # NoDoc /\ Become(p, StartReap(t, d))
  BY NoDocAssumption DEF ReapOrphan
<1>3. l \in Libraries
  BY <1>2 DEF TypeInv, Housed, IronRagTypeOK, Document
<1> HIDE DEF l
<1>4. t \in Task /\ t.before = NoRow
  BY <1>3, ReapedRefType
<1> HIDE DEF t
<1>5. QED
  BY <1>1, <1>2, <1>4, ReapsLodged DEF RowLodged

LEMMA ResumeDeleteLookupLodged ==
    ASSUME TypeInv, LibInv, NEW p \in Tasks, ResumeDeleteLookup(p)
    PROVE  LibInv'
<1>1. UNCHANGED docs /\ UNCHANGED cursor
  BY DEF ResumeDeleteLookup, Resumes, ragVars
<1>2. \/ Become(p, Outcome(task[p], "skipped_missing", FALSE))
      \/ Become(p, StartReap(task[p], task[p].got))
  BY DEF ResumeDeleteLookup
<1>3. QED
  BY <1>1, <1>2, TaskLodged, LibEnds, ReapsLodged

LEMMA ResumeDeleteLodged ==
    ASSUME TypeInv, LibInv, NEW p \in Tasks, ResumeDelete(p) \/ DeletePoll(p)
    PROVE  LibInv'
<1> DEFINE t == task[p]
<1>1. UNCHANGED docs
  BY DEF ResumeDelete, DeletePoll, Resumes, ragVars
<1>2. CASE Reaped(p)
  <2>1. RowsLodged'
    BY <1>1, <1>2, TaskLodged, DeleteLodged, RowsStay DEF Reaped
  <2>2. QED
    BY <1>1, <1>2, <2>1, TaskLodged, OutcomeLodged, LibTask DEF Reaped
<1>3. CASE Become(p, Ask(t, "dpoll", t.doc)) /\ UNCHANGED cursor
  BY <1>1, <1>3, TaskLodged, LibAsks DEF PC, Await
<1>4. CASE Raise(p)
  BY <1>1, <1>4, RaiseLodged
<1>5. QED
  BY <1>2, <1>3, <1>4 DEF ResumeDelete, DeletePoll

-----------------------------------------------------------------------------
(* The service, the source and faults.                                     *)

\* The service answers p: what it names is in the library p asked about.
LEMMA ReplyLodged ==
    ASSUME TypeInv, LibInv, LibsKept, NEW p \in Tasks, task[p].pc \in Await,
           NEW a \in Answers, NEW d \in DocIds \cup {NoDoc},
           a \in {"found", "created"} => Lodges(docs', d, task[p].lib), Reply(p, a, d)
    PROVE  TasksLodged'
<1> DEFINE t == task[p]
           u == [t EXCEPT !.answer = a, !.got = d]
<1>1. t \in Task /\ Lodged(docs', t)
  BY TaskLodged, LodgedKept
<1>2. /\ u.pc = t.pc /\ u.ref = t.ref /\ u.todo = t.todo /\ u.before = t.before
      /\ u.doc = t.doc /\ u.got = d /\ u.answer = a /\ u.lib = t.lib /\ u.home = t.home
  BY <1>1 DEF Task
<1>3. Become(p, u)
  BY DEF Reply, Become
<1> HIDE DEF u
<1>4. Subject(u) = Subject(t)
  BY <1>2 DEF Subject
<1>5. Lodged(docs', u)
  BY <1>1, <1>2, <1>4 DEF Lodged, Await
<1>6. QED
  BY <1>3, <1>5, BecomeLodged

\* Whatever the service does to documents, rows go on naming what they named.
LEMMA RowsKept ==
    ASSUME TypeInv, LibInv, LibsKept, UNCHANGED cursor
    PROVE  RowsLodged'
<1>1. ASSUME NEW i \in Items, Strict(i)
      PROVE  RowLodged(docs', cursor[i])
  <2>1. cursor[i] \in Row \cup {NoRow} /\ RowLodged(docs, cursor[i])
    BY <1>1 DEF TypeInv, Local, CursorTypeOK, LibInv, RowsLodged
  <2>2. QED
    BY <2>1, RowLodgedKept
<1>2. QED
  BY <1>1 DEF RowsLodged, RowLodged, Lodges

LEMMA TasksKept ==
    ASSUME TypeInv, LibInv, LibsKept, UNCHANGED task
    PROVE  TasksLodged'
<1>1. \A p \in Tasks : Lodged(docs', task[p])
  BY TaskLodged, LodgedKept
<1>2. QED
  BY <1>1 DEF TasksLodged, Lodged, RowLodged, Lodges

LEMMA StillLodged ==
    ASSUME TypeInv, LibInv, UNCHANGED <<cursor, task>>, UNCHANGED docs
    PROVE  LibInv'
  BY UnmovedKeeps, RowsKept, TasksKept DEF LibInv

LEMMA ServeFindLodged ==
    ASSUME TypeInv, LibInv, NEW p \in Tasks, ServeFind(p)
    PROVE  LibInv'
<1>1. UNCHANGED docs /\ UNCHANGED cursor /\ task[p].pc \in Await
  BY DEF ServeFind, Waits, ragVars, Await
<1>2. CASE Reply(p, "absent", NoDoc)
  <2>1. TasksLodged'
    BY <1>1, <1>2, UnmovedKeeps, ReplyLodged DEF Answers
  <2>2. QED
    BY <1>1, <2>1, UnmovedKeeps, RowsKept DEF LibInv
<1>3. ASSUME NEW d \in Matches(task[p].lib, Subject(task[p])), Reply(p, "found", d)
      PROVE  LibInv'
  <2>1. Lodges(docs', d, task[p].lib)
    BY <1>1 DEF Matches, Lodges
  <2>2. TasksLodged'
    BY <1>1, <1>3, <2>1, UnmovedKeeps, ReplyLodged DEF Answers, Lodges
  <2>3. QED
    BY <1>1, <2>2, UnmovedKeeps, RowsKept DEF LibInv
<1>4. QED
  BY <1>2, <1>3 DEF ServeFind

LEMMA ServeFetchLodged ==
    ASSUME TypeInv, LibInv, NEW p \in Tasks, ServeFetch(p)
    PROVE  LibInv'
<1> DEFINE t == task[p]
           u == [t EXCEPT !.answer = "fetched", !.todo = Fetched(t)]
<1>1. UNCHANGED docs /\ UNCHANGED cursor /\ t.pc = "fetch" /\ t \in Task /\ Lodged(docs, t)
  BY TaskLodged DEF ServeFetch, Waits, ragVars
<1>2. CASE Reply(p, "absent", NoDoc)
  <2>1. TasksLodged'
    BY <1>1, <1>2, UnmovedKeeps, ReplyLodged DEF Answers, Await
  <2>2. QED
    BY <1>1, <2>1, UnmovedKeeps, RowsKept DEF LibInv
<1>3. CASE Become(p, u)
  <2> HIDE DEF t
  <2>1. u.pc = "fetch" /\ u.answer = "fetched" /\ u.ref = t.ref /\ u.before = t.before
    BY <1>1 DEF Task
  <2> HIDE DEF u
  <2>2. Lodged(docs, u)
    BY <1>1, <2>1 DEF Lodged
  <2>3. QED
    BY <1>1, <1>3, <2>2, LibQuiet
<1>4. QED
  BY <1>2, <1>3 DEF ServeFetch

\* A created document is in the library it was created in; no other moves.
LEMMA ServeCreateLodged ==
    ASSUME TypeInv, LibInv, NEW p \in Tasks, ServeCreate(p)
    PROVE  LibInv'
<1> DEFINE t == task[p]
           i == Subject(t)
           c == Head(t.todo).payload
<1>1. UNCHANGED cursor /\ t.pc \in Await /\ t.lib \in Libraries /\ Unhoused
      /\ docs \in [DocIds -> Document]
  BY TaskFacts DEF ServeCreate, Waits, Await, LibInv, TypeInv, IronRagTypeOK
<1>2. PICK d \in DocIds \cup {NoDoc} :
             \/ AddDocument(t.lib, i, c, d) /\ Reply(p, "created", d)
             \/ RefuseDuplicate(t.lib, i, c, d) /\ Reply(p, "duplicate", d)
  BY DEF ServeCreate
<1>3. "created" \in Answers /\ "duplicate" \in Answers
  BY DEF Answers
<1> HIDE DEF i, c
<1>4. CASE AddDocument(t.lib, i, c, d) /\ Reply(p, "created", d)
  <2> DEFINE new == [state |-> "active", lib |-> t.lib, key |-> i, content |-> c]
  <2>1. d \in DocIds /\ docs[d].state = "free"
    BY <1>4 DEF AddDocument, Free
  <2>2. docs' = [docs EXCEPT ![d] = new]
    BY <1>4 DEF AddDocument
  <2>3. new.lib = t.lib /\ new.state = "active"
    OBVIOUS
  <2> HIDE DEF new
  <2>4. \A e \in DocIds : docs'[e] = IF e = d THEN new ELSE docs[e]
    BY <1>1, <2>1, <2>2
  <2>5. docs[d].lib \notin Libraries
    BY <1>1, <2>1, NoDocAssumption DEF Unhoused
  <2>6. LibsKept /\ Unhoused'
    BY <1>1, <2>3, <2>4, <2>5 DEF LibsKept, Unhoused
  <2>7. Lodges(docs', d, t.lib)
    BY <2>1, <2>3, <2>4 DEF Lodges
  <2>8. TasksLodged'
    BY <1>1, <1>3, <1>4, <2>1, <2>6, <2>7, ReplyLodged
  <2>9. QED
    BY <1>1, <2>6, <2>8, RowsKept DEF LibInv
<1>5. CASE RefuseDuplicate(t.lib, i, c, d) /\ Reply(p, "duplicate", d)
  <2>1. UNCHANGED docs
    BY <1>5 DEF RefuseDuplicate
  <2>2. TasksLodged'
    BY <1>1, <1>3, <1>5, <2>1, UnmovedKeeps, ReplyLodged
  <2>3. QED
    BY <1>1, <2>1, <2>2, UnmovedKeeps, RowsKept DEF LibInv
<1>6. QED
  BY <1>2, <1>4, <1>5

LEMMA MutationLodged ==
    ASSUME TypeInv, LibInv, NEW p \in Tasks, ServeRevise(p) \/ ServeDelete(p)
    PROVE  LibInv'
<1>1. UNCHANGED docs /\ UNCHANGED cursor /\ task[p].pc \in Await
  BY DEF ServeRevise, ServeDelete, Waits, Await, RefuseGone, RefuseBusy, Dedupe, Admit
<1>2. PICK a \in {"notfound", "conflict", "accepted"} : Reply(p, a, NoDoc)
  BY DEF ServeRevise, ServeDelete
<1>3. TasksLodged'
  BY <1>1, <1>2, UnmovedKeeps, ReplyLodged DEF Answers
<1>4. QED
  BY <1>1, <1>3, UnmovedKeeps, RowsKept DEF LibInv

\* A document's bytes and state change; it stays in its library, and is not free.
LEMMA ContentLodged ==
    ASSUME TypeInv, LibInv, UNCHANGED <<cursor, task>>, NEW d \in DocIds,
           NEW new, docs' = [docs EXCEPT ![d] = new], new.lib = docs[d].lib,
           new.state \in {"deleted", docs[d].state}
    PROVE  LibInv'
<1>1. \A e \in DocIds : docs'[e] = IF e = d THEN new ELSE docs[e]
  BY DEF TypeInv, IronRagTypeOK
<1>2. LibsKept
  BY <1>1 DEF LibsKept
<1>3. Unhoused'
  BY <1>1 DEF LibInv, Unhoused
<1>4. QED
  BY <1>2, <1>3, RowsKept, TasksKept DEF LibInv

LEMMA BuryLodged ==
    ASSUME TypeInv, LibInv, UNCHANGED <<cursor, task>>, NEW d \in DocIds, Bury(d)
    PROVE  LibInv'
<1> DEFINE new == [docs[d] EXCEPT !.state = "deleted", !.content = NoPayload]
<1>1. docs \in [DocIds -> Document] /\ docs[d] \in Document
  BY DEF TypeInv, IronRagTypeOK
<1>2. docs' = [docs EXCEPT ![d] = new]
  BY <1>1 DEF Bury
<1>3. new.lib = docs[d].lib /\ new.state = "deleted"
  BY <1>1 DEF Document
<1> HIDE DEF new
<1>4. QED
  BY <1>2, <1>3, ContentLodged

LEMMA SettleLodged ==
    ASSUME TypeInv, LibInv, NEW d \in DocIds, NEW k \in OpKeys, Settle(d, k)
    PROVE  LibInv'
<1>1. Apply(d, k) /\ UNCHANGED <<cursor, task>>
  BY DEF Settle
<1>2. CASE k = Deletion
  BY <1>1, <1>2, BuryLodged DEF Apply
<1>3. CASE k # Deletion
  <2> DEFINE new == [docs[d] EXCEPT !.content = k[2]]
  <2>1. docs \in [DocIds -> Document] /\ docs[d] \in Document
    BY DEF TypeInv, IronRagTypeOK
  <2>2. docs' = [docs EXCEPT ![d] = new]
    BY <1>1, <1>3, <2>1 DEF Apply
  <2>3. new.lib = docs[d].lib /\ new.state = docs[d].state
    BY <2>1 DEF Document
  <2> HIDE DEF new
  <2>4. QED
    BY <1>1, <2>2, <2>3, ContentLodged
<1>4. QED
  BY <1>2, <1>3

LEMMA ServiceLodged ==
    ASSUME TypeInv, LibInv, Service
    PROVE  LibInv'
<1>1. ASSUME NEW d \in DocIds, Remove(d)
      PROVE  LibInv'
  BY <1>1, BuryLodged DEF Remove, RemoveByHand
<1>2. ASSUME NEW d \in DocIds, NEW k \in OpKeys, Misfire(d, k)
      PROVE  LibInv'
  BY <1>2, StillLodged DEF Misfire, Abandon
<1>3. QED
  BY <1>1, <1>2, SettleLodged DEF Service

\* The seeder writes the document it listed, and the library it listed it in.
LEMMA SeedLodged ==
    ASSUME TypeInv, LibInv, NEW d \in DocIds, Seed(d)
    PROVE  LibInv'
<1>1. CursorTypeOK /\ RowsLodged /\ docs[d].key \in Items /\ UNCHANGED docs /\ UNCHANGED task
  BY DEF TypeInv, Local, LibInv, Seed, ragVars
<1>2. Lodges(docs, d, docs[d].lib)
  BY DEF Lodges
<1>3. RowsLodged'
  BY <1>1, <1>2, UpsertLodged DEF Seed
<1>4. QED
  BY <1>1, <1>3, UnmovedKeeps, TasksKept DEF LibInv

\* A process that starts again, or a call whose outcome was taken, holds nothing.
LEMMA BlankLodged ==
    ASSUME NEW D, NEW i, NEW tok
    PROVE  Lodged(D, Blank(i, tok))
<1>1. Blank(i, tok).before = NoRow /\ Blank(i, tok).answer = "none" /\ Blank(i, tok).pc = "idle"
  BY DEF Blank
<1>2. QED
  BY <1>1, FreshLodged

LEMMA CrashLodged ==
    ASSUME TypeInv, LibInv, Crash
    PROVE  LibInv'
<1>1. UNCHANGED docs /\ UNCHANGED cursor
  BY DEF Crash, ragVars
<1>2. \A p \in Tasks : task'[p] = Blank(AnItem, NoToken)
  BY DEF Crash
<1>3. \A p \in Tasks : Lodged(docs', task'[p])
  BY <1>2, BlankLodged
<1>4. TasksLodged'
  BY <1>3 DEF TasksLodged, Lodged, RowLodged, Lodges
<1>5. QED
  BY <1>1, <1>4, UnmovedKeeps, RowsKept DEF LibInv

LEMMA LibInit == Init => LibInv
<1> SUFFICES ASSUME Init PROVE LibInv
  OBVIOUS
<1>1. RowsLodged
  BY DEF Init, CursorInit, RowsLodged, RowLodged
<1>2. TasksLodged
  <2>1. \A p \in Tasks : task[p] = Blank(AnItem, NoToken)
    BY DEF Init
  <2>2. QED
    BY <2>1, BlankLodged DEF TasksLodged
<1>3. Unhoused
  BY DEF Init, IronRagInit, FreeDoc, Unhoused
<1>4. QED
  BY <1>1, <1>2, <1>3 DEF LibInv

LEMMA LibStep == TypeInv /\ LibInv /\ [Next]_vars => LibInv'
<1> SUFFICES ASSUME TypeInv, LibInv, [Next]_vars PROVE LibInv'
  OBVIOUS
<1>1. CASE UNCHANGED vars
  BY <1>1, StillLodged DEF vars
<1>2. ASSUME NEW p \in Tasks, Call(p)
      PROVE  LibInv'
  <2>1. PICK i \in Items : \/ \E tok \in Versions : PushRef(p, i, tok)
                           \/ DeleteByRef(p, i)
                           \/ \E d \in DocIds : ReapOrphan(p, i, d)
    BY <1>2 DEF Call
  <2>2. QED
    BY <2>1, PushRefLodged, DeleteByRefLodged, ReapOrphanLodged DEF Tokens
<1>3. ASSUME NEW p \in Tasks, Run(p)
      PROVE  LibInv'
  BY <1>3, ResumeLookupLodged, ResumeFetchLodged, PushItemLodged, ResumeFindLodged,
     ResumeCreateLodged, ResumeReviseLodged, PollLodged, ResumeDeleteLookupLodged,
     ResumeDeleteLodged DEF Run
<1>4. ASSUME NEW p \in Tasks, Serve(p)
      PROVE  LibInv'
  BY <1>4, ServeFindLodged, ServeFetchLodged, ServeCreateLodged, MutationLodged DEF Serve
<1>5. ASSUME NEW p \in Tasks, Abort(p)
      PROVE  LibInv'
  BY <1>5, RaiseLodged DEF Abort, ragVars
<1>6. ASSUME NEW p \in Tasks, Collect(p)
      PROVE  LibInv'
  BY <1>6, BlankLodged, LibQuiet DEF Collect, ragVars
<1>7. CASE Source \/ ResetSweepCache
  BY <1>7, StillLodged DEF Source, Edit, Vanish, Reroute, ResetSweepCache, ragVars
<1>8. CASE Seeder
  BY <1>8, SeedLodged DEF Seeder
<1>9. QED
  BY <1>1, <1>2, <1>3, <1>4, <1>5, <1>6, <1>7, <1>8, ServiceLodged, CrashLodged DEF Next

LEMMA LibInvLodges == LibInv => RowInLibrary
  BY DEF LibInv, RowsLodged, RowLodged, Lodges, RowInLibrary, Strict, Has

\* Rows name documents of their own library, for any number of items, libraries,
\* calls and routes: however an item is sent from one library to another and
\* back while its pushes, deferrals and restores are under way, document and
\* library of its row go together, provided duplicates of its kind are refused
\* (state.py: the upsert's COALESCE keeps an old document beside a new library
\* when it is given none; only an adopted duplicate gives it none).
THEOREM RowsInLibrary == Spec => []RowInLibrary
<1>1. Init => TypeInv /\ LibInv
  BY TypeInit, LibInit
<1>2. TypeInv /\ LibInv /\ [Next]_vars => (TypeInv /\ LibInv)'
  BY TypeStep, LibStep
<1>3. TypeInv /\ LibInv => RowInLibrary
  BY LibInvLodges
<1>4. QED
  BY <1>1, <1>2, <1>3, PTL DEF Spec
=============================================================================
