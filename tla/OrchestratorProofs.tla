-------------------------- MODULE OrchestratorProofs --------------------------
(***************************************************************************)
(* Type correctness of Orchestrator, for every value of its constants.     *)
(*                                                                         *)
(* TypeOK alone is not inductive: that a cursor row gets a library, and a  *)
(* document a key, rests on where a task stands (WellFormed) and on the    *)
(* documents that have a key being in a library (Housed).                  *)
(***************************************************************************)
EXTENDS Orchestrator, SequenceTheorems, TLAPS

\* A task in push_item has an item to push, and a task at an await has a library.
WellFormed(t) ==
    /\ t.pc \in {"item", "find", "create", "revise", "poll"} => t.todo # <<>>
    /\ t.pc = "fetch" /\ t.answer = "fetched" => t.todo # <<>>
    /\ t.pc \notin {"idle", "done"} => t.home \in Libraries /\ t.lib \in Libraries

\* A document with a key is in a library.
Housed == \A d \in DocIds : docs[d].key # NoDoc => docs[d].lib # NoDoc

SourceOK == /\ version \in [Items -> Versions]
            /\ live \in [Items -> BOOLEAN]
            /\ route \in [Items -> Libraries \cup {Unrouted}]

PushedOK == pushed \in [Libraries \X Items -> DocIds \cup {NoDoc, NotPushed}]

TasksOK  == /\ task \in [Tasks -> Task]
            /\ \A p \in Tasks : WellFormed(task[p])

\* What a step of a coroutine changes.
Local    == CursorTypeOK /\ PushedOK /\ TasksOK

TypeInv  == /\ SourceOK
            /\ Local
            /\ IronRagTypeOK /\ Housed
            /\ faults \in 0 .. MaxFaults

-----------------------------------------------------------------------------
(* The operators that build a task.                                        *)

\* Blank and Outcome give tasks that hold nothing.
LEMMA BlankType ==
    ASSUME NEW i \in Items, NEW tok \in Tokens
    PROVE  /\ Blank(i, tok) \in Task
           /\ WellFormed(Blank(i, tok))
           /\ Blank(i, tok).todo = <<>>
           /\ Blank(i, tok).ref = i
           /\ Blank(i, tok).doc = NoDoc
           /\ Blank(i, tok).got = NoDoc
           /\ Blank(i, tok).before = NoRow
  BY DEF Blank, Task, WellFormed, PC, Await, Answers, Actions

LEMMA AnItemIsOne == AnItem \in Items
  BY ItemsAssumption DEF AnItem

LEMMA OutcomeType ==
    ASSUME NEW t \in Task, NEW a \in Actions, NEW b \in BOOLEAN
    PROVE  /\ Outcome(t, a, b) \in Task
           /\ WellFormed(Outcome(t, a, b))
           /\ Outcome(t, a, b).todo = <<>>
           /\ Outcome(t, a, b).ref = t.ref
           /\ Outcome(t, a, b).doc = NoDoc
           /\ Outcome(t, a, b).got = NoDoc
           /\ Outcome(t, a, b).before = NoRow
           /\ Outcome(t, a, b).pc = "done"
<1> DEFINE u == Blank(t.ref, t.token)
<1>1. t.ref \in Items /\ t.token \in Tokens /\ t.home \in Libraries \cup {Unrouted}
  BY DEF Task
<1>2. /\ u \in Task
      /\ u.todo = <<>> /\ u.ref = t.ref /\ u.doc = NoDoc /\ u.got = NoDoc
      /\ u.before = NoRow
  BY <1>1, BlankType
<1>3. Outcome(t, a, b) = [u EXCEPT !.pc = "done", !.home = t.home,
                                   !.action = a, !.deferred = b]
  BY DEF Outcome
<1> HIDE DEF u
<1>4. Outcome(t, a, b) \in Task
  BY <1>1, <1>2, <1>3 DEF Task, PC
<1>5. /\ Outcome(t, a, b).todo = <<>>
      /\ Outcome(t, a, b).ref = t.ref
      /\ Outcome(t, a, b).doc = NoDoc
      /\ Outcome(t, a, b).got = NoDoc
      /\ Outcome(t, a, b).before = NoRow
      /\ Outcome(t, a, b).pc = "done"
  BY <1>2, <1>3 DEF Task
<1>6. QED
  BY <1>4, <1>5 DEF WellFormed

\* Ask moves a task to an await and keeps what it is about.
LEMMA AskType ==
    ASSUME NEW t \in Task, NEW pc \in PC, NEW d \in DocIds \cup {NoDoc}
    PROVE  /\ Ask(t, pc, d) \in Task
           /\ Ask(t, pc, d).pc = pc
           /\ Ask(t, pc, d).answer = "none"
           /\ Ask(t, pc, d).ref = t.ref
           /\ Ask(t, pc, d).home = t.home
           /\ Ask(t, pc, d).lib = t.lib
           /\ Ask(t, pc, d).todo = t.todo
           /\ Ask(t, pc, d).before = t.before
           /\ Ask(t, pc, d).doc = d
           /\ Ask(t, pc, d).got = NoDoc
  BY DEF Ask, Task, Answers

\* The item a task deals with is an item, and what it pushes is one it was given.
LEMMA SubjectType ==
    ASSUME NEW t \in Task
    PROVE  /\ Subject(t) \in Items
           /\ t.todo # <<>> => /\ Head(t.todo) \in SourceItem
                              /\ Subject(t) = Head(t.todo).item
                              /\ Tail(t.todo) \in Seq(SourceItem)
<1>1. t.todo \in Seq(SourceItem) /\ t.ref \in Items
  BY DEF Task
<1>2. CASE t.todo = <<>>
  BY <1>1, <1>2 DEF Subject
<1>3. CASE t.todo # <<>>
  <2>1. Head(t.todo) \in SourceItem /\ Tail(t.todo) \in Seq(SourceItem)
    BY <1>1, <1>3, HeadTailProperties
  <2>2. QED
    BY <1>3, <2>1 DEF Subject, SourceItem
<1>4. QED
  BY <1>2, <1>3

\* NextItem goes on to an item that has a library, or ends the call.
LEMMA NextItemType ==
    ASSUME NEW t \in Task, t.todo # <<>>, t.home \in Libraries, SourceOK,
           NEW a \in Actions
    PROVE  /\ NextItem(t, a) \in Task
           /\ WellFormed(NextItem(t, a))
           /\ NextItem(t, a).todo = Tail(t.todo)
           /\ NextItem(t, a).ref = t.ref
           /\ NextItem(t, a).doc = NoDoc
           /\ NextItem(t, a).got = NoDoc
           /\ NextItem(t, a).before \in {NoRow, t.before}
           /\ NextItem(t, a).pc \in {"item", "done"}
<1> DEFINE rest == Tail(t.todo)
           main == IF IsPrimary(t) THEN a ELSE t.action
<1>1. rest \in Seq(SourceItem)
  BY SubjectType
<1>2. main \in Actions
  BY DEF Task
<1>3. CASE rest = <<>>
  <2>1. NextItem(t, a) = Outcome(t, main, FALSE)
    BY <1>3 DEF NextItem
  <2> HIDE DEF main
  <2>2. /\ Outcome(t, main, FALSE) \in Task
        /\ WellFormed(Outcome(t, main, FALSE))
        /\ Outcome(t, main, FALSE).todo = <<>>
        /\ Outcome(t, main, FALSE).ref = t.ref
        /\ Outcome(t, main, FALSE).doc = NoDoc
        /\ Outcome(t, main, FALSE).got = NoDoc
        /\ Outcome(t, main, FALSE).before = NoRow
        /\ Outcome(t, main, FALSE).pc = "done"
    BY <1>2, OutcomeType, Zenon
  <2>3. QED
    BY <1>3, <2>1, <2>2
<1>4. CASE rest # <<>>
  <2> DEFINE u == Ask(t, "item", NoDoc)
             l == DependentLibrary(t, Head(rest).item)
  <2>1. Head(rest).item \in Items
    <3>1. Head(rest) \in SourceItem
      BY <1>1, <1>4, HeadTailProperties, Zenon
    <3>2. QED
      BY <3>1 DEF SourceItem
  <2>2. l \in Libraries
    BY <2>1 DEF DependentLibrary, SourceOK
  <2>3. NextItem(t, a) = [u EXCEPT !.todo = rest, !.lib = l, !.action = main]
    BY <1>4 DEF NextItem
  <2>4. /\ u \in Task
        /\ u.pc = "item" /\ u.home = t.home /\ u.ref = t.ref
        /\ u.doc = NoDoc /\ u.got = NoDoc /\ u.before = t.before
    BY AskType DEF PC
  <2> HIDE DEF u, l, main, rest
  <2>5. NextItem(t, a) \in Task
    BY <1>1, <1>2, <2>2, <2>3, <2>4 DEF Task
  <2>6. LET n == NextItem(t, a)
        IN  /\ n.todo = rest /\ n.lib = l /\ n.pc = "item" /\ n.home = t.home
            /\ n.ref = t.ref /\ n.doc = NoDoc /\ n.got = NoDoc /\ n.before = t.before
    BY <2>3, <2>4 DEF Task
  <2>7. WellFormed(NextItem(t, a))
    BY <1>4, <2>2, <2>6 DEF WellFormed
  <2>8. QED
    BY <2>5, <2>6, <2>7 DEF rest
<1>5. QED
  BY <1>3, <1>4

-----------------------------------------------------------------------------
(* The steps that handlers share.                                          *)

\* A step that gives one task a well-formed value leaves the tasks typed.
LEMMA BecomeType ==
    ASSUME TasksOK, NEW p \in Tasks, NEW t \in Task, WellFormed(t), Become(p, t)
    PROVE  TasksOK'
<1>1. task' = [task EXCEPT ![p] = t]
  BY DEF Become
<1>2. task' \in [Tasks -> Task]
  BY <1>1 DEF TasksOK
<1>3. ASSUME NEW q \in Tasks
      PROVE  WellFormed(task'[q])
  <2>1. CASE q = p
    <3>1. task'[q] = t
      BY <1>1, <2>1 DEF TasksOK
    <3>2. QED
      BY <3>1
  <2>2. CASE q # p
    <3>1. task'[q] = task[q]
      BY <1>1, <2>2 DEF TasksOK
    <3>2. QED
      BY <3>1 DEF TasksOK
  <2>3. QED
    BY <2>1, <2>2
<1>4. QED
  BY <1>2, <1>3 DEF TasksOK, WellFormed

\* An answer leaves the task what it was.
LEMMA ReplyType ==
    ASSUME TasksOK, NEW p \in Tasks, NEW a \in Answers \ {"fetched"},
           NEW d \in DocIds \cup {NoDoc}, Reply(p, a, d)
    PROVE  TasksOK'
<1> DEFINE u == [task[p] EXCEPT !.answer = a, !.got = d]
<1>1. task[p] \in Task /\ WellFormed(task[p])
  BY DEF TasksOK
<1>2. u \in Task
  BY <1>1 DEF Task
<1>3. /\ u.pc = task[p].pc /\ u.answer = a /\ u.todo = task[p].todo
      /\ u.home = task[p].home /\ u.lib = task[p].lib
  BY <1>1 DEF Task
<1>4. WellFormed(u)
  <2> HIDE DEF u
  <2> QED
    BY <1>1, <1>3 DEF WellFormed
<1>5. Become(p, u)
  BY DEF Become, Reply
<1> HIDE DEF u
<1>6. QED
  BY <1>2, <1>4, <1>5, BecomeType

\* A step of a coroutine changes nothing but its own part of the state.
LEMMA LocalType ==
    ASSUME TypeInv, Local', UNCHANGED <<srcVars, ragVars, faults>>
    PROVE  TypeInv'
  BY DEF TypeInv, SourceOK, IronRagTypeOK, Housed, srcVars, ragVars

\* The cursor's operations keep its rows rows.
LEMMA UpsertType ==
    ASSUME CursorTypeOK, NEW i \in Items, NEW t \in Tokens,
           NEW d \in DocIds \cup {NoDoc}, NEW l \in Libraries, Upsert(i, t, d, l)
    PROVE  CursorTypeOK'
<1>1. KeptDoc(i, d) \in DocIds \cup {NoDoc}
  BY DEF KeptDoc, Has, CursorTypeOK, Row
<1> DEFINE row == [token |-> t, doc |-> KeptDoc(i, d), lib |-> l]
<1>2. row \in Row
  BY <1>1 DEF Row
<1>3. cursor' = [cursor EXCEPT ![i] = row]
  BY DEF Upsert
<1> HIDE DEF row
<1>4. QED
  BY <1>2, <1>3 DEF CursorTypeOK

LEMMA BackfillType ==
    ASSUME CursorTypeOK, NEW i \in Items, NEW d \in DocIds \cup {NoDoc},
           NEW l \in Libraries, Backfill(i, d, l)
    PROVE  CursorTypeOK'
<1>1. CASE Has(i)
  <2> DEFINE row == [cursor[i] EXCEPT !.doc = d, !.lib = l]
  <2>1. row \in Row
    BY <1>1 DEF Has, CursorTypeOK, Row
  <2>2. cursor' = [cursor EXCEPT ![i] = row]
    BY <1>1 DEF Backfill, CursorTypeOK
  <2> HIDE DEF row
  <2>3. QED
    BY <2>1, <2>2 DEF CursorTypeOK
<1>2. CASE ~Has(i)
  BY <1>2 DEF Backfill, CursorTypeOK
<1>3. QED
  BY <1>1, <1>2

LEMMA RestoreType ==
    ASSUME CursorTypeOK, NEW i \in Items, NEW row \in Row \cup {NoRow},
           Restore(i, row) \/ (Delete(i) /\ row = NoRow)
    PROVE  CursorTypeOK'
  BY DEF CursorTypeOK, Restore, Delete

LEMMA RememberType ==
    ASSUME PushedOK, NEW p \in Tasks, NEW d \in DocIds \cup {NoDoc}, Remember(p, d)
    PROVE  PushedOK'
  BY DEF PushedOK, Remember

\* A task in push_item with a library.
Pushing(t) == t.todo # <<>> /\ t.home \in Libraries /\ t.lib \in Libraries

LEMMA HandledType ==
    ASSUME TypeInv, NEW p \in Tasks, Pushing(task[p]),
           NEW d \in DocIds \cup {NoDoc}, NEW a \in Actions, Handled(p, d, a)
    PROVE  Local'
<1> DEFINE t == task[p]
<1>1. t \in Task /\ CursorTypeOK /\ PushedOK /\ TasksOK /\ SourceOK
  BY DEF TypeInv, Local, TasksOK
<1>2. Subject(t) \in Items /\ Head(t.todo).token \in Tokens
  BY <1>1, SubjectType DEF Pushing, SourceItem
<1>3. CursorTypeOK'
  BY <1>1, <1>2, UpsertType DEF Handled, Pushing
<1>4. PushedOK'
  BY <1>1, RememberType DEF Handled
<1>5. NextItem(t, a) \in Task /\ WellFormed(NextItem(t, a))
  BY <1>1, NextItemType DEF Pushing
<1>6. TasksOK'
  BY <1>1, <1>5, BecomeType DEF Handled
<1>7. QED
  BY <1>3, <1>4, <1>6 DEF Local

LEMMA DeferType ==
    ASSUME TypeInv, NEW p \in Tasks, Defer(p)
    PROVE  Local'
<1> DEFINE t == task[p]
<1>1. t \in Task /\ CursorTypeOK /\ PushedOK /\ TasksOK
  BY DEF TypeInv, Local, TasksOK
<1>2. /\ t.ref \in Items /\ t.before \in Row \cup {NoRow}
      /\ t.doc \in DocIds \cup {NoDoc} /\ t.action \in Actions
  BY <1>1 DEF Task
<1>3. PushedOK'
  BY <1>1, <1>2, RememberType DEF Defer
<1>4. CursorTypeOK'
  BY <1>1, <1>2, RestoreType DEF Defer, CursorTypeOK
<1>5. "skipped_changed" \in Actions /\ TRUE \in BOOLEAN
  BY DEF Actions
<1>6. \A a \in Actions : Outcome(t, a, TRUE) \in Task /\ WellFormed(Outcome(t, a, TRUE))
  BY <1>1, <1>5, OutcomeType, Zenon
<1>7. \E a \in Actions : Become(p, Outcome(t, a, TRUE))
  BY <1>2, <1>5 DEF Defer
<1>8. TasksOK'
  BY <1>1, <1>6, <1>7, BecomeType
<1>9. QED
  BY <1>3, <1>4, <1>8 DEF Local

\* A call that ends, and changes nothing else.
LEMMA EndType ==
    ASSUME TasksOK, NEW p \in Tasks, NEW t \in Task, NEW a \in Actions,
           Become(p, Outcome(t, a, FALSE))
    PROVE  TasksOK'
<1>1. Outcome(t, a, FALSE) \in Task /\ WellFormed(Outcome(t, a, FALSE))
  BY OutcomeType, Zenon
<1>2. QED
  BY <1>1, BecomeType

LEMMA RaiseType ==
    ASSUME TypeInv, NEW p \in Tasks, Raise(p)
    PROVE  Local'
<1>1. TasksOK /\ task[p] \in Task /\ "error" \in Actions
  BY DEF TypeInv, Local, TasksOK, Actions
<1>2. TasksOK'
  BY <1>1, EndType DEF Raise
<1>3. QED
  BY <1>2 DEF TypeInv, Local, Raise, CursorTypeOK, PushedOK

\* A task that goes on to an await in a library.
LEMMA AskStep ==
    ASSUME TasksOK, NEW p \in Tasks, NEW t \in Task, NEW pc \in PC,
           NEW d \in DocIds \cup {NoDoc},
           t.home \in Libraries, t.lib \in Libraries,
           pc \in {"item", "find", "create", "revise", "poll"} => t.todo # <<>>,
           Become(p, Ask(t, pc, d))
    PROVE  TasksOK'
<1>1. /\ Ask(t, pc, d) \in Task
      /\ Ask(t, pc, d).pc = pc
      /\ Ask(t, pc, d).answer = "none"
      /\ Ask(t, pc, d).home = t.home
      /\ Ask(t, pc, d).lib = t.lib
      /\ Ask(t, pc, d).todo = t.todo
  BY AskType
<1>2. WellFormed(Ask(t, pc, d))
  BY <1>1 DEF WellFormed
<1>3. QED
  BY <1>1, <1>2, BecomeType

-----------------------------------------------------------------------------
(* push_ref.                                                               *)

\* What the invariant says of one task.
LEMMA TaskFacts ==
    ASSUME TypeInv, NEW p \in Tasks
    PROVE  /\ TasksOK /\ CursorTypeOK /\ PushedOK /\ SourceOK
           /\ task[p] \in Task /\ WellFormed(task[p])
           /\ task[p].ref \in Items /\ task[p].token \in Tokens
           /\ task[p].doc \in DocIds \cup {NoDoc}
           /\ task[p].got \in DocIds \cup {NoDoc}
           /\ task[p].pc \in {"item", "find", "create", "revise", "poll"}
                 => Pushing(task[p])
           /\ task[p].pc \notin {"idle", "done"}
                 => task[p].home \in Libraries /\ task[p].lib \in Libraries
<1>1. TasksOK /\ CursorTypeOK /\ PushedOK /\ SourceOK
  BY DEF TypeInv, Local
<1>2. task[p] \in Task /\ WellFormed(task[p])
  BY <1>1 DEF TasksOK
<1>3. /\ task[p].ref \in Items /\ task[p].token \in Tokens
      /\ task[p].doc \in DocIds \cup {NoDoc}
      /\ task[p].got \in DocIds \cup {NoDoc}
  BY <1>2 DEF Task
<1>4. QED
  BY <1>1, <1>2, <1>3 DEF WellFormed, Pushing

\* A coroutine's step that touches neither the cursor nor the cache.
LEMMA QuietType ==
    ASSUME TypeInv, TasksOK', UNCHANGED <<cursor, pushed>>,
           UNCHANGED <<srcVars, ragVars, faults>>
    PROVE  TypeInv'
<1>1. Local'
  BY DEF TypeInv, Local, CursorTypeOK, PushedOK
<1>2. QED
  BY <1>1, LocalType

LEMMA RoutedType ==
    ASSUME SourceOK, NEW i \in Items, NEW tok \in Tokens
    PROVE  /\ Routed(i, tok) \in Task
           /\ Routed(i, tok).home = route[i]
           /\ Routed(i, tok).lib = route[i]
           /\ Routed(i, tok).ref = i
           /\ Routed(i, tok).todo = <<>>
           /\ Routed(i, tok).doc = NoDoc
           /\ Routed(i, tok).got = NoDoc
           /\ Routed(i, tok).before = NoRow
<1> DEFINE u == Blank(i, tok)
<1>1. /\ u \in Task /\ u.ref = i /\ u.todo = <<>> /\ u.doc = NoDoc
      /\ u.got = NoDoc /\ u.before = NoRow
  BY BlankType
<1>2. Routed(i, tok) = [u EXCEPT !.home = route[i], !.lib = route[i]]
  BY DEF Routed
<1>3. route[i] \in Libraries \cup {Unrouted}
  BY DEF SourceOK
<1> HIDE DEF u
<1>4. Routed(i, tok) \in Task
  BY <1>1, <1>2, <1>3 DEF Task
<1>5. QED
  BY <1>1, <1>2, <1>4 DEF Task

LEMMA PushRefType ==
    ASSUME TypeInv, NEW p \in Tasks, NEW i \in Items, NEW tok \in Tokens,
           PushRef(p, i, tok)
    PROVE  TypeInv'
<1> DEFINE t == Routed(i, tok)
<1>1. SourceOK /\ TasksOK
  BY TaskFacts
<1>2. t \in Task /\ t.home = route[i] /\ t.lib = route[i]
  BY <1>1, RoutedType
<1>3. UNCHANGED <<srcVars, cursor, pushed, ragVars, faults>>
  BY DEF PushRef, Starts
<1> HIDE DEF t
<1>4. ASSUME NEW a \in Actions, Become(p, Outcome(t, a, FALSE))
      PROVE  TasksOK'
  BY <1>1, <1>2, <1>4, EndType
<1>5. ASSUME NEW pc \in {"lookup", "fetch"}, route[i] # Unrouted,
             Become(p, Ask(t, pc, NoDoc))
      PROVE  TasksOK'
  <2>1. t.home \in Libraries /\ t.lib \in Libraries
    BY <1>1, <1>2, <1>5 DEF SourceOK
  <2>2. QED
    BY <1>1, <1>2, <1>5, <2>1, AskStep DEF PC, Await
<1>6. \/ Become(p, Outcome(t, "unrouted", FALSE))
      \/ Become(p, Outcome(t, "noop_unchanged", FALSE))
      \/ route[i] # Unrouted /\ Become(p, Ask(t, "lookup", NoDoc))
      \/ route[i] # Unrouted /\ Become(p, Ask(t, "fetch", NoDoc))
  BY DEF PushRef, t
<1>7. TasksOK'
  BY <1>4, <1>5, <1>6 DEF Actions
<1>8. QED
  BY <1>3, <1>7, QuietType

LEMMA ServeFindType ==
    ASSUME TypeInv, NEW p \in Tasks, ServeFind(p)
    PROVE  TypeInv'
<1>1. UNCHANGED <<srcVars, cursor, pushed, ragVars, faults>>
  BY DEF ServeFind, Waits
<1>2. \/ \E d \in DocIds \cup {NoDoc} : Reply(p, "found", d)
      \/ Reply(p, "absent", NoDoc)
  BY DEF ServeFind, Matches
<1>3. TasksOK'
  BY <1>2, TaskFacts, ReplyType DEF Answers
<1>4. QED
  BY <1>1, <1>3, QuietType

LEMMA ResumeLookupType ==
    ASSUME TypeInv, NEW p \in Tasks, ResumeLookup(p)
    PROVE  TypeInv'
<1> DEFINE t == task[p]
<1>1. /\ TasksOK /\ CursorTypeOK /\ PushedOK /\ t \in Task
      /\ t.ref \in Items /\ t.got \in DocIds \cup {NoDoc}
      /\ t.home \in Libraries /\ t.lib \in Libraries
  BY TaskFacts DEF ResumeLookup, Resumes
<1>2. UNCHANGED <<srcVars, ragVars, faults>>
  BY DEF ResumeLookup, Resumes
<1>3. CASE Resumes(p, "lookup", "found")
  <2>1. /\ Backfill(t.ref, t.got, t.home) /\ UNCHANGED pushed
        /\ Become(p, Outcome(t, "noop_unchanged", FALSE))
    BY <1>3 DEF ResumeLookup, Resumes
  <2>2. CursorTypeOK'
    BY <1>1, <2>1, BackfillType
  <2>3. TasksOK'
    BY <1>1, <2>1, EndType DEF Actions
  <2>4. Local'
    BY <1>1, <2>1, <2>2, <2>3 DEF Local, PushedOK
  <2>5. QED
    BY <1>2, <2>4, LocalType
<1>4. CASE Resumes(p, "lookup", "absent")
  <2>1. /\ Become(p, Ask(t, "fetch", NoDoc))
        /\ UNCHANGED <<cursor, pushed>>
    BY <1>4 DEF ResumeLookup, Resumes
  <2>2. TasksOK'
    BY <1>1, <2>1, AskStep DEF PC, Await
  <2>3. QED
    BY <1>2, <2>1, <2>2, QuietType
<1>5. QED
  BY <1>3, <1>4 DEF ResumeLookup

\* What fetch returns is a sequence of source items that starts with the item
\* under the reference it was given.
LEMMA FetchedType ==
    ASSUME SourceOK, NEW t \in Task
    PROVE  /\ Fetched(t) \in Seq(SourceItem)
           /\ Fetched(t) # <<>>
           /\ Head(Fetched(t)).item = t.ref
           /\ \A k \in 1 .. Len(Fetched(t)) :
                 Fetched(t)[k].payload = Current(Fetched(t)[k].item)
<1> DEFINE D == Dependents[t.ref]
           first == [item |-> t.ref, token |-> t.token, payload |-> Current(t.ref)]
           rest  == [k \in 1 .. Len(D) |->
                        [item |-> D[k], token |-> version[D[k]],
                         payload |-> Current(D[k])]]
<1>1. \A i \in Items : Current(i) \in Payloads /\ version[i] \in Tokens
  BY BytesAssumption DEF Current, SourceOK, Tokens
<1>2. t.ref \in Items /\ t.token \in Tokens
  BY DEF Task
<1>3. D \in Seq(Items)
  BY <1>2, DependentsAssumption
<1>4. Len(D) \in Nat /\ \A k \in 1 .. Len(D) : D[k] \in Items
  BY <1>3, ElementOfSeq, LenProperties
<1>5. first \in SourceItem /\ first.item = t.ref /\ first.payload = Current(t.ref)
  BY <1>1, <1>2 DEF SourceItem
<1>6. ASSUME NEW k \in 1 .. Len(D)
      PROVE  /\ rest[k] \in SourceItem
             /\ rest[k].payload = Current(rest[k].item)
  BY <1>1, <1>4, <1>6 DEF SourceItem
<1>7. Fetched(t) = <<first>> \o rest
  BY DEF Fetched
<1>8. rest \in Seq(SourceItem) /\ Len(rest) = Len(D)
  <2>1. \A k \in 1 .. Len(D) : rest[k] \in SourceItem
    BY <1>6
  <2>2. rest \in [1 .. Len(D) -> SourceItem]
    BY <2>1, Zenon
  <2> HIDE DEF rest, D
  <2>3. QED
    BY <1>4, <2>2
<1>9. <<first>> \in Seq(SourceItem) /\ Len(<<first>>) = 1 /\ <<first>>[1] = first
  <2> HIDE DEF first
  <2> QED
    BY <1>5
<1> HIDE DEF first, rest, D
<1>10. /\ Fetched(t) \in Seq(SourceItem)
       /\ Len(Fetched(t)) = 1 + Len(D)
       /\ \A k \in 1 .. 1 + Len(D) :
             Fetched(t)[k] = IF k <= 1 THEN <<first>>[k] ELSE rest[k - 1]
  BY <1>7, <1>8, <1>9, ConcatProperties
<1>11. Fetched(t)[1] = first /\ Fetched(t) # <<>> /\ Head(Fetched(t)) = first
  BY <1>4, <1>9, <1>10
<1>12. ASSUME NEW k \in 1 .. 1 + Len(D)
       PROVE  Fetched(t)[k].payload = Current(Fetched(t)[k].item)
  <2>1. CASE k = 1
    BY <2>1, <1>5, <1>11
  <2>2. CASE k # 1
    <3>1. k - 1 \in 1 .. Len(D) /\ Fetched(t)[k] = rest[k - 1]
      BY <2>2, <1>4, <1>10
    <3>2. QED
      BY <3>1, <1>6
  <2>3. QED
    BY <2>1, <2>2
<1>13. QED
  BY <1>5, <1>10, <1>11, <1>12

LEMMA ServeFetchType ==
    ASSUME TypeInv, NEW p \in Tasks, ServeFetch(p)
    PROVE  TypeInv'
<1> DEFINE t == task[p]
           u == [t EXCEPT !.answer = "fetched", !.todo = Fetched(t)]
<1>1. TasksOK /\ SourceOK /\ t \in Task /\ WellFormed(t) /\ t.pc = "fetch"
  BY TaskFacts DEF ServeFetch, Waits
<1>2. UNCHANGED <<srcVars, cursor, pushed, ragVars, faults>>
  BY DEF ServeFetch, Waits
<1>3. ASSUME Become(p, u)
      PROVE  TasksOK'
  <2>1. Fetched(t) \in Seq(SourceItem) /\ Fetched(t) # <<>>
    BY <1>1, FetchedType
  <2> HIDE DEF t
  <2>2. u \in Task
    BY <1>1, <2>1 DEF Task, Answers
  <2>3. /\ u.pc = "fetch" /\ u.todo = Fetched(t)
        /\ u.home = t.home /\ u.lib = t.lib
    BY <1>1 DEF Task
  <2> HIDE DEF u
  <2>4. WellFormed(u)
    BY <1>1, <2>1, <2>3 DEF WellFormed
  <2>5. QED
    BY <1>1, <1>3, <2>2, <2>4, BecomeType
<1>4. Become(p, u) \/ Reply(p, "absent", NoDoc)
  BY DEF ServeFetch
<1>5. TasksOK'
  BY <1>1, <1>3, <1>4, ReplyType DEF Answers
<1>6. QED
  BY <1>2, <1>5, QuietType

LEMMA ResumeFetchType ==
    ASSUME TypeInv, NEW p \in Tasks, ResumeFetch(p)
    PROVE  TypeInv'
<1> DEFINE t == task[p]
           u == Ask(t, "item", NoDoc)
           n == [u EXCEPT !.before = cursor[t.ref]]
<1>1. /\ TasksOK /\ CursorTypeOK /\ t \in Task /\ WellFormed(t) /\ t.pc = "fetch"
      /\ t.ref \in Items
  BY TaskFacts DEF ResumeFetch, Resumes
<1>2. UNCHANGED <<srcVars, cursor, pushed, ragVars, faults>>
  BY DEF ResumeFetch, Resumes
<1>3. ASSUME t.answer = "fetched", Become(p, n)
      PROVE  TasksOK'
  <2>1. u \in Task /\ u.pc = "item" /\ u.todo = t.todo /\ u.home = t.home /\ u.lib = t.lib
    BY <1>1, AskType DEF PC
  <2>2. cursor[t.ref] \in Row \cup {NoRow}
    BY <1>1 DEF CursorTypeOK
  <2> HIDE DEF t, u
  <2>3. n \in Task
    BY <2>1, <2>2 DEF Task
  <2>4. n.pc = "item" /\ n.todo = t.todo /\ n.home = t.home /\ n.lib = t.lib
    BY <2>1 DEF Task
  <2> HIDE DEF n
  <2>5. WellFormed(n)
    BY <1>1, <1>3, <2>4 DEF WellFormed
  <2>6. QED
    BY <1>1, <1>3, <2>3, <2>5, BecomeType
<1>4. \/ t.answer = "fetched" /\ Become(p, n)
      \/ Become(p, Outcome(t, "fetch_returned_none", FALSE))
  BY DEF ResumeFetch, Resumes
<1>5. TasksOK'
  BY <1>1, <1>3, <1>4, EndType DEF Actions
<1>6. QED
  BY <1>2, <1>5, QuietType

-----------------------------------------------------------------------------
(* push_item.                                                              *)

\* push_item done with an item it did not send, or about to create it.
LEMMA StartCreateStep ==
    ASSUME TypeInv, NEW p \in Tasks, Pushing(task[p]),
           Become(p, StartCreate(task[p]))
    PROVE  TasksOK'
<1> DEFINE t == task[p]
<1>1. TasksOK /\ SourceOK /\ t \in Task
  BY TaskFacts
<1>2. ASSUME Become(p, NextItem(t, "skipped_new"))
      PROVE  TasksOK'
  <2>1. /\ NextItem(t, "skipped_new") \in Task
        /\ WellFormed(NextItem(t, "skipped_new"))
    BY <1>1, NextItemType DEF Pushing, Actions
  <2>2. QED
    BY <1>1, <1>2, <2>1, BecomeType
<1>3. ASSUME Become(p, Ask(t, "create", NoDoc))
      PROVE  TasksOK'
  BY <1>1, <1>3, AskStep DEF Pushing, PC, Await
<1>4. QED
  BY <1>2, <1>3 DEF StartCreate

LEMMA ReviseStep ==
    ASSUME TypeInv, NEW p \in Tasks, Pushing(task[p]),
           NEW d \in DocIds \cup {NoDoc}, Become(p, Ask(task[p], "revise", d))
    PROVE  TasksOK'
  BY TaskFacts, AskStep DEF Pushing, PC, Await

LEMMA PushItemType ==
    ASSUME TypeInv, NEW p \in Tasks, PushItem(p)
    PROVE  TypeInv'
<1> DEFINE t == task[p]
           i == Subject(t)
<1>1. /\ TasksOK /\ SourceOK /\ CursorTypeOK /\ PushedOK /\ t \in Task
      /\ Pushing(t) /\ i \in Items
  BY TaskFacts, SubjectType DEF PushItem, Resumes
<1>2. UNCHANGED <<srcVars, ragVars, faults>>
  BY DEF PushItem, Resumes
<1>3. ASSUME UNCHANGED <<cursor, pushed>>, TasksOK'
      PROVE  TypeInv'
  BY <1>2, <1>3, QuietType
<1>4. CASE Become(p, NextItem(t, "noop_unchanged")) /\ UNCHANGED <<cursor, pushed>>
  <2>1. /\ NextItem(t, "noop_unchanged") \in Task
        /\ WellFormed(NextItem(t, "noop_unchanged"))
    BY <1>1, NextItemType DEF Pushing, Actions
  <2>2. QED
    BY <1>1, <1>3, <1>4, <2>1, BecomeType
<1>5. CASE Knows(i, t.lib) /\ PushChanged(p, cursor[i].doc)
  <2>1. cursor[i].doc \in DocIds
    BY <1>1, <1>5 DEF Knows, Has, CursorTypeOK, Row
  <2>2. CASE Handled(p, cursor[i].doc, "skipped_changed")
    <3>1. Local'
      BY <1>1, <2>1, <2>2, HandledType DEF Actions
    <3>2. QED
      BY <1>2, <3>1, LocalType
  <2>3. CASE /\ Become(p, Ask(t, "revise", cursor[i].doc))
             /\ UNCHANGED <<cursor, pushed>>
    BY <1>1, <1>3, <2>1, <2>3, ReviseStep
  <2>4. QED
    BY <1>5, <2>2, <2>3 DEF PushChanged
<1>6. CASE Become(p, Ask(t, "find", NoDoc)) /\ UNCHANGED <<cursor, pushed>>
  BY <1>1, <1>3, <1>6, AskStep DEF Pushing, PC, Await
<1>7. QED
  BY <1>4, <1>5, <1>6 DEF PushItem

LEMMA ResumeFindType ==
    ASSUME TypeInv, NEW p \in Tasks, ResumeFind(p)
    PROVE  TypeInv'
<1> DEFINE t == task[p]
<1>1. /\ TasksOK /\ CursorTypeOK /\ PushedOK /\ t \in Task /\ Pushing(t)
      /\ t.got \in DocIds \cup {NoDoc}
  BY TaskFacts DEF ResumeFind, Resumes
<1>2. UNCHANGED <<srcVars, ragVars, faults>>
  BY DEF ResumeFind, Resumes
<1>3. CASE Become(p, StartCreate(t)) /\ UNCHANGED <<cursor, pushed>>
  BY <1>1, <1>2, <1>3, StartCreateStep, QuietType
<1>4. CASE Handled(p, t.got, "skipped_changed")
  <2>1. Local'
    BY <1>1, <1>4, HandledType DEF Actions
  <2>2. QED
    BY <1>2, <2>1, LocalType
<1>5. CASE /\ Backfill(Subject(t), t.got, t.lib)
           /\ Become(p, Ask(t, "revise", t.got))
           /\ UNCHANGED pushed
  <2>1. CursorTypeOK'
    BY <1>1, <1>5, SubjectType, BackfillType DEF Pushing
  <2>2. TasksOK'
    BY <1>1, <1>5, ReviseStep
  <2>3. Local'
    BY <1>1, <1>5, <2>1, <2>2 DEF Local, PushedOK
  <2>4. QED
    BY <1>2, <2>3, LocalType
<1>6. QED
  BY <1>3, <1>4, <1>5 DEF ResumeFind

LEMMA ResumeCreateType ==
    ASSUME TypeInv, NEW p \in Tasks, ResumeCreate(p)
    PROVE  TypeInv'
<1> DEFINE t == task[p]
<1>1. Pushing(t) /\ t.got \in DocIds \cup {NoDoc}
  BY TaskFacts DEF ResumeCreate, Resumes
<1>2. UNCHANGED <<srcVars, ragVars, faults>>
  BY DEF ResumeCreate, Resumes
<1>3. \/ Handled(p, t.got, "created")
      \/ Handled(p, t.got, "skipped_duplicate_content")
      \/ Raise(p)
  BY DEF ResumeCreate
<1>4. Local'
  BY <1>1, <1>3, HandledType, RaiseType DEF Actions
<1>5. QED
  BY <1>2, <1>4, LocalType

LEMMA ResumeReviseType ==
    ASSUME TypeInv, NEW p \in Tasks, ResumeRevise(p)
    PROVE  TypeInv'
<1> DEFINE t == task[p]
<1>1. /\ TasksOK /\ CursorTypeOK /\ PushedOK /\ t \in Task /\ Pushing(t)
      /\ t.doc \in DocIds \cup {NoDoc} /\ Subject(t) \in Items
  BY TaskFacts, SubjectType DEF ResumeRevise, Resumes
<1>2. UNCHANGED <<srcVars, ragVars, faults>>
  BY DEF ResumeRevise, Resumes
<1>3. CASE /\ Delete(Subject(t)) /\ Become(p, StartCreate(t)) /\ UNCHANGED pushed
  <2>1. CursorTypeOK'
    BY <1>1, <1>3, RestoreType
  <2>2. TasksOK'
    BY <1>1, <1>3, StartCreateStep
  <2>3. Local'
    BY <1>1, <1>3, <2>1, <2>2 DEF Local, PushedOK
  <2>4. QED
    BY <1>2, <2>3, LocalType
<1>4. CASE Defer(p)
  BY <1>2, <1>4, DeferType, LocalType
<1>5. CASE Become(p, Ask(t, "poll", t.doc)) /\ UNCHANGED <<cursor, pushed>>
  <2>1. TasksOK'
    BY <1>1, <1>5, AskStep DEF Pushing, PC, Await
  <2>2. QED
    BY <1>2, <1>5, <2>1, QuietType
<1>6. QED
  BY <1>3, <1>4, <1>5 DEF ResumeRevise

LEMMA PollType ==
    ASSUME TypeInv, NEW p \in Tasks, Poll(p) \/ PollTimeout(p)
    PROVE  TypeInv'
<1>1. Pushing(task[p]) /\ task[p].doc \in DocIds \cup {NoDoc}
  BY TaskFacts DEF Poll, PollTimeout, Resumes
<1>2. UNCHANGED <<srcVars, ragVars, faults>>
  BY DEF Poll, PollTimeout, Resumes
<1>3. Handled(p, task[p].doc, "replaced") \/ Raise(p) \/ Defer(p)
  BY DEF Poll, PollTimeout
<1>4. Local'
  BY <1>1, <1>3, HandledType, RaiseType, DeferType DEF Actions
<1>5. QED
  BY <1>2, <1>4, LocalType

-----------------------------------------------------------------------------
(* The service's side of push_item and reap_orphan.                        *)

RagOK == IronRagTypeOK /\ Housed

\* One document's operations change to others.
LEMMA OpType ==
    ASSUME RagOK, NEW d \in DocIds, NEW f \in [OpKeys -> Status],
           op' = [op EXCEPT ![d] = f]
    PROVE  op' \in [DocIds -> [OpKeys -> Status]]
  BY DEF RagOK, IronRagTypeOK

LEMMA AdmitType ==
    ASSUME RagOK, NEW d \in DocIds, NEW k \in OpKeys, Admit(d, k)
    PROVE  RagOK'
<1> DEFINE f == [x \in OpKeys |->
                    IF x = k THEN "processing"
                    ELSE IF op[d][x] = "processing" THEN "superseded" ELSE op[d][x]]
<1>1. f \in [OpKeys -> Status]
  BY DEF RagOK, IronRagTypeOK, Status, Terminal
<1>2. op' = [op EXCEPT ![d] = f] /\ UNCHANGED docs
  BY DEF Admit
<1> HIDE DEF f
<1>3. QED
  BY <1>1, <1>2, OpType DEF RagOK, IronRagTypeOK, Housed

LEMMA AddDocumentType ==
    ASSUME RagOK, NEW l \in Libraries, NEW i \in Items, NEW c \in Payloads, NEW d,
           AddDocument(l, i, c, d)
    PROVE  RagOK' /\ d \in Free
<1> DEFINE new == [state |-> "active", lib |-> l, key |-> i, content |-> c]
<1>1. d \in Free
  BY DEF AddDocument
<1>2. d \in DocIds
  BY <1>1 DEF Free
<1>3. new \in Document /\ new.lib = l
  BY DEF Document
<1>4. docs' = [docs EXCEPT ![d] = new] /\ UNCHANGED op
  BY DEF AddDocument
<1>5. l # NoDoc
  BY NoDocAssumption
<1> HIDE DEF new
<1>6. docs' \in [DocIds -> Document]
  BY <1>2, <1>3, <1>4 DEF RagOK, IronRagTypeOK
<1>7. \A e \in DocIds : docs'[e] = IF e = d THEN new ELSE docs[e]
  BY <1>2, <1>4 DEF RagOK, IronRagTypeOK
<1>8. Housed'
  BY <1>3, <1>5, <1>7 DEF RagOK, Housed
<1>9. QED
  BY <1>1, <1>4, <1>6, <1>8 DEF RagOK, IronRagTypeOK

\* A document's bytes and state change; its key and its library do not.
LEMMA ContentType ==
    ASSUME RagOK, NEW d \in DocIds, NEW s \in {"free", "active", "deleted"},
           NEW c \in Payloads \cup {NoPayload},
           docs' = [docs EXCEPT ![d].state = s, ![d].content = c]
    PROVE  /\ docs' \in [DocIds -> Document]
           /\ Housed'
           /\ \A e \in DocIds : docs'[e].key = docs[e].key
           /\ \A e \in DocIds : docs'[e].content = IF e = d THEN c ELSE docs[e].content
           /\ \A e \in DocIds : docs'[e].state = IF e = d THEN s ELSE docs[e].state
<1> DEFINE new == [docs[d] EXCEPT !.state = s, !.content = c]
<1>1. docs[d] \in Document
  BY DEF RagOK, IronRagTypeOK
<1>2. /\ new \in Document /\ new.key = docs[d].key /\ new.lib = docs[d].lib
      /\ new.content = c /\ new.state = s
  BY <1>1 DEF Document
<1>3. docs' = [docs EXCEPT ![d] = new]
  BY DEF RagOK, IronRagTypeOK
<1> HIDE DEF new
<1>4. docs' \in [DocIds -> Document]
  BY <1>2, <1>3 DEF RagOK, IronRagTypeOK
<1>5. \A e \in DocIds : docs'[e] = IF e = d THEN new ELSE docs[e]
  BY <1>3 DEF RagOK, IronRagTypeOK
<1>6. QED
  BY <1>2, <1>4, <1>5 DEF RagOK, Housed

LEMMA BuryType ==
    ASSUME RagOK, NEW d \in DocIds, Bury(d)
    PROVE  /\ docs' \in [DocIds -> Document]
           /\ Housed'
           /\ \A e \in DocIds : docs'[e].key = docs[e].key
           /\ \A e \in DocIds :
                 docs'[e].content = IF e = d THEN NoPayload ELSE docs[e].content
           /\ \A e \in DocIds :
                 docs'[e].state = IF e = d THEN "deleted" ELSE docs[e].state
<1>1. docs' = [docs EXCEPT ![d].state = "deleted", ![d].content = NoPayload]
  BY DEF Bury
<1>2. QED
  BY <1>1, ContentType

LEMMA EndedType ==
    ASSUME RagOK, NEW d \in DocIds, NEW k \in OpKeys, NEW s \in Status
    PROVE  Ended(d, k, s) \in [OpKeys -> Status]
  BY DEF RagOK, IronRagTypeOK, Ended, Status, Terminal

LEMMA ApplyType ==
    ASSUME RagOK, NEW d \in DocIds, NEW k \in OpKeys, Apply(d, k)
    PROVE  /\ RagOK'
           /\ \A e \in DocIds : docs'[e].key = docs[e].key
<1>1. CASE k = Deletion
  <2>1. Bury(d) /\ op' = [op EXCEPT ![d] = Ended(d, k, "ready")]
    BY <1>1 DEF Apply
  <2>2. "ready" \in Status
    BY DEF Status, Terminal
  <2>3. op' \in [DocIds -> [OpKeys -> Status]]
    BY <2>1, <2>2, EndedType, OpType
  <2>4. QED
    BY <2>1, <2>3, BuryType DEF RagOK, IronRagTypeOK
<1>2. CASE k # Deletion
  <2>1. k[2] \in Payloads
    BY <1>2 DEF OpKeys, RevisionKeys
  <2>2. /\ docs' = [docs EXCEPT ![d].content = k[2]]
        /\ op' = [op EXCEPT ![d][k] = "ready"]
    BY <1>2 DEF Apply
  <2>3. op' \in [DocIds -> [OpKeys -> Status]]
    BY <2>2 DEF RagOK, IronRagTypeOK, Status, Terminal
  <2> DEFINE new == [docs[d] EXCEPT !.content = k[2]]
  <2>4. docs[d] \in Document
    BY DEF RagOK, IronRagTypeOK
  <2>5. new \in Document /\ new.key = docs[d].key /\ new.lib = docs[d].lib
    BY <2>1, <2>4 DEF Document
  <2>6. docs' = [docs EXCEPT ![d] = new]
    BY <2>2 DEF RagOK, IronRagTypeOK
  <2> HIDE DEF new
  <2>7. docs' \in [DocIds -> Document]
    BY <2>5, <2>6 DEF RagOK, IronRagTypeOK
  <2>8. \A e \in DocIds : docs'[e] = IF e = d THEN new ELSE docs[e]
    BY <2>6 DEF RagOK, IronRagTypeOK
  <2>9. QED
    BY <2>3, <2>5, <2>7, <2>8 DEF RagOK, IronRagTypeOK, Housed
<1>3. QED
  BY <1>1, <1>2

LEMMA RemoveByHandType ==
    ASSUME RagOK, NEW d \in DocIds, RemoveByHand(d)
    PROVE  /\ RagOK'
           /\ \A e \in DocIds : docs'[e].key = docs[e].key
<1>1. Bury(d) /\ op' = [op EXCEPT ![d] = Ended(d, Deletion, op[d][Deletion])]
  BY DEF RemoveByHand
<1>2. Deletion \in OpKeys /\ op[d][Deletion] \in Status
  BY DEF RagOK, IronRagTypeOK, OpKeys
<1>3. op' \in [DocIds -> [OpKeys -> Status]]
  BY <1>1, <1>2, EndedType, OpType
<1>4. QED
  BY <1>1, <1>3, BuryType DEF RagOK, IronRagTypeOK

\* A step of the service, with the reply to the task it was waiting for or none.
LEMMA ServiceType ==
    ASSUME TypeInv, RagOK', TasksOK', UNCHANGED <<srcVars, cursor, pushed>>,
           (faults \in 0 .. MaxFaults)'
    PROVE  TypeInv'
  BY DEF TypeInv, RagOK, SourceOK, Local, CursorTypeOK, PushedOK, srcVars

LEMMA ServeCreateType ==
    ASSUME TypeInv, NEW p \in Tasks, ServeCreate(p)
    PROVE  TypeInv'
<1> DEFINE t == task[p]
           c == Head(t.todo).payload
<1>1. /\ TasksOK /\ RagOK /\ t \in Task /\ Pushing(t) /\ faults \in 0 .. MaxFaults
  BY TaskFacts DEF ServeCreate, Waits, TypeInv, RagOK
<1>2. Subject(t) \in Items /\ c \in Payloads
  BY <1>1, SubjectType DEF Pushing, SourceItem
<1>3. UNCHANGED <<srcVars, cursor, pushed, faults>>
  BY DEF ServeCreate, Waits
<1>4. PICK d \in DocIds \cup {NoDoc} :
             \/ AddDocument(t.lib, Subject(t), c, d) /\ Reply(p, "created", d)
             \/ RefuseDuplicate(t.lib, Subject(t), c, d) /\ Reply(p, "duplicate", d)
  BY DEF ServeCreate
<1> HIDE DEF c
<1>5. RagOK'
  <2>1. CASE AddDocument(t.lib, Subject(t), c, d)
    BY <1>1, <1>2, <2>1, AddDocumentType DEF Pushing
  <2>2. CASE RefuseDuplicate(t.lib, Subject(t), c, d)
    BY <1>1, <2>2 DEF RefuseDuplicate, RagOK, IronRagTypeOK, Housed
  <2>3. QED
    BY <1>4, <2>1, <2>2
<1>6. TasksOK'
  BY <1>1, <1>4, ReplyType DEF Answers
<1>7. QED
  BY <1>1, <1>3, <1>5, <1>6, ServiceType

\* A mutation is refused, repeated or admitted.
LEMMA MutationType ==
    ASSUME TypeInv, NEW p \in Tasks, NEW k \in OpKeys,
           LET d == task[p].doc
           IN  \/ RefuseGone(d) /\ Reply(p, "notfound", NoDoc)
               \/ RefuseBusy(d, k) /\ Reply(p, "conflict", NoDoc)
               \/ Dedupe(d, k) /\ Reply(p, "accepted", NoDoc)
               \/ Admit(d, k) /\ Reply(p, "accepted", NoDoc),
           UNCHANGED <<srcVars, cursor, pushed, faults>>
    PROVE  TypeInv'
<1> DEFINE d == task[p].doc
<1>1. TasksOK /\ RagOK /\ faults \in 0 .. MaxFaults
  BY TaskFacts DEF TypeInv, RagOK
<1>2. RagOK'
  <2>1. CASE UNCHANGED <<docs, op>>
    BY <1>1, <2>1 DEF RagOK, IronRagTypeOK, Housed
  <2>2. CASE Admit(d, k)
    <3>1. d \in DocIds
      BY <2>2 DEF Admit, Active
    <3>2. QED
      BY <1>1, <2>2, <3>1, AdmitType
  <2>3. QED
    BY <2>1, <2>2 DEF RefuseGone, RefuseBusy, Dedupe
<1>3. TasksOK'
  BY <1>1, ReplyType DEF Answers
<1>4. QED
  BY <1>1, <1>2, <1>3, ServiceType

LEMMA ServeReviseType ==
    ASSUME TypeInv, NEW p \in Tasks, ServeRevise(p)
    PROVE  TypeInv'
<1> DEFINE t == task[p]
<1>1. t \in Task /\ Pushing(t)
  BY TaskFacts DEF ServeRevise, Waits
<1>2. RevisionKey(t) \in OpKeys
  BY <1>1, SubjectType DEF Pushing, SourceItem, RevisionKey, OpKeys, RevisionKeys
<1>3. UNCHANGED <<srcVars, cursor, pushed, faults>>
  BY DEF ServeRevise, Waits
<1>4. QED
  BY <1>2, <1>3, MutationType DEF ServeRevise

LEMMA ServeDeleteType ==
    ASSUME TypeInv, NEW p \in Tasks, ServeDelete(p)
    PROVE  TypeInv'
<1>1. Deletion \in OpKeys
  BY DEF OpKeys
<1>2. UNCHANGED <<srcVars, cursor, pushed, faults>>
  BY DEF ServeDelete, Waits
<1>3. QED
  BY <1>1, <1>2, MutationType DEF ServeDelete

-----------------------------------------------------------------------------
(* delete_by_ref and reap_orphan.                                          *)

\* reap_orphan asks for the delete or ends.
LEMMA StartReapStep ==
    ASSUME TasksOK, NEW p \in Tasks, NEW t \in Task, NEW d \in DocIds \cup {NoDoc},
           t.home \in Libraries, t.lib \in Libraries, Become(p, StartReap(t, d))
    PROVE  TasksOK'
<1>1. ASSUME Become(p, Outcome(t, "skipped_missing", FALSE))
      PROVE  TasksOK'
  BY <1>1, EndType DEF Actions
<1>2. ASSUME Become(p, Ask(t, "delete", d))
      PROVE  TasksOK'
  BY <1>2, AskStep DEF PC, Await
<1>3. QED
  BY <1>1, <1>2 DEF StartReap

LEMMA DeleteByRefType ==
    ASSUME TypeInv, NEW p \in Tasks, NEW i \in Items, DeleteByRef(p, i)
    PROVE  TypeInv'
<1> DEFINE t == Routed(i, NoToken)
<1>1. SourceOK /\ TasksOK /\ NoToken \in Tokens
  BY TaskFacts DEF Tokens
<1>2. t \in Task /\ t.home = route[i] /\ t.lib = route[i]
  BY <1>1, RoutedType
<1>3. UNCHANGED <<srcVars, cursor, pushed, ragVars, faults>>
  BY DEF DeleteByRef, Starts
<1> HIDE DEF t
<1>4. ASSUME Become(p, Outcome(t, "unrouted", FALSE))
      PROVE  TasksOK'
  BY <1>1, <1>2, <1>4, EndType DEF Actions
<1>5. ASSUME route[i] # Unrouted, Become(p, Ask(t, "dlookup", NoDoc))
      PROVE  TasksOK'
  <2>1. t.home \in Libraries /\ t.lib \in Libraries
    BY <1>1, <1>2, <1>5 DEF SourceOK
  <2>2. QED
    BY <1>1, <1>2, <1>5, <2>1, AskStep DEF PC, Await
<1>6. \/ Become(p, Outcome(t, "unrouted", FALSE))
      \/ route[i] # Unrouted /\ Become(p, Ask(t, "dlookup", NoDoc))
  BY DEF DeleteByRef, t
<1>7. QED
  BY <1>3, <1>4, <1>5, <1>6, QuietType

\* The task of a reap_orphan call: in the library its document is in.
LEMMA ReapedRefType ==
    ASSUME NEW i \in Items, NEW l \in Libraries
    PROVE  LET t == [Blank(i, NoToken) EXCEPT !.home = l, !.lib = l]
           IN  /\ t \in Task /\ t.home = l /\ t.lib = l /\ t.ref = i
               /\ t.todo = <<>> /\ t.doc = NoDoc /\ t.got = NoDoc /\ t.before = NoRow
<1> DEFINE u == Blank(i, NoToken)
           t == [u EXCEPT !.home = l, !.lib = l]
<1>1. NoToken \in Tokens
  BY DEF Tokens
<1>2. /\ u \in Task /\ u.ref = i /\ u.todo = <<>> /\ u.doc = NoDoc
      /\ u.got = NoDoc /\ u.before = NoRow
  BY <1>1, BlankType
<1> HIDE DEF u
<1>3. t \in Task
  BY <1>2 DEF Task
<1>4. /\ t.home = l /\ t.lib = l /\ t.ref = i /\ t.todo = <<>> /\ t.doc = NoDoc
      /\ t.got = NoDoc /\ t.before = NoRow
  BY <1>2 DEF Task
<1>5. QED
  BY <1>3, <1>4 DEF u

LEMMA ReapOrphanType ==
    ASSUME TypeInv, NEW p \in Tasks, NEW i \in Items, NEW d \in DocIds,
           ReapOrphan(p, i, d)
    PROVE  TypeInv'
<1> DEFINE l == docs[d].lib
           t == [Blank(i, NoToken) EXCEPT !.home = l, !.lib = l]
<1>1. TasksOK
  BY TaskFacts
<1>2. docs[d].key = i /\ i # NoDoc
  BY NoDocAssumption DEF ReapOrphan
<1>3. l \in Libraries
  BY <1>2 DEF TypeInv, Housed, IronRagTypeOK, Document
<1>4. UNCHANGED <<srcVars, cursor, pushed, ragVars, faults>>
  BY DEF ReapOrphan, Starts
<1>5. Become(p, StartReap(t, d))
  BY DEF ReapOrphan
<1> HIDE DEF l
<1>6. t \in Task /\ t.home = l /\ t.lib = l
  BY <1>3, ReapedRefType
<1> HIDE DEF t
<1>7. TasksOK'
  BY <1>1, <1>3, <1>5, <1>6, StartReapStep
<1>8. QED
  BY <1>4, <1>7, QuietType

LEMMA ResumeDeleteLookupType ==
    ASSUME TypeInv, NEW p \in Tasks, ResumeDeleteLookup(p)
    PROVE  TypeInv'
<1> DEFINE t == task[p]
<1>1. /\ TasksOK /\ t \in Task /\ t.home \in Libraries /\ t.lib \in Libraries
      /\ t.got \in DocIds \cup {NoDoc}
  BY TaskFacts DEF ResumeDeleteLookup, Resumes
<1>2. UNCHANGED <<srcVars, cursor, pushed, ragVars, faults>>
  BY DEF ResumeDeleteLookup, Resumes
<1>3. ASSUME Become(p, Outcome(t, "skipped_missing", FALSE))
      PROVE  TasksOK'
  BY <1>1, <1>3, EndType DEF Actions
<1>4. ASSUME Become(p, StartReap(t, t.got))
      PROVE  TasksOK'
  BY <1>1, <1>4, StartReapStep
<1>5. QED
  BY <1>2, <1>3, <1>4, QuietType DEF ResumeDeleteLookup

LEMMA ReapedType ==
    ASSUME TypeInv, NEW p \in Tasks, Reaped(p)
    PROVE  Local'
<1>1. /\ TasksOK /\ CursorTypeOK /\ PushedOK /\ task[p] \in Task
      /\ task[p].ref \in Items
  BY TaskFacts
<1>2. CursorTypeOK'
  BY <1>1, RestoreType DEF Reaped, CursorTypeOK
<1>3. TasksOK'
  BY <1>1, EndType DEF Reaped, Actions
<1>4. QED
  BY <1>1, <1>2, <1>3 DEF Local, Reaped, PushedOK

LEMMA ResumeDeleteType ==
    ASSUME TypeInv, NEW p \in Tasks, ResumeDelete(p) \/ DeletePoll(p)
    PROVE  TypeInv'
<1> DEFINE t == task[p]
<1>1. /\ TasksOK /\ t \in Task /\ t.home \in Libraries /\ t.lib \in Libraries
      /\ t.doc \in DocIds \cup {NoDoc}
  BY TaskFacts DEF ResumeDelete, DeletePoll, Resumes
<1>2. UNCHANGED <<srcVars, ragVars, faults>>
  BY DEF ResumeDelete, DeletePoll, Resumes
<1>3. CASE Reaped(p) \/ Raise(p)
  BY <1>2, <1>3, ReapedType, RaiseType, LocalType
<1>4. CASE Become(p, Ask(t, "dpoll", t.doc)) /\ UNCHANGED <<cursor, pushed>>
  <2>1. TasksOK'
    BY <1>1, <1>4, AskStep DEF PC, Await
  <2>2. QED
    BY <1>2, <1>4, <2>1, QuietType
<1>5. QED
  BY <1>3, <1>4 DEF ResumeDelete, DeletePoll

-----------------------------------------------------------------------------
(* Callers, faults, the source, and the service on its own.                *)

LEMMA CollectType ==
    ASSUME TypeInv, NEW p \in Tasks, Collect(p)
    PROVE  TypeInv'
<1> DEFINE u == Blank(AnItem, NoToken)
<1>1. TasksOK /\ AnItem \in Items /\ NoToken \in Tokens
  BY TaskFacts, AnItemIsOne DEF Tokens
<1>2. u \in Task /\ WellFormed(u)
  BY <1>1, BlankType
<1>3. Become(p, u) /\ UNCHANGED <<srcVars, cursor, pushed, ragVars, faults>>
  BY DEF Collect
<1> HIDE DEF u
<1>4. QED
  BY <1>1, <1>2, <1>3, BecomeType, QuietType

LEMMA FaultType ==
    ASSUME faults \in 0 .. MaxFaults, Fault
    PROVE  (faults \in 0 .. MaxFaults)'
  BY FaultsAssumption DEF Fault

LEMMA AbortType ==
    ASSUME TypeInv, NEW p \in Tasks, Abort(p)
    PROVE  TypeInv'
<1>1. Local'
  BY RaiseType DEF Abort
<1>2. (faults \in 0 .. MaxFaults)'
  BY FaultType DEF Abort, TypeInv
<1>3. QED
  BY <1>1, <1>2 DEF Abort, TypeInv, SourceOK, IronRagTypeOK, Housed, srcVars, ragVars

LEMMA CrashType ==
    ASSUME TypeInv, Crash
    PROVE  TypeInv'
<1>1. Blank(AnItem, NoToken) \in Task /\ WellFormed(Blank(AnItem, NoToken))
  BY AnItemIsOne, BlankType DEF Tokens
<1>2. task' = [p \in Tasks |-> Blank(AnItem, NoToken)]
  BY DEF Crash
<1>3. TasksOK'
  BY <1>1, <1>2 DEF TasksOK, WellFormed
<1>4. PushedOK'
  BY DEF Crash, PushedOK
<1>5. (faults \in 0 .. MaxFaults)'
  BY FaultType DEF Crash, TypeInv
<1>6. QED
  BY <1>3, <1>4, <1>5 DEF Crash, TypeInv, Local, SourceOK, CursorTypeOK,
                          IronRagTypeOK, Housed, srcVars, ragVars

LEMMA ResetSweepCacheType ==
    ASSUME TypeInv, ResetSweepCache
    PROVE  TypeInv'
<1>1. PushedOK'
  BY DEF ResetSweepCache, PushedOK
<1>2. Local'
  BY <1>1 DEF ResetSweepCache, TypeInv, Local, CursorTypeOK, TasksOK, WellFormed
<1>3. QED
  BY <1>2, LocalType DEF ResetSweepCache

LEMMA SourceType ==
    ASSUME TypeInv, NEW i \in Items, Edit(i) \/ Vanish(i) \/ Reroute(i)
    PROVE  TypeInv'
<1>1. UNCHANGED <<cursor, pushed, task, ragVars, faults>>
  BY DEF Edit, Vanish, Reroute
<1>2. SourceOK'
  <2>1. CASE Edit(i)
    <3>1. version[i] + 1 \in Versions
      BY <2>1, VersionAssumption DEF Edit, TypeInv, SourceOK, Versions
    <3>2. QED
      BY <2>1, <3>1 DEF Edit, TypeInv, SourceOK
  <2>2. CASE Vanish(i)
    <3>1. live' = [live EXCEPT ![i] = ~live[i]] /\ UNCHANGED <<version, route>>
      BY <2>2 DEF Vanish
    <3>2. live' \in [Items -> BOOLEAN]
      BY <3>1 DEF TypeInv, SourceOK
    <3>3. QED
      BY <3>1, <3>2 DEF TypeInv, SourceOK
  <2>3. CASE Reroute(i)
    BY <2>3, TargetsAssumption DEF Reroute, TypeInv, SourceOK
  <2>4. QED
    BY <2>1, <2>2, <2>3
<1>3. QED
  BY <1>1, <1>2 DEF TypeInv, Local, CursorTypeOK, PushedOK, TasksOK, WellFormed,
                    IronRagTypeOK, Housed, ragVars

LEMMA SettleType ==
    ASSUME TypeInv, NEW d \in DocIds,
           \/ Remove(d)
           \/ \E k \in OpKeys : Settle(d, k) \/ Misfire(d, k)
    PROVE  TypeInv'
<1>1. RagOK /\ TasksOK /\ faults \in 0 .. MaxFaults
  BY DEF TypeInv, RagOK, Local
<1>2. UNCHANGED <<srcVars, cursor, pushed, task>>
  BY DEF Remove, Settle, Misfire
<1>3. TasksOK'
  BY <1>1, <1>2 DEF TasksOK, WellFormed
<1>4. CASE Remove(d)
  <2>1. RagOK' /\ UNCHANGED faults
    BY <1>1, <1>4, RemoveByHandType DEF Remove
  <2>2. QED
    BY <1>1, <1>2, <1>3, <2>1, ServiceType
<1>5. ASSUME NEW k \in OpKeys, Settle(d, k)
      PROVE  TypeInv'
  <2>1. RagOK' /\ UNCHANGED faults
    BY <1>1, <1>5, ApplyType DEF Settle
  <2>2. QED
    BY <1>1, <1>2, <1>3, <2>1, ServiceType
<1>6. ASSUME NEW k \in OpKeys, Misfire(d, k)
      PROVE  TypeInv'
  <2>1. (faults \in 0 .. MaxFaults)'
    BY <1>1, <1>6, FaultType DEF Misfire
  <2>2. PICK s \in {"failed", "canceled"} : op' = [op EXCEPT ![d][k] = s] /\ UNCHANGED docs
    BY <1>6 DEF Misfire, Abandon
  <2>3. op' \in [DocIds -> [OpKeys -> Status]]
    BY <1>1, <2>2 DEF RagOK, IronRagTypeOK, Status, Terminal
  <2>4. RagOK'
    BY <1>1, <2>2, <2>3 DEF RagOK, IronRagTypeOK, Housed
  <2>5. QED
    BY <1>2, <1>3, <2>1, <2>4, ServiceType
<1>7. QED
  BY <1>4, <1>5, <1>6

LEMMA SeedType ==
    ASSUME TypeInv, NEW d \in DocIds, Seed(d)
    PROVE  TypeInv'
<1>1. CursorTypeOK /\ docs[d].key \in Items /\ UNCHANGED <<srcVars, pushed, task, ragVars, faults>>
  BY DEF TypeInv, Local, Seed
<1>2. docs[d].lib \in Libraries
  BY <1>1, NoDocAssumption DEF TypeInv, Housed, IronRagTypeOK, Document
<1>3. CursorTypeOK'
  BY <1>1, <1>2, UpsertType DEF Seed, Tokens
<1>4. QED
  BY <1>1, <1>3 DEF TypeInv, SourceOK, Local, PushedOK, TasksOK, WellFormed, IronRagTypeOK,
                    Housed, srcVars, ragVars

-----------------------------------------------------------------------------
LEMMA TypeInit == Init => TypeInv
<1> SUFFICES ASSUME Init PROVE TypeInv
  OBVIOUS
<1>1. SourceOK
  BY TargetsAssumption, VersionAssumption DEF Init, SourceOK, Versions
<1>2. CursorTypeOK /\ PushedOK
  BY DEF Init, CursorInit, CursorTypeOK, PushedOK
<1>3. TasksOK
  <2>1. Blank(AnItem, NoToken) \in Task /\ WellFormed(Blank(AnItem, NoToken))
    BY AnItemIsOne, BlankType DEF Tokens
  <2>2. task = [p \in Tasks |-> Blank(AnItem, NoToken)]
    BY DEF Init
  <2>3. QED
    BY <2>1, <2>2 DEF TasksOK
<1>4. IronRagTypeOK /\ Housed
  BY DEF Init, IronRagInit, IronRagTypeOK, Housed, FreeDoc, Document, Status, Terminal
<1>5. faults \in 0 .. MaxFaults
  BY FaultsAssumption DEF Init
<1>6. QED
  BY <1>1, <1>2, <1>3, <1>4, <1>5 DEF TypeInv, Local

LEMMA TypeStutter ==
    ASSUME TypeInv, UNCHANGED vars
    PROVE  TypeInv'
  BY DEF vars, TypeInv, SourceOK, Local, CursorTypeOK, PushedOK, TasksOK, WellFormed,
         IronRagTypeOK, Housed

LEMMA TypeStep == TypeInv /\ [Next]_vars => TypeInv'
<1> SUFFICES ASSUME TypeInv, [Next]_vars PROVE TypeInv'
  OBVIOUS
<1>1. CASE UNCHANGED vars
  BY <1>1, TypeStutter
<1>2. ASSUME NEW p \in Tasks, Call(p)
      PROVE  TypeInv'
  <2>1. PICK i \in Items : \/ \E tok \in Versions : PushRef(p, i, tok)
                           \/ DeleteByRef(p, i)
                           \/ \E d \in DocIds : ReapOrphan(p, i, d)
    BY <1>2 DEF Call
  <2>2. QED
    BY <2>1, PushRefType, DeleteByRefType, ReapOrphanType DEF Tokens
<1>3. ASSUME NEW p \in Tasks, Run(p)
      PROVE  TypeInv'
  BY <1>3, ResumeLookupType, ResumeFetchType, PushItemType, ResumeFindType,
     ResumeCreateType, ResumeReviseType, PollType, ResumeDeleteLookupType,
     ResumeDeleteType DEF Run
<1>4. ASSUME NEW p \in Tasks, Serve(p)
      PROVE  TypeInv'
  BY <1>4, ServeFindType, ServeFetchType, ServeCreateType, ServeReviseType,
     ServeDeleteType DEF Serve
<1>5. ASSUME NEW p \in Tasks, Abort(p) \/ Collect(p)
      PROVE  TypeInv'
  BY <1>5, AbortType, CollectType
<1>6. CASE Source
  BY <1>6, SourceType DEF Source
<1>7. CASE Service
  BY <1>7, SettleType DEF Service
<1>8. CASE Crash \/ ResetSweepCache
  BY <1>8, CrashType, ResetSweepCacheType
<1>9. CASE Seeder
  BY <1>9, SeedType DEF Seeder
<1>10. QED
  BY <1>1, <1>2, <1>3, <1>4, <1>5, <1>6, <1>7, <1>8, <1>9 DEF Next

LEMMA TypeInvTypeOK == TypeInv => TypeOK
  BY DEF TypeInv, TypeOK, SourceOK, Local, PushedOK, TasksOK

\* The inductive invariant holds in every reachable state.
THEOREM TypeInvariant == Spec => []TypeInv
  BY TypeInit, TypeStep, PTL DEF Spec

\* Every variable keeps its type: in particular a cursor row always names a
\* library, whatever routing says by then (state.py: library_id is NOT NULL).
THEOREM TypeCorrect == Spec => []TypeOK
  BY TypeInvariant, TypeInvTypeOK, PTL
=============================================================================
