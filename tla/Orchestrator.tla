---------------------------- MODULE Orchestrator ----------------------------
(***************************************************************************)
(* orchestrator.py: push_ref, push_item, _create, _revise, delete_by_ref   *)
(* and reap_orphan, run by concurrent asyncio tasks against the IronRAG    *)
(* service (IronRag), the persistent cursor (CursorStore) and a source     *)
(* whose items change underneath.                                          *)
(*                                                                         *)
(* A coroutine runs alone from one await to the next.  A task therefore    *)
(* takes a step of its own to resume after an await, in which it does      *)
(* everything up to its next await; the service and the source take theirs *)
(* in between.  Entering push_item is a step of its own too (pc = "item"), *)
(* since push_ref calls it in a loop; RunsAlone keeps the other tasks from *)
(* running before that step is taken.                                      *)
(***************************************************************************)
EXTENDS CursorStore, IronRag, Sequences, FiniteSets

CONSTANTS
    Tasks,          \* concurrent calls the callers may have under way
    Handles,        \* the calls each task may make: item, and which handler
    Dependents,     \* an item's dependents, in the order fetch returns them
    Bytes,          \* the payload of every version of every item
    Policy,         \* the PushPolicy of each item's kind
    Targets,        \* where routing may send an item
    Unrouted,
    CanVanish,      \* items the source may lose
    CanReturn,      \* items the source may get back
    Removable,      \* documents somebody may delete by hand
    Seedable,       \* documents the seeder may come to
    MaxFaults       \* bound on crashes, aborted calls and failed operations

PushPolicy == [on_new               : {"create", "skip"},
               on_changed           : {"replace", "skip"},
               on_missing           : {"delete", "ignore"},
               on_duplicate_content : {"skip", "fail"}]

Handlers == {"push_ref", "delete_by_ref", "reap_orphan"}

ASSUME HandlesAssumption    == Handles \in [Tasks -> SUBSET (Items \X Handlers)]
ASSUME DependentsAssumption == Dependents \in [Items -> Seq(Items)]
ASSUME BytesAssumption      == Bytes \in [Items -> [Versions -> Payloads]]
ASSUME PolicyAssumption     == Policy \in [Items -> PushPolicy]
ASSUME TargetsAssumption    == /\ Targets \subseteq Libraries \cup {Unrouted}
                               /\ Unrouted \notin Libraries
ASSUME FaultsAssumption     == MaxFaults \in Nat

VARIABLES
    version, live,  \* the source: each item's current version, and whether it is there
    route,          \* the library routing resolves each item to, or Unrouted
    pushed,         \* _sweep_pushed: (library, external key) -> document
    task,           \* one record per concurrent call
    faults          \* faults spent so far

srcVars == <<version, live, route>>
ragVars == <<docs, op>>
vars    == <<version, live, route, cursor, pushed, task, docs, op, faults>>

NotPushed == "not_pushed"

ASSUME NotPushedAssumption == NotPushed \notin DocIds \cup {NoDoc}

\* What fetch returns for one item: a reference with its token, and bytes.
SourceItem == [item : Items, token : Tokens, payload : Payloads]

Await == {"lookup", "fetch", "find", "create", "revise", "poll",
          "dlookup", "delete", "dpoll"}
PC    == Await \cup {"idle", "item", "done"}

Answers == {"none", "found", "absent", "fetched", "created", "duplicate",
            "notfound", "conflict", "accepted"}

Actions == {"none", "created", "replaced", "deleted", "noop_unchanged",
            "skipped_new", "skipped_changed", "skipped_missing",
            "skipped_duplicate_content", "unrouted", "fetch_returned_none",
            "error"}

\* ref, token  the SourceItemRef the call is about
\* home, lib   the library of ref, and of the item being pushed
\* todo        the item being pushed, and the dependents after it
\* before      parent_cursor_before_push
\* doc         existing_document_id, or the document being deleted
\* answer, got the answer to the request under way, and the document it names
\* action, deferred  the outcome
Task == [pc : PC, ref : Items, token : Tokens,
         home : Libraries \cup {Unrouted}, lib : Libraries \cup {Unrouted},
         todo : Seq(SourceItem), before : Row \cup {NoRow},
         doc : DocIds \cup {NoDoc}, answer : Answers, got : DocIds \cup {NoDoc},
         action : Actions, deferred : BOOLEAN]

TypeOK ==
    /\ version \in [Items -> Versions]
    /\ live \in [Items -> BOOLEAN]
    /\ route \in [Items -> Libraries \cup {Unrouted}]
    /\ CursorTypeOK
    /\ pushed \in [Libraries \X Items -> DocIds \cup {NoDoc, NotPushed}]
    /\ task \in [Tasks -> Task]
    /\ IronRagTypeOK
    /\ faults \in 0 .. MaxFaults

Blank(i, t) ==
    [pc |-> "idle", ref |-> i, token |-> t, home |-> Unrouted, lib |-> Unrouted,
     todo |-> <<>>, before |-> NoRow, doc |-> NoDoc, answer |-> "none",
     got |-> NoDoc, action |-> "none", deferred |-> FALSE]

\* What a task that has no call is about does not matter.
AnItem == CHOOSE i \in Items : TRUE

Init ==
    /\ version = [i \in Items |-> 1]
    /\ live = [i \in Items |-> TRUE]
    /\ route \in [Items -> Targets]
    /\ CursorInit
    /\ pushed = [x \in Libraries \X Items |-> NotPushed]
    /\ task = [p \in Tasks |-> Blank(AnItem, NoToken)]
    /\ IronRagInit
    /\ faults = 0

-----------------------------------------------------------------------------
(* The event loop, and the parts handlers share.                           *)

\* No coroutine other than p is between two awaits.
RunsAlone(p) == \A q \in Tasks \ {p} : task[q].pc # "item"
LoopIdle     == \A q \in Tasks : task[q].pc # "item"

\* The item a task is dealing with: the one being pushed, else its ref.
Subject(t)   == IF t.todo = <<>> THEN t.ref ELSE Head(t.todo).item
IsPrimary(t) == Subject(t) = t.ref

\* The cursor names a document of i in library l: _cursor_matches_route.
Knows(i, l) == Has(i) /\ cursor[i].doc # NoDoc /\ cursor[i].lib = l

RevisionKey(t) == <<Subject(t), Head(t.todo).payload>>

Ask(t, pc, d) == [t EXCEPT !.pc = pc, !.doc = d, !.answer = "none", !.got = NoDoc]

Outcome(t, a, deferred) ==
    [Blank(t.ref, t.token) EXCEPT !.pc = "done", !.home = t.home,
                                  !.action = a, !.deferred = deferred]

\* A dependent that routes nowhere goes where its parent goes.
DependentLibrary(t, i) == IF route[i] = Unrouted THEN t.home ELSE route[i]

\* push_item returned a, not deferred: on to the next dependent, if any.
NextItem(t, a) ==
    LET rest == Tail(t.todo)
        main == IF IsPrimary(t) THEN a ELSE t.action
    IN  IF rest = <<>>
        THEN Outcome(t, main, FALSE)
        ELSE [Ask(t, "item", NoDoc) EXCEPT
                 !.todo = rest,
                 !.lib = DependentLibrary(t, Head(rest).item),
                 !.action = main]

Become(p, t) == task' = [task EXCEPT ![p] = t]

\* Mutant of Remember: the cache entry goes under the parent's key.
RememberForRef(p, d) == pushed' = [pushed EXCEPT ![<<task[p].lib, task[p].ref>>] = d]

Remember(p, d) == pushed' = [pushed EXCEPT ![<<task[p].lib, Subject(task[p])>>] = d]

\* Mutant of Handled: the token is the source's at the end of the push.
HandledAsOfNow(p, d, a) ==
    /\ Upsert(Subject(task[p]), version[Subject(task[p])], d, task[p].lib)
    /\ Remember(p, d)
    /\ Become(p, NextItem(task[p], a))

\* The item counts as handled at the token its reference carries.
Handled(p, d, a) ==
    /\ Upsert(Subject(task[p]), Head(task[p].todo).token, d, task[p].lib)
    /\ Remember(p, d)
    /\ Become(p, NextItem(task[p], a))

\* Mutant of Defer: the parent of a deferred dependent keeps its new row.
DeferWithoutRestore(p) ==
    LET t == task[p] IN
    /\ Remember(p, t.doc)
    /\ Become(p, Outcome(t, IF IsPrimary(t) THEN "skipped_changed" ELSE t.action, TRUE))
    /\ UNCHANGED cursor

\* push_item returned deferred: dependents wait, and a parent whose dependent
\* is deferred gets the cursor row it had before its own push.
Defer(p) ==
    LET t == task[p] IN
    /\ Remember(p, t.doc)
    /\ IF IsPrimary(t)
       THEN /\ Become(p, Outcome(t, "skipped_changed", TRUE))
            /\ UNCHANGED cursor
       ELSE /\ Become(p, Outcome(t, t.action, TRUE))
            /\ Restore(t.ref, t.before)

\* Mutant of Raise: a dependent's exception is swallowed.
RaisePrimaryOnly(p) ==
    /\ Become(p, Outcome(task[p],
                         IF IsPrimary(task[p]) THEN "error" ELSE task[p].action, FALSE))
    /\ UNCHANGED <<cursor, pushed>>

\* An exception leaves push_ref or reap_orphan: nothing is undone.
Raise(p) == /\ Become(p, Outcome(task[p], "error", FALSE))
            /\ UNCHANGED <<cursor, pushed>>

\* The caller takes the outcome.
Collect(p) == /\ task[p].pc = "done"
              /\ LoopIdle
              /\ Become(p, Blank(AnItem, NoToken))
              /\ UNCHANGED <<srcVars, cursor, pushed, ragVars, faults>>

\* The client resumes p at pc with answer a; only its own state changes.
Resumes(p, pc, a) == /\ task[p].pc = pc
                     /\ task[p].answer = a
                     /\ RunsAlone(p)
                     /\ UNCHANGED <<srcVars, ragVars, faults>>

\* The service (or the source) answers p's request.
Waits(p, pc) == /\ task[p].pc = pc
                /\ task[p].answer = "none"
                /\ UNCHANGED <<srcVars, cursor, pushed, faults>>

Reply(p, a, d) == task' = [task EXCEPT ![p].answer = a, ![p].got = d]

-----------------------------------------------------------------------------
(* push_ref: up to the fetched item.                                       *)

\* Mutant of TokenUnchanged: any row counts.
RowPresent(t) == Has(t.ref)

TokenUnchanged(t) == /\ Has(t.ref)
                     /\ t.token # NoToken
                     /\ cursor[t.ref].token = t.token

\* A caller may call handler h about i: p is free and no coroutine is running.
Starts(p, i, h) == /\ task[p].pc = "idle"
                   /\ <<i, h>> \in Handles[p]
                   /\ LoopIdle
                   /\ UNCHANGED <<srcVars, cursor, pushed, ragVars, faults>>

Routed(i, tok) == [Blank(i, tok) EXCEPT !.home = route[i], !.lib = route[i]]

\* push_ref for a reference to i that carries token tok, an earlier one if the
\* reference is old: the route is resolved once, then the cursor is trusted,
\* the service is asked, or the item is fetched.
PushRef(p, i, tok) ==
    LET t == Routed(i, tok)
    IN  /\ Starts(p, i, "push_ref")
        /\ tok <= version[i]
        /\ \/ /\ route[i] = Unrouted
              /\ Become(p, Outcome(t, "unrouted", FALSE))
           \/ /\ route[i] # Unrouted
              /\ TokenUnchanged(t) /\ Knows(i, route[i])
              /\ Become(p, Outcome(t, "noop_unchanged", FALSE))
           \/ /\ route[i] # Unrouted
              /\ TokenUnchanged(t) /\ ~Knows(i, route[i])
              /\ Become(p, Ask(t, "lookup", NoDoc))
           \/ /\ route[i] # Unrouted
              /\ ~TokenUnchanged(t)
              /\ Become(p, Ask(t, "fetch", NoDoc))

\* find_document: the first listed document with exactly this external key.
ServeFind(p) ==
    /\ \E pc \in {"lookup", "find", "dlookup"} : Waits(p, pc)
    /\ LET found == Matches(task[p].lib, Subject(task[p]))
       IN  \/ \E d \in found : Reply(p, "found", d)
           \/ found = {} /\ Reply(p, "absent", NoDoc)
    /\ UNCHANGED ragVars

ResumeLookup(p) ==
    \/ /\ Resumes(p, "lookup", "found")
       /\ Backfill(task[p].ref, task[p].got, task[p].home)
       /\ Become(p, Outcome(task[p], "noop_unchanged", FALSE))
       /\ UNCHANGED pushed
    \/ /\ Resumes(p, "lookup", "absent")
       /\ Become(p, Ask(task[p], "fetch", NoDoc))
       /\ UNCHANGED <<cursor, pushed>>

\* The adapter reads the source: the item under the reference it was given,
\* its dependents under references of their own, all with the bytes of now.
Current(i) == Bytes[i][version[i]]

Fetched(t) ==
    <<[item |-> t.ref, token |-> t.token, payload |-> Current(t.ref)]>>
    \o [k \in 1 .. Len(Dependents[t.ref]) |->
           LET i == Dependents[t.ref][k]
           IN  [item |-> i, token |-> version[i], payload |-> Current(i)]]

ServeFetch(p) ==
    /\ Waits(p, "fetch")
    /\ IF live[task[p].ref]
       THEN Become(p, [task[p] EXCEPT !.answer = "fetched", !.todo = Fetched(task[p])])
       ELSE Reply(p, "absent", NoDoc)
    /\ UNCHANGED ragVars

ResumeFetch(p) ==
    /\ \/ /\ Resumes(p, "fetch", "absent")
          /\ Become(p, Outcome(task[p], "fetch_returned_none", FALSE))
       \/ /\ Resumes(p, "fetch", "fetched")
          /\ Become(p, [Ask(task[p], "item", NoDoc) EXCEPT
                           !.before = cursor[task[p].ref]])
    /\ UNCHANGED <<cursor, pushed>>

-----------------------------------------------------------------------------
(* push_item, _create and _revise.                                         *)

\* _create up to its request: on_new may say no.
StartCreate(t) == IF Policy[Subject(t)].on_new = "skip"
                  THEN NextItem(t, "skipped_new")
                  ELSE Ask(t, "create", NoDoc)

\* An existing document: on_changed marks the version handled without
\* pushing it, or _revise sends it.
PushChanged(p, d) ==
    IF Policy[Subject(task[p])].on_changed = "skip"
    THEN Handled(p, d, "skipped_changed")
    ELSE Become(p, Ask(task[p], "revise", d)) /\ UNCHANGED <<cursor, pushed>>

PushItem(p) ==
    LET t == task[p]
        i == Subject(t)
    IN  /\ Resumes(p, "item", "none")
        /\ IF pushed[<<t.lib, i>>] # NotPushed
           THEN Become(p, NextItem(t, "noop_unchanged")) /\ UNCHANGED <<cursor, pushed>>
           ELSE IF Knows(i, t.lib)
           THEN PushChanged(p, cursor[i].doc)
           ELSE Become(p, Ask(t, "find", NoDoc)) /\ UNCHANGED <<cursor, pushed>>

\* A found document is written into the item's row, if it has one.
ResumeFind(p) ==
    LET t == task[p] IN
    \/ /\ Resumes(p, "find", "absent")
       /\ Become(p, StartCreate(t))
       /\ UNCHANGED <<cursor, pushed>>
    \/ /\ Resumes(p, "find", "found")
       /\ Policy[Subject(t)].on_changed = "skip"
       /\ Handled(p, t.got, "skipped_changed")
    \/ /\ Resumes(p, "find", "found")
       /\ Policy[Subject(t)].on_changed = "replace"
       /\ Backfill(Subject(t), t.got, t.lib)
       /\ Become(p, Ask(t, "revise", t.got))
       /\ UNCHANGED pushed

ServeCreate(p) ==
    LET t == task[p]
        c == Head(t.todo).payload
    IN  /\ Waits(p, "create")
        /\ \E d \in DocIds \cup {NoDoc} :
              \/ AddDocument(t.lib, Subject(t), c, d) /\ Reply(p, "created", d)
              \/ RefuseDuplicate(t.lib, Subject(t), c, d) /\ Reply(p, "duplicate", d)

\* A duplicate is adopted at the token of the refused version, or raised.
ResumeCreate(p) ==
    LET t == task[p] IN
    \/ /\ Resumes(p, "create", "created")
       /\ Handled(p, t.got, "created")
    \/ /\ Resumes(p, "create", "duplicate")
       /\ Policy[Subject(t)].on_duplicate_content = "skip"
       /\ Handled(p, t.got, "skipped_duplicate_content")
    \/ /\ Resumes(p, "create", "duplicate")
       /\ Policy[Subject(t)].on_duplicate_content = "fail"
       /\ Raise(p)

ServeRevise(p) ==
    LET d == task[p].doc
        k == RevisionKey(task[p])
    IN  /\ Waits(p, "revise")
        /\ \/ RefuseGone(d) /\ Reply(p, "notfound", NoDoc)
           \/ RefuseBusy(d, k) /\ Reply(p, "conflict", NoDoc)
           \/ Dedupe(d, k) /\ Reply(p, "accepted", NoDoc)
           \/ Admit(d, k) /\ Reply(p, "accepted", NoDoc)

\* 404 drops the row and creates; a mutation in flight defers; else poll.
ResumeRevise(p) ==
    LET t == task[p] IN
    \/ /\ Resumes(p, "revise", "notfound")
       /\ Delete(Subject(t))
       /\ Become(p, StartCreate(t))
       /\ UNCHANGED pushed
    \/ /\ Resumes(p, "revise", "conflict")
       /\ Defer(p)
    \/ /\ Resumes(p, "revise", "accepted")
       /\ Become(p, Ask(t, "poll", t.doc))
       /\ UNCHANGED <<cursor, pushed>>

\* wait_for_operation returned or raised: the operation's status decides.
\* One still processing is left by a poll that ran out of budget.
Poll(p) ==
    LET t == task[p]
        s == op[t.doc][RevisionKey(t)]
    IN  /\ Resumes(p, "poll", "none")
        /\ \/ s = "ready" /\ Handled(p, t.doc, "replaced")
           \/ s = "failed" /\ Raise(p)
           \/ s \in {"superseded", "canceled"} /\ Defer(p)

\* Mutant of PollTimeout: an operation still in flight counts as done.
PollGivesUp(p) ==
    /\ Resumes(p, "poll", "none")
    /\ op[task[p].doc][RevisionKey(task[p])] = "processing"
    /\ Handled(p, task[p].doc, "replaced")

PollTimeout(p) ==
    /\ Resumes(p, "poll", "none")
    /\ op[task[p].doc][RevisionKey(task[p])] = "processing"
    /\ Defer(p)

-----------------------------------------------------------------------------
(* delete_by_ref and reap_orphan.                                          *)

DeleteByRef(p, i) ==
    LET t == Routed(i, NoToken)
    IN  /\ Starts(p, i, "delete_by_ref")
        /\ Become(p, IF route[i] = Unrouted
                     THEN Outcome(t, "unrouted", FALSE)
                     ELSE Ask(t, "dlookup", NoDoc))

\* reap_orphan up to its request: on_missing may say no.
StartReap(t, d) == IF Policy[t.ref].on_missing = "ignore"
                   THEN Outcome(t, "skipped_missing", FALSE)
                   ELSE Ask(t, "delete", d)

\* reap_orphan called for a document that was listed under i's key.
ReapOrphan(p, i, d) ==
    /\ Starts(p, i, "reap_orphan")
    /\ docs[d].key = i
    /\ Become(p, StartReap([Blank(i, NoToken) EXCEPT
                               !.home = docs[d].lib, !.lib = docs[d].lib], d))

ResumeDeleteLookup(p) ==
    LET t == task[p] IN
    /\ \/ /\ Resumes(p, "dlookup", "absent")
          /\ Become(p, Outcome(t, "skipped_missing", FALSE))
       \/ /\ Resumes(p, "dlookup", "found")
          /\ Become(p, StartReap(t, t.got))
    /\ UNCHANGED <<cursor, pushed>>

ServeDelete(p) ==
    LET d == task[p].doc
    IN  /\ Waits(p, "delete")
        /\ \/ RefuseGone(d) /\ Reply(p, "notfound", NoDoc)
           \/ RefuseBusy(d, Deletion) /\ Reply(p, "conflict", NoDoc)
           \/ Admit(d, Deletion) /\ Reply(p, "accepted", NoDoc)

\* The cursor row goes if it still names the document that was deleted.
Reaped(p) ==
    LET t == task[p] IN
    /\ IF Has(t.ref) /\ cursor[t.ref].doc = t.doc /\ cursor[t.ref].lib = t.lib
       THEN Delete(t.ref)
       ELSE UNCHANGED cursor
    /\ Become(p, Outcome(t, "deleted", FALSE))
    /\ UNCHANGED pushed

ResumeDelete(p) ==
    \/ Resumes(p, "delete", "notfound") /\ Reaped(p)
    \/ Resumes(p, "delete", "conflict") /\ Raise(p)
    \/ /\ Resumes(p, "delete", "accepted")
       /\ Become(p, Ask(task[p], "dpoll", task[p].doc))
       /\ UNCHANGED <<cursor, pushed>>

\* Any terminal status but "failed" counts as deleted; a poll that runs out of
\* budget raises.
DeletePoll(p) ==
    LET s == op[task[p].doc][Deletion]
    IN  /\ Resumes(p, "dpoll", "none")
        /\ \/ s \in {"ready", "superseded", "canceled"} /\ Reaped(p)
           \/ s \in {"failed", "processing"} /\ Raise(p)

-----------------------------------------------------------------------------
(* Faults, the source, routing, the service's own steps.                   *)

Fault == faults < MaxFaults /\ faults' = faults + 1

\* A call is cut at an await: item timeout, transport error, 5xx, cancellation.
\* A request the service already answered stays applied.
Abort(p) ==
    /\ Fault
    /\ task[p].pc \in Await
    /\ RunsAlone(p)
    /\ Raise(p)
    /\ UNCHANGED <<srcVars, ragVars>>

\* The process dies and restarts: only the cursor is left.
Crash ==
    /\ Fault
    /\ task' = [p \in Tasks |-> Blank(AnItem, NoToken)]
    /\ pushed' = [x \in Libraries \X Items |-> NotPushed]
    /\ UNCHANGED <<srcVars, cursor, ragVars>>

\* Mutant of ResetSweepCache: the cache outlives the sweep.
KeepSweepCache == LoopIdle /\ UNCHANGED vars

ResetSweepCache ==
    /\ LoopIdle
    /\ pushed' = [x \in Libraries \X Items |-> NotPushed]
    /\ UNCHANGED <<srcVars, cursor, task, ragVars, faults>>

Edit(i) ==
    /\ live[i]
    /\ version[i] < MaxVersion
    /\ version' = [version EXCEPT ![i] = @ + 1]
    /\ UNCHANGED <<live, route, cursor, pushed, task, ragVars, faults>>

\* An item leaves the source, or comes back as it was.
Vanish(i) ==
    /\ i \in (IF live[i] THEN CanVanish ELSE CanReturn)
    /\ live' = [live EXCEPT ![i] = ~@]
    /\ UNCHANGED <<version, route, cursor, pushed, task, ragVars, faults>>

\* A routing reload takes effect, or the item's routing facts change.
Reroute(i) ==
    /\ LoopIdle
    /\ \E l \in Targets \ {route[i]} : route' = [route EXCEPT ![i] = l]
    /\ UNCHANGED <<version, live, cursor, pushed, task, ragVars, faults>>

Settle(d, k) == Apply(d, k) /\ UNCHANGED <<srcVars, cursor, pushed, task, faults>>

Misfire(d, k) ==
    /\ Fault
    /\ \E s \in {"failed", "canceled"} : Abandon(d, k, s)
    /\ UNCHANGED <<srcVars, cursor, pushed, task>>

\* Somebody deletes the document on the service.
Remove(d) ==
    /\ d \in Removable
    /\ RemoveByHand(d)
    /\ UNCHANGED <<srcVars, cursor, pushed, task, faults>>

\* seed.py, a process of its own: a document it lists gets its item a cursor
\* row without a token, over the one that is there.
Seed(d) ==
    /\ d \in Seedable
    /\ Active(d)
    /\ docs[d].key \in Items
    /\ Upsert(docs[d].key, NoToken, d, docs[d].lib)
    /\ UNCHANGED <<srcVars, pushed, task, ragVars, faults>>

-----------------------------------------------------------------------------
Serve(p)  == \/ ServeFind(p) \/ ServeFetch(p) \/ ServeCreate(p)
             \/ ServeRevise(p) \/ ServeDelete(p)

Run(p)    == \/ ResumeLookup(p) \/ ResumeFetch(p)
             \/ PushItem(p) \/ ResumeFind(p) \/ ResumeCreate(p) \/ ResumeRevise(p)
             \/ Poll(p) \/ PollTimeout(p)
             \/ ResumeDeleteLookup(p) \/ ResumeDelete(p) \/ DeletePoll(p)

Call(p)   == \E i \in Items : \/ \E tok \in Versions : PushRef(p, i, tok)
                              \/ DeleteByRef(p, i)
                              \/ \E d \in DocIds : ReapOrphan(p, i, d)

Source    == \E i \in Items : Edit(i) \/ Vanish(i) \/ Reroute(i)

Service   == \E d \in DocIds : \/ Remove(d)
                               \/ \E k \in OpKeys : Settle(d, k) \/ Misfire(d, k)

Seeder    == \E d \in DocIds : Seed(d)

Next == \/ \E p \in Tasks : Call(p) \/ Run(p) \/ Serve(p) \/ Abort(p) \/ Collect(p)
        \/ Source \/ Service \/ Seeder \/ Crash \/ ResetSweepCache

Spec == Init /\ [][Next]_vars

-----------------------------------------------------------------------------
(* What the connector promises.                                            *)

\* Bytes that belong to version v of i, or to a later one.
AtLeast(i, v) == {Bytes[i][w] : w \in v .. MaxVersion}

Owns(i, d) == d \in DocIds => docs[d].key = i

\* Ownership.  Every document id the connector holds for an item - in its
\* cursor row, in the sweep cache, in a call under way - names a document that
\* was created under that item's own external key.
CursorOwnsDocument ==
    /\ \A i \in Items : Has(i) => Owns(i, cursor[i].doc)
    /\ \A l \in Libraries, i \in Items : Owns(i, pushed[<<l, i>>])
    /\ \A p \in Tasks : /\ Owns(Subject(task[p]), task[p].doc)
                        /\ Owns(Subject(task[p]), task[p].got)

\* Ownership rests on bytes telling items apart: a duplicate_content refusal
\* names whichever document has the bytes.
DistinctPayloads ==
    \A i, j \in Items, v, w \in Versions : Bytes[i][v] = Bytes[j][w] => i = j

\* A cursor row that claims a version is never ahead of the document it names:
\* while that document exists it carries the version, or a later one.
FreshCursor ==
    \A i \in Items :
        Has(i) /\ cursor[i].token # NoToken /\ Active(cursor[i].doc)
            => docs[cursor[i].doc].content \in AtLeast(i, cursor[i].token)

\* A call that reports its write deferred leaves the cursor such that the same
\* reference, seen again by the next sweep, is fetched again.
DeferredIsRetried ==
    \A p \in Tasks : task[p].pc = "done" /\ task[p].deferred
                        => ~TokenUnchanged(task[p])

\* A call has just ended with one of the outcomes x.
Reported(p, x) == task[p].pc = "done" /\ task[p].action \in x /\ ~task[p].deferred

\* A parent reported created or replaced, with nothing deferred, has every
\* dependent of its in the cursor with a document of its own.
CompletePush ==
    \A p \in Tasks : Reported(p, {"created", "replaced"}) =>
        \A k \in DOMAIN Dependents[task[p].ref] :
            LET i == Dependents[task[p].ref][k]
            IN  Has(i) /\ cursor[i].doc # NoDoc

\* A cursor row names a document of the library it names, through every change
\* of route, for items whose duplicates are refused: one adopted without a
\* document id leaves the earlier library's document in the row.
RowInLibrary ==
    \A i \in Items :
        Has(i) /\ Policy[i].on_duplicate_content = "fail" /\ cursor[i].doc # NoDoc
            => docs[cursor[i].doc].lib = cursor[i].lib

\* An adopted duplicate is revised by the next push of the same reference,
\* unless the document already carries that version.
AdoptedIsRevised ==
    \A p \in Tasks : Reported(p, {"skipped_duplicate_content"}) =>
        LET i == task[p].ref
        IN  TokenUnchanged(task[p]) /\ Active(cursor[i].doc)
                => docs[cursor[i].doc].content \in AtLeast(i, task[p].token)

\* A parent whose row claims a version, and that no call is working on, has
\* had its dependents pushed with it.
ParentWithDependents ==
    \A i \in Items :
        Has(i) /\ cursor[i].token # NoToken
            /\ (\A p \in Tasks : task[p].pc \in {"idle", "done"} \/ task[p].ref # i)
        => \A k \in DOMAIN Dependents[i] : Has(Dependents[i][k])
=============================================================================
