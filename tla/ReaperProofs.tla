----------------------------- MODULE ReaperProofs -----------------------------
(***************************************************************************)
(* What the reaper and the webhooks may delete.                            *)
(*                                                                         *)
(* First, where items do not return to the source and routing knows one    *)
(* library: all that deletes, deletes what has left the source (GoneInv).  *)
(* MirrorProofs rests on it.  What makes a document an orphan is decided   *)
(* in one step and acted on in later ones, so the invariant says of every  *)
(* place that holds the decision - the items a sweep has not seen, the     *)
(* orphans it listed, the calls that delete - that the item is gone.       *)
(*                                                                         *)
(* Then, for every value of the constants: ReaperSparesLive of             *)
(* ReaperHistory, by an invariant of the same kind about steady items.     *)
(***************************************************************************)
EXTENDS SyncProofs, ReaperHistory

\* Routing sends every item to one library, or nowhere.
OneLibrary == \E l \in Libraries : Targets \subseteq {l, Unrouted}

Home     == CHOOSE l \in Libraries : Targets \subseteq {l, Unrouted}
Anywhere == {Home, Unrouted}

Gone(i)     == i \in Primary /\ ~live[i]
AtHome(t)   == t.home \in Anywhere /\ t.lib \in Anywhere
Deleting(t) == t.pc \in {"dlookup", "delete", "dpoll"}

RoutesHome == \A i \in Items : route[i] \in Anywhere

DocsHome == \A d \in DocIds : docs[d].state # "free" =>
                docs[d].key \in Items /\ docs[d].lib = Home

TasksHome   == \A p \in Tasks : AtHome(task[p])
DeletesGone == \A p \in Tasks : Deleting(task[p]) => Gone(task[p].ref)

\* What a sweep does not find is gone.
SweepGone ==
    /\ phase \in {"listing", "reaping"} => unlisted = {}
    /\ phase # "idle" => \A i \in Primary \ (unlisted \cup seen) : ~live[i]
    /\ \A i \in Items : targets[i] \subseteq {Home}
    /\ \A d \in orphans : docs[d].state # "free" /\ Gone(docs[d].key)

\* Nothing is in flight on a document that is still to be created.
Unborn == \A d \in DocIds : docs[d].state = "free" => \A k \in OpKeys : op[d][k] = "none"

GoneInv == Unborn /\ RoutesHome /\ DocsHome /\ TasksHome /\ DeletesGone /\ SweepGone

LEMMA HomeFacts ==
    ASSUME OneLibrary
    PROVE  Home \in Libraries /\ Targets \subseteq Anywhere /\ Unrouted \notin Libraries
  BY TargetsAssumption DEF OneLibrary, Home, Anywhere

-----------------------------------------------------------------------------
(* Documents.                                                              *)

\* A document stays where it is, under the key it has.
DocsKept == \A d \in DocIds : docs[d].state # "free" =>
                /\ docs'[d].state # "free"
                /\ docs'[d].key = docs[d].key /\ docs'[d].lib = docs[d].lib

\* What a step makes of documents: it creates one for a call in push_item, or
\* changes the bytes or the state of those there are.
LEMMA DocsStep ==
    ASSUME TypeInv, Unborn, Next \/ Aside
    PROVE  /\ DocsKept
           /\ \A d \in DocIds : docs[d].state = "free" =>
                 \/ docs'[d].state = "free"
                 \/ \E p \in Tasks : /\ Pushing(task[p]) /\ task[p].pc = "create"
                                     /\ docs'[d].key = Subject(task[p])
                                     /\ docs'[d].lib = task[p].lib
<1> DEFINE Goal == /\ DocsKept
                   /\ \A d \in DocIds : docs[d].state = "free" =>
                         \/ docs'[d].state = "free"
                         \/ \E p \in Tasks : /\ Pushing(task[p]) /\ task[p].pc = "create"
                                             /\ docs'[d].key = Subject(task[p])
                                             /\ docs'[d].lib = task[p].lib
<1>1. docs \in [DocIds -> Document] /\ RagOK
  BY DEF TypeInv, IronRagTypeOK, RagOK
<1>2. CASE UNCHANGED docs
  BY <1>2 DEF DocsKept
<1>3. ASSUME NEW d \in DocIds, docs[d].state # "free",
             docs'[d].state # "free", docs'[d].key = docs[d].key,
             docs'[d].lib = docs[d].lib,
             \A e \in DocIds \ {d} : docs'[e] = docs[e]
      PROVE  Goal
  BY <1>3 DEF DocsKept
<1>4. ASSUME NEW p \in Tasks, Serve(p)
      PROVE  Goal
  <2>1. CASE ServeFind(p) \/ ServeFetch(p) \/ ServeRevise(p) \/ ServeDelete(p)
    BY <1>2, <2>1 DEF ServeFind, ServeFetch, ServeRevise, ServeDelete, Waits, ragVars,
                      RefuseGone, RefuseBusy, Dedupe, Admit
  <2>2. CASE ServeCreate(p)
    <3> DEFINE t == task[p]
               c == Head(t.todo).payload
    <3>1. Pushing(t) /\ t.pc = "create"
      BY <2>2, TaskFacts DEF ServeCreate, Waits
    <3>2. PICK d \in DocIds \cup {NoDoc} : \/ AddDocument(t.lib, Subject(t), c, d)
                                           \/ RefuseDuplicate(t.lib, Subject(t), c, d)
      BY <2>2 DEF ServeCreate
    <3> HIDE DEF c, t
    <3>3. CASE AddDocument(t.lib, Subject(t), c, d)
      <4> DEFINE new == [state |-> "active", lib |-> t.lib, key |-> Subject(t), content |-> c]
      <4>1. docs' = [docs EXCEPT ![d] = new] /\ new.lib = t.lib /\ new.key = Subject(t)
        BY <3>3 DEF AddDocument
      <4>2. d \in Free
        BY <3>3 DEF AddDocument
      <4>3. d \in DocIds /\ docs[d].state = "free"
        BY <4>2 DEF Free
      <4> HIDE DEF new
      <4>4. \A e \in DocIds : docs'[e] = IF e = d THEN new ELSE docs[e]
        BY <1>1, <4>1
      <4>5. QED
        BY <3>1, <4>1, <4>3, <4>4 DEF t, DocsKept
    <3>4. CASE RefuseDuplicate(t.lib, Subject(t), c, d)
      BY <1>2, <3>4 DEF RefuseDuplicate
    <3>5. QED
      BY <3>2, <3>3, <3>4
  <2>3. QED
    BY <1>4, <2>1, <2>2 DEF Serve
<1>5. ASSUME NEW d \in DocIds, docs[d].state # "free", Bury(d)
      PROVE  Goal
  <2> DEFINE new == [docs[d] EXCEPT !.state = "deleted", !.content = NoPayload]
  <2>1. docs[d] \in Document
    BY <1>1
  <2>2. new.state = "deleted" /\ new.key = docs[d].key /\ new.lib = docs[d].lib
    BY <2>1 DEF Document
  <2>3. docs' = [docs EXCEPT ![d] = new]
    BY <1>1, <1>5 DEF Bury
  <2> HIDE DEF new
  <2>4. \A e \in DocIds : docs'[e] = IF e = d THEN new ELSE docs[e]
    BY <1>1, <2>3
  <2>5. QED
    BY <1>3, <1>5, <2>2, <2>4
<1>6. ASSUME NEW d \in DocIds, NEW c, docs' = [docs EXCEPT ![d].content = c]
      PROVE  Goal
  <2> DEFINE new == [docs[d] EXCEPT !.content = c]
  <2>1. docs[d] \in Document
    BY <1>1
  <2>2. new.state = docs[d].state /\ new.key = docs[d].key /\ new.lib = docs[d].lib
    BY <2>1 DEF Document
  <2>3. docs' = [docs EXCEPT ![d] = new]
    BY <1>1, <1>6
  <2> HIDE DEF new
  <2>4. \A e \in DocIds : docs'[e] = IF e = d THEN new ELSE docs[e]
    BY <1>1, <2>3
  <2>5. QED
    BY <2>2, <2>4 DEF DocsKept
<1>7. CASE Service
  <2>1. PICK d \in DocIds : \/ Remove(d)
                            \/ \E k \in OpKeys : Settle(d, k) \/ Misfire(d, k)
    BY <1>7 DEF Service
  <2>2. CASE Remove(d)
    BY <1>5, <2>2 DEF Remove, RemoveByHand, Active
  <2>3. ASSUME NEW k \in OpKeys, Settle(d, k)
        PROVE  Goal
    <3>1. \/ Bury(d)
          \/ docs' = [docs EXCEPT ![d].content = k[2]]
      BY <2>3 DEF Settle, Apply
    <3>2. docs[d].state # "free"
      BY <2>3 DEF Settle, Apply, Unborn
    <3>3. QED
      BY <1>5, <1>6, <3>1, <3>2
  <2>4. ASSUME NEW k \in OpKeys, Misfire(d, k)
        PROVE  Goal
    BY <1>2, <2>4 DEF Misfire, Abandon
  <2>5. QED
    BY <2>1, <2>2, <2>3, <2>4
<1>8. CASE Source \/ Seeder \/ Crash \/ ResetSweepCache \/ Aside
  BY <1>2, <1>8 DEF Source, Edit, Vanish, Reroute, Seeder, Seed, Crash, ResetSweepCache,
                    Aside, ragVars
<1>9. ASSUME NEW p \in Tasks, Call(p) \/ Run(p) \/ Abort(p) \/ Collect(p)
      PROVE  Goal
  <2>1. UNCHANGED docs
    BY <1>9 DEF Call, PushRef, DeleteByRef, ReapOrphan, Starts, Run, ResumeLookup,
       ResumeFetch, PushItem, ResumeFind, ResumeCreate, ResumeRevise, Poll, PollTimeout,
       ResumeDeleteLookup, ResumeDelete, DeletePoll, Resumes, Abort, Collect, ragVars
  <2>2. QED
    BY <1>2, <2>1
<1>10. QED
  BY <1>4, <1>7, <1>8, <1>9 DEF Next

LEMMA UnbornStep ==
    ASSUME TypeInv, Unborn, Next \/ Aside
    PROVE  Unborn'
<1>1. op \in [DocIds -> [OpKeys -> Status]]
  BY DEF TypeInv, IronRagTypeOK
<1>2. \A d \in DocIds : docs'[d].state = "free" => docs[d].state = "free"
  BY DocsStep DEF DocsKept
<1>3. CASE UNCHANGED op
  BY <1>2, <1>3 DEF Unborn
<1>4. ASSUME NEW d \in DocIds, docs[d].state # "free",
             \A e \in DocIds \ {d} : op'[e] = op[e]
      PROVE  Unborn'
  BY <1>2, <1>4 DEF Unborn
<1>5. ASSUME NEW d \in DocIds, docs[d].state # "free", NEW f, op' = [op EXCEPT ![d] = f]
      PROVE  Unborn'
  <2>1. \A e \in DocIds \ {d} : op'[e] = op[e]
    BY <1>1, <1>5
  <2>2. QED
    BY <1>4, <1>5, <2>1
<1>6. ASSUME NEW p \in Tasks, Serve(p)
      PROVE  Unborn'
  <2>1. CASE ServeFind(p) \/ ServeFetch(p) \/ ServeCreate(p)
    BY <1>3, <2>1 DEF ServeFind, ServeFetch, ServeCreate, ragVars, AddDocument, RefuseDuplicate
  <2>2. CASE ServeRevise(p) \/ ServeDelete(p)
    <3>1. UNCHANGED op \/ \E k : Admit(task[p].doc, k)
      BY <2>2 DEF ServeRevise, ServeDelete, RefuseGone, RefuseBusy, Dedupe
    <3>2. ASSUME NEW k, Admit(task[p].doc, k)
          PROVE  Unborn'
      BY <1>5, <3>2 DEF Admit, Active
    <3>3. QED
      BY <1>3, <3>1, <3>2
  <2>3. QED
    BY <1>6, <2>1, <2>2 DEF Serve
<1>7. CASE Service
  <2>1. PICK d \in DocIds : \/ Remove(d)
                            \/ \E k \in OpKeys : Settle(d, k) \/ Misfire(d, k)
    BY <1>7 DEF Service
  <2>2. CASE Remove(d)
    BY <1>5, <2>2 DEF Remove, RemoveByHand, Active
  <2>3. ASSUME NEW k \in OpKeys, Settle(d, k) \/ Misfire(d, k)
        PROVE  Unborn'
    <3>1. docs[d].state # "free"
      BY <2>3 DEF Settle, Apply, Misfire, Abandon, Unborn
    <3>2. \/ op' = [op EXCEPT ![d] = Ended(d, k, "ready")]
          \/ \E s : op' = [op EXCEPT ![d][k] = s]
      BY <2>3 DEF Settle, Apply, Misfire, Abandon
    <3>3. ASSUME NEW s, op' = [op EXCEPT ![d][k] = s]
          PROVE  Unborn'
      <4>1. \A e \in DocIds \ {d} : op'[e] = op[e]
        BY <1>1, <3>3
      <4>2. QED
        BY <1>4, <3>1, <4>1
    <3>4. QED
      BY <1>5, <3>1, <3>2, <3>3
  <2>4. QED
    BY <2>1, <2>2, <2>3
<1>8. CASE Source \/ Seeder \/ Crash \/ ResetSweepCache \/ Aside
  BY <1>3, <1>8 DEF Source, Edit, Vanish, Reroute, Seeder, Seed, Crash, ResetSweepCache,
                    Aside, ragVars
<1>9. ASSUME NEW p \in Tasks, Call(p) \/ Run(p) \/ Abort(p) \/ Collect(p)
      PROVE  Unborn'
  <2>1. UNCHANGED op
    BY <1>9 DEF Call, PushRef, DeleteByRef, ReapOrphan, Starts, Run, ResumeLookup,
       ResumeFetch, PushItem, ResumeFind, ResumeCreate, ResumeRevise, Poll, PollTimeout,
       ResumeDeleteLookup, ResumeDelete, DeletePoll, Resumes, Abort, Collect, ragVars
  <2>2. QED
    BY <1>3, <2>1
<1>10. QED
  BY <1>6, <1>7, <1>8, <1>9 DEF Next

\* Documents are where routing sends items.
LEMMA DocsHomeStep ==
    ASSUME OneLibrary, TypeInv, GoneInv, Next \/ Aside
    PROVE  DocsHome'
<1>1. ASSUME NEW p \in Tasks, Pushing(task[p])
      PROVE  Subject(task[p]) \in Items /\ task[p].lib = Home
  BY <1>1, TaskFacts, SubjectType, HomeFacts DEF Pushing, GoneInv, TasksHome, AtHome, Anywhere
<1>2. ASSUME NEW d \in DocIds, docs'[d].state # "free"
      PROVE  docs'[d].key \in Items /\ docs'[d].lib = Home
  BY <1>1, <1>2, DocsStep DEF DocsKept, DocsHome, GoneInv
<1>3. QED
  BY <1>2 DEF DocsHome

-----------------------------------------------------------------------------
(* Calls.                                                                  *)

\* What a call becomes when it goes on: still in the one library, and deleting
\* only if it was, the same item.
Heads(p, u) == /\ Become(p, u)
               /\ AtHome(u)
               /\ Deleting(u) => Deleting(task[p]) /\ u.ref = task[p].ref

\* The operators that build a task.
LEMMA FormsAtHome ==
    ASSUME NEW t \in Task, AtHome(t), RoutesHome
    PROVE  /\ \A a, b : AtHome(Outcome(t, a, b)) /\ ~Deleting(Outcome(t, a, b))
           /\ \A pc, d : /\ AtHome(Ask(t, pc, d)) /\ Ask(t, pc, d).pc = pc
                         /\ Ask(t, pc, d).ref = t.ref
           /\ \A a : t.todo # <<>> => AtHome(NextItem(t, a)) /\ ~Deleting(NextItem(t, a))
<1>1. ASSUME NEW a, NEW b
      PROVE  AtHome(Outcome(t, a, b)) /\ ~Deleting(Outcome(t, a, b))
  <2>1. /\ Outcome(t, a, b).home = t.home /\ Outcome(t, a, b).lib = Unrouted
        /\ Outcome(t, a, b).pc = "done"
    BY DEF Outcome, Blank
  <2>2. QED
    BY <2>1 DEF AtHome, Anywhere, Deleting
<1>2. ASSUME NEW pc, NEW d
      PROVE  /\ AtHome(Ask(t, pc, d)) /\ Ask(t, pc, d).pc = pc /\ Ask(t, pc, d).ref = t.ref
             /\ Ask(t, pc, d).home = t.home
             /\ \A x, l, z : LET n == [Ask(t, pc, d) EXCEPT !.todo = x, !.lib = l, !.action = z]
                             IN  n.home = t.home /\ n.lib = l /\ n.pc = pc
  BY DEF Ask, Task, AtHome
<1>3. ASSUME NEW a, t.todo # <<>>
      PROVE  AtHome(NextItem(t, a)) /\ ~Deleting(NextItem(t, a))
  <2> DEFINE rest == Tail(t.todo)
             main == IF IsPrimary(t) THEN a ELSE t.action
             l == DependentLibrary(t, Head(rest).item)
  <2>1. CASE rest = <<>>
    BY <1>1, <2>1 DEF NextItem
  <2>2. CASE rest # <<>>
    <3>1. rest \in Seq(SourceItem)
      BY <1>3, SubjectType
    <3>2. Head(rest) \in SourceItem
      BY <2>2, <3>1, HeadTailProperties, Zenon
    <3>3. l \in Anywhere
      BY <3>2 DEF SourceItem, DependentLibrary, RoutesHome, AtHome
    <3>4. NextItem(t, a) = [Ask(t, "item", NoDoc) EXCEPT !.todo = rest, !.lib = l, !.action = main]
      BY <2>2 DEF NextItem
    <3> HIDE DEF l, main, rest
    <3>5. NextItem(t, a).home = t.home /\ NextItem(t, a).lib = l /\ NextItem(t, a).pc = "item"
      BY <1>2, <3>4
    <3>6. QED
      BY <3>3, <3>5 DEF AtHome, Deleting
  <2>3. QED
    BY <2>1, <2>2
<1>4. QED
  BY <1>1, <1>2, <1>3

\* The ways in which a handler goes on.
LEMMA SharedHeads ==
    ASSUME RoutesHome, NEW p \in Tasks, task[p] \in Task, AtHome(task[p])
    PROVE  /\ \A a, b : Become(p, Outcome(task[p], a, b)) => \E u : Heads(p, u)
           /\ \A pc, d : /\ pc \in {"dlookup", "delete", "dpoll"} => Deleting(task[p])
                         /\ Become(p, Ask(task[p], pc, d))
                         => \E u : Heads(p, u)
           /\ \A a : task[p].todo # <<>> /\ Become(p, NextItem(task[p], a)) => \E u : Heads(p, u)
           /\ \A d, a : task[p].todo # <<>> /\ Handled(p, d, a) => \E u : Heads(p, u)
           /\ Defer(p) \/ Raise(p) => \E u : Heads(p, u)
           /\ task[p].todo # <<>> /\ Become(p, StartCreate(task[p])) => \E u : Heads(p, u)
           /\ \A d : Deleting(task[p]) /\ Become(p, StartReap(task[p], d)) => \E u : Heads(p, u)
           /\ \A a, d : Reply(p, a, d) => \E u : Heads(p, u)
<1>1. \A a, b : Become(p, Outcome(task[p], a, b)) => \E u : Heads(p, u)
  BY FormsAtHome DEF Heads
<1>2. \A pc, d : /\ pc \in {"dlookup", "delete", "dpoll"} => Deleting(task[p])
                 /\ Become(p, Ask(task[p], pc, d))
                 => \E u : Heads(p, u)
  BY FormsAtHome DEF Heads, Deleting
<1>3. \A a : task[p].todo # <<>> /\ Become(p, NextItem(task[p], a)) => \E u : Heads(p, u)
  BY FormsAtHome DEF Heads
<1>4. ASSUME NEW a, NEW d, Reply(p, a, d)
      PROVE  \E u : Heads(p, u)
  <2> DEFINE u == [task[p] EXCEPT !.answer = a, !.got = d]
  <2>1. Become(p, u)
    BY <1>4 DEF Reply, Become
  <2>2. u.home = task[p].home /\ u.lib = task[p].lib /\ u.pc = task[p].pc /\ u.ref = task[p].ref
    BY DEF Task
  <2> HIDE DEF u
  <2>3. QED
    BY <2>1, <2>2 DEF Heads, AtHome, Deleting
<1>5. \A d, a : task[p].todo # <<>> /\ Handled(p, d, a) => \E u : Heads(p, u)
  BY <1>3 DEF Handled
<1>6. Defer(p) \/ Raise(p) => \E u : Heads(p, u)
  BY <1>1 DEF Defer, Raise
<1>7. task[p].todo # <<>> /\ Become(p, StartCreate(task[p])) => \E u : Heads(p, u)
  BY <1>2, <1>3 DEF StartCreate
<1>8. \A d : Deleting(task[p]) /\ Become(p, StartReap(task[p], d)) => \E u : Heads(p, u)
  BY <1>1, <1>2 DEF StartReap
<1>9. QED
  BY <1>1, <1>2, <1>3, <1>4, <1>5, <1>6, <1>7, <1>8

LEMMA RunHeads ==
    ASSUME TypeInv, GoneInv, NEW p \in Tasks, Run(p)
    PROVE  \E u : Heads(p, u)
<1>1. /\ task[p] \in Task /\ AtHome(task[p]) /\ RoutesHome
      /\ task[p].pc \in {"item", "find", "create", "revise", "poll"} => task[p].todo # <<>>
  BY TaskFacts DEF Pushing, GoneInv, TasksHome
<1>2. CASE ResumeLookup(p) \/ ResumeFetch(p)
  <2>1. ASSUME Become(p, [Ask(task[p], "item", NoDoc) EXCEPT !.before = cursor[task[p].ref]])
        PROVE  \E u : Heads(p, u)
    <3> DEFINE n == [Ask(task[p], "item", NoDoc) EXCEPT !.before = cursor[task[p].ref]]
    <3>1. n.home = task[p].home /\ n.lib = task[p].lib /\ n.pc = "item"
      BY <1>1 DEF Ask, Task
    <3>2. Become(p, n)
      BY <2>1
    <3> HIDE DEF n
    <3>3. QED
      BY <1>1, <3>1, <3>2 DEF Heads, AtHome, Deleting
  <2>2. CASE Become(p, Outcome(task[p], "noop_unchanged", FALSE))
             \/ Become(p, Outcome(task[p], "fetch_returned_none", FALSE))
    BY <1>1, <2>2, SharedHeads
  <2>3. CASE Become(p, Ask(task[p], "fetch", NoDoc))
    BY <1>1, <2>3, SharedHeads
  <2>4. QED
    BY <1>2, <2>1, <2>2, <2>3 DEF ResumeLookup, ResumeFetch
<1>3. CASE PushItem(p) \/ ResumeFind(p) \/ ResumeCreate(p)
  <2>1. task[p].todo # <<>>
    BY <1>1, <1>3 DEF PushItem, ResumeFind, ResumeCreate, Resumes
  <2>2. QED
    <3>1. \/ \E a : Become(p, NextItem(task[p], a))
          \/ \E d, a : Handled(p, d, a)
          \/ \E d : Become(p, Ask(task[p], "revise", d))
          \/ Become(p, Ask(task[p], "find", NoDoc))
          \/ Become(p, StartCreate(task[p])) \/ Raise(p)
      BY <1>3 DEF PushItem, ResumeFind, ResumeCreate, PushChanged
    <3>2. QED
      BY <1>1, <2>1, <3>1, SharedHeads
<1>4. CASE ResumeRevise(p) \/ Poll(p) \/ PollTimeout(p)
  <2>1. task[p].todo # <<>>
    BY <1>1, <1>4 DEF ResumeRevise, Poll, PollTimeout, Resumes
  <2>2. QED
    BY <1>1, <1>4, <2>1, SharedHeads DEF ResumeRevise, Poll, PollTimeout
<1>5. CASE ResumeDeleteLookup(p) \/ ResumeDelete(p) \/ DeletePoll(p)
  <2>1. Deleting(task[p])
    BY <1>5 DEF ResumeDeleteLookup, ResumeDelete, DeletePoll, Resumes, Deleting
  <2>2. QED
    BY <1>1, <1>5, <2>1, SharedHeads DEF ResumeDeleteLookup, ResumeDelete, DeletePoll, Reaped
<1>6. QED
  BY <1>2, <1>3, <1>4, <1>5 DEF Run

LEMMA ServeHeads ==
    ASSUME TypeInv, GoneInv, NEW p \in Tasks, Serve(p)
    PROVE  \E u : Heads(p, u)
<1>1. task[p] \in Task /\ AtHome(task[p]) /\ RoutesHome
  BY TaskFacts DEF GoneInv, TasksHome
<1>2. \A a, d : Reply(p, a, d) => \E u : Heads(p, u)
  BY <1>1, SharedHeads
<1>3. CASE ServeFind(p) \/ ServeCreate(p) \/ ServeRevise(p) \/ ServeDelete(p)
  BY <1>2, <1>3 DEF ServeFind, ServeCreate, ServeRevise, ServeDelete
<1>4. CASE ServeFetch(p)
  <2> DEFINE n == [task[p] EXCEPT !.answer = "fetched", !.todo = Fetched(task[p])]
  <2>1. n.home = task[p].home /\ n.lib = task[p].lib /\ n.pc = task[p].pc /\ n.ref = task[p].ref
    BY <1>1 DEF Task
  <2> HIDE DEF n
  <2>2. Become(p, n) => \E u : Heads(p, u)
    BY <1>1, <2>1 DEF Heads, AtHome, Deleting
  <2>3. QED
    BY <1>2, <1>4, <2>2 DEF ServeFetch, n
<1>5. QED
  BY <1>3, <1>4 DEF Serve

\* A call that starts is in the one library, and deletes what is gone.
Enters(p) == \E u : Become(p, u) /\ AtHome(u) /\ (Deleting(u) => Gone(u.ref))

LEMMA PushRefEnters ==
    ASSUME TypeInv, GoneInv, NEW p \in Tasks, NEW i \in Items, NEW tok \in Tokens,
           PushRef(p, i, tok)
    PROVE  Enters(p)
<1> DEFINE t == Routed(i, tok)
<1>1. t \in Task /\ AtHome(t) /\ RoutesHome
  <2>1. SourceOK /\ RoutesHome /\ route[i] \in Anywhere
    BY DEF TypeInv, GoneInv, RoutesHome
  <2>2. QED
    BY <2>1, RoutedType DEF AtHome
<1>2. \/ Become(p, Outcome(t, "unrouted", FALSE))
      \/ Become(p, Outcome(t, "noop_unchanged", FALSE))
      \/ Become(p, Ask(t, "lookup", NoDoc))
      \/ Become(p, Ask(t, "fetch", NoDoc))
  BY DEF PushRef
<1> HIDE DEF t
<1>3. \A a, b : Become(p, Outcome(t, a, b)) => Enters(p)
  BY <1>1, FormsAtHome, Zenon DEF Enters
<1>4. \A pc, d : pc \notin {"dlookup", "delete", "dpoll"} /\ Become(p, Ask(t, pc, d)) => Enters(p)
  BY <1>1, FormsAtHome DEF Enters, Deleting
<1>5. QED
  BY <1>2, <1>3, <1>4

LEMMA DeleteByRefEnters ==
    ASSUME TypeInv, GoneInv, NEW p \in Tasks, NEW i \in Items, Gone(i), DeleteByRef(p, i)
    PROVE  Enters(p)
<1> DEFINE t == Routed(i, NoToken)
<1>1. t \in Task /\ AtHome(t) /\ RoutesHome /\ t.ref = i
  <2>1. SourceOK /\ RoutesHome /\ route[i] \in Anywhere /\ NoToken \in Tokens
    BY DEF TypeInv, GoneInv, RoutesHome, Tokens
  <2>2. QED
    BY <2>1, RoutedType DEF AtHome
<1>2. \/ Become(p, Outcome(t, "unrouted", FALSE))
      \/ Become(p, Ask(t, "dlookup", NoDoc))
  BY DEF DeleteByRef
<1> HIDE DEF t
<1>3. \A a, b : Become(p, Outcome(t, a, b)) => Enters(p)
  BY <1>1, FormsAtHome, Zenon DEF Enters
<1>4. \A pc, d : Become(p, Ask(t, pc, d)) => Enters(p)
  BY <1>1, FormsAtHome DEF Enters
<1>5. QED
  BY <1>2, <1>3, <1>4

LEMMA ReapEnters ==
    ASSUME OneLibrary, TypeInv, GoneInv, NEW d \in DocIds, Reap(d)
    PROVE  Enters(Reaper)
<1> DEFINE i == docs[d].key
           t == [Blank(i, NoToken) EXCEPT !.home = docs[d].lib, !.lib = docs[d].lib]
<1>1. i \in Items /\ docs[d].lib = Home /\ Gone(i) /\ Home \in Libraries /\ RoutesHome
  BY HomeFacts DEF Reap, GoneInv, SweepGone, DocsHome
<1>2. t \in Task /\ t.home = docs[d].lib /\ t.lib = docs[d].lib /\ t.ref = i
  <2>1. docs[d].lib \in Libraries
    BY <1>1
  <2> HIDE DEF i
  <2>2. QED
    BY <1>1, <2>1, ReapedRefType
<1>3. Become(Reaper, StartReap(t, d))
  BY DEF Reap, ReapOrphan
<1> HIDE DEF t, i
<1>4. AtHome(t)
  BY <1>1, <1>2 DEF AtHome, Anywhere
<1>5. \/ Become(Reaper, Outcome(t, "skipped_missing", FALSE))
      \/ Become(Reaper, Ask(t, "delete", d))
  BY <1>3 DEF StartReap
<1>6. \A a, b : Become(Reaper, Outcome(t, a, b)) => Enters(Reaper)
  BY <1>1, <1>2, <1>4, FormsAtHome, Zenon DEF Enters
<1>7. \A pc, e : Become(Reaper, Ask(t, pc, e)) => Enters(Reaper)
  BY <1>1, <1>2, <1>4, FormsAtHome DEF Enters
<1>8. QED
  BY <1>5, <1>6, <1>7

\* An item that is gone stays gone.
StaysGone(i) == i \in Primary /\ ~live'[i]

LEMMA GoneStays ==
    ASSUME CanReturn = {}, TypeInv, NEW i \in Items, ~live[i], Next \/ Aside
    PROVE  ~live'[i]
<1>1. live \in [Items -> BOOLEAN]
  BY DEF TypeInv, SourceOK
<1>2. ASSUME NEW j \in Items, Vanish(j)
      PROVE  ~live'[i]
  BY <1>1, <1>2 DEF Vanish
<1>3. CASE UNCHANGED live
  BY <1>3
<1>4. CASE Source
  BY <1>2, <1>3, <1>4 DEF Source, Edit, Reroute
<1>5. CASE Service \/ Seeder \/ Crash \/ ResetSweepCache \/ Aside
  BY <1>3, <1>5 DEF Service, Remove, Settle, Misfire, Seeder, Seed, Crash,
                    ResetSweepCache, Aside, srcVars
<1>6. ASSUME NEW p \in Tasks, Call(p) \/ Run(p) \/ Abort(p) \/ Collect(p)
      PROVE  UNCHANGED live
  BY <1>6 DEF Call, PushRef, DeleteByRef, ReapOrphan, Starts, Run, ResumeLookup,
     ResumeFetch, PushItem, ResumeFind, ResumeCreate, ResumeRevise, Poll, PollTimeout,
     ResumeDeleteLookup, ResumeDelete, DeletePoll, Resumes, Abort, Collect, srcVars
<1>7. ASSUME NEW p \in Tasks, Serve(p)
      PROVE  UNCHANGED live
  BY <1>7 DEF Serve, ServeFind, ServeFetch, ServeCreate, ServeRevise, ServeDelete, Waits, srcVars
<1>8. QED
  BY <1>3, <1>4, <1>5, <1>6, <1>7 DEF Next

LEMMA CallsStep ==
    ASSUME OneLibrary, CanReturn = {}, TypeInv, RefsOK, GoneInv, [SyncNext]_allVars
    PROVE  TasksHome' /\ DeletesGone'
<1>1. task \in [Tasks -> Task] /\ TasksHome /\ DeletesGone
  BY DEF TypeInv, Local, TasksOK, GoneInv
<1>2. \A i \in Items : ~live[i] => ~live'[i]
  BY GoneStays, SyncStepIsStep
<1>3. \A p \in Tasks : Deleting(task[p]) => StaysGone(task[p].ref)
  BY <1>1, <1>2, PrimaryAssumption DEF DeletesGone, Gone, StaysGone
<1>4. ASSUME NEW p \in Tasks, NEW u, Become(p, u), AtHome(u), Deleting(u) => StaysGone(u.ref)
      PROVE  TasksHome' /\ DeletesGone'
  <2>1. \A q \in Tasks : task'[q] = IF q = p THEN u ELSE task[q]
    BY <1>1, <1>4 DEF Become
  <2>2. TasksHome'
    BY <1>1, <1>4, <2>1 DEF TasksHome, AtHome, Anywhere
  <2>3. DeletesGone'
    BY <1>3, <1>4, <2>1 DEF DeletesGone, Deleting, Gone, StaysGone
  <2>4. QED
    BY <2>2, <2>3
<1>5. ASSUME NEW p \in Tasks, \E u : Heads(p, u)
      PROVE  TasksHome' /\ DeletesGone'
  <2>1. PICK u : Heads(p, u)
    BY <1>5
  <2>2. Deleting(u) => StaysGone(u.ref)
    BY <1>3, <2>1 DEF Heads
  <2>3. QED
    BY <1>4, <2>1, <2>2 DEF Heads
<1>6. ASSUME NEW p \in Tasks, Enters(p)
      PROVE  TasksHome' /\ DeletesGone'
  <2>1. PICK u : Become(p, u) /\ AtHome(u) /\ (Deleting(u) => Gone(u.ref))
    BY <1>6 DEF Enters
  <2>2. Deleting(u) => StaysGone(u.ref)
    BY <1>2, <2>1, PrimaryAssumption DEF Gone, StaysGone
  <2>3. QED
    BY <1>4, <2>1, <2>2
<1>7. CASE UNCHANGED task
  BY <1>1, <1>3, <1>7 DEF TasksHome, DeletesGone, AtHome, Anywhere, Deleting, Gone, StaysGone
<1>8. ASSUME NEW p \in Tasks, Run(p) \/ Serve(p)
      PROVE  TasksHome' /\ DeletesGone'
  BY <1>5, <1>8, RunHeads, ServeHeads
<1>9. ASSUME NEW p \in Tasks, Abort(p)
      PROVE  TasksHome' /\ DeletesGone'
  <2>1. task[p] \in Task /\ AtHome(task[p]) /\ RoutesHome /\ Raise(p)
    BY <1>1, <1>9 DEF TasksHome, GoneInv, Abort
  <2>2. QED
    BY <1>5, <2>1, SharedHeads
<1>10. ASSUME NEW p \in Tasks, Collect(p)
       PROVE  TasksHome' /\ DeletesGone'
  <2> DEFINE u == Blank(AnItem, NoToken)
  <2>1. AtHome(u) /\ ~Deleting(u)
    BY DEF Blank, AtHome, Anywhere, Deleting
  <2>2. Become(p, u)
    BY <1>10 DEF Collect
  <2> HIDE DEF u
  <2>3. QED
    BY <1>4, <2>1, <2>2
<1>11. ASSUME NEW p \in Tasks, Hook(p)
       PROVE  TasksHome' /\ DeletesGone'
  <2>1. PICK i \in Primary : \/ \E tok \in Versions : PushRef(p, i, tok)
                             \/ ~live[i] /\ DeleteByRef(p, i)
    BY <1>11 DEF Hook
  <2>2. i \in Items /\ Versions \subseteq Tokens
    BY PrimaryAssumption DEF Tokens
  <2>3. QED
    BY <1>6, <2>1, <2>2, PushRefEnters, DeleteByRefEnters DEF Gone
<1>12. CASE Crash \/ Aside
  <2> DEFINE u == Blank(AnItem, NoToken)
  <2>1. AtHome(u) /\ ~Deleting(u)
    BY DEF Blank, AtHome, Anywhere, Deleting
  <2> HIDE DEF u
  <2>2. \A p \in Tasks : task'[p] = task[p] \/ task'[p] = u
    BY <1>12, AsideCalls DEF Crash, u
  <2>3. TasksHome'
    BY <1>1, <2>1, <2>2 DEF TasksHome, AtHome, Anywhere
  <2>4. DeletesGone'
    BY <1>3, <2>1, <2>2 DEF DeletesGone, Deleting, Gone, StaysGone
  <2>5. QED
    BY <2>3, <2>4
<1>13. CASE Sweep
  <2>1. ASSUME NEW d \in DocIds, Reap(d)
        PROVE  TasksHome' /\ DeletesGone'
    BY <1>6, <2>1, ReapEnters, WorkersAssumption
  <2>2. ASSUME NEW p \in Slots, StartItem(p)
        PROVE  TasksHome' /\ DeletesGone'
    <3>1. PICK x \in waiting \cup strays : PushRef(p, x.item, x.token)
      BY <2>2 DEF StartItem
    <3>2. x.item \in Items /\ x.token \in Tokens /\ p \in Tasks
      BY <3>1, WorkersAssumption DEF RefsOK, Tokens
    <3>3. QED
      BY <1>6, <3>1, <3>2, PushRefEnters
  <2>3. ASSUME NEW p \in Slots, EndItem(p)
        PROVE  TasksHome' /\ DeletesGone'
    BY <1>10, <2>3, WorkersAssumption DEF EndItem
  <2>4. \/ UNCHANGED task
        \/ \E d \in DocIds : Reap(d)
        \/ \E p \in Slots : StartItem(p) \/ EndItem(p)
    BY <1>13 DEF Sweep, SweepGoesOn, StartSweep, ResetSweepCache, StartReaping, EndLibrary, Enumerate,
                 ListLibrary, vars
  <2>5. QED
    BY <1>7, <2>1, <2>2, <2>3, <2>4
<1>14. CASE ReapingFails
  BY <1>7, <1>9, <1>14, WorkersAssumption DEF ReapingFails
<1>15. CASE EnumerationFails \/ (\E l \in Libraries : SkipLibrary(l)) \/ Source \/ Service
            \/ Seeder \/ UNCHANGED allVars
  BY <1>7, <1>15 DEF EnumerationFails, SkipLibrary, Source, Edit, Vanish, Reroute, Service,
     Remove, Settle, Misfire, Seeder, Seed, allVars, vars
<1>16. ASSUME NEW p \in Tasks, Proceed(p) \/ Abort(p)
       PROVE  TasksHome' /\ DeletesGone'
  BY <1>8, <1>9, <1>10, <1>16 DEF Proceed
<1>17. CASE CancelSweep
  <2>1. SweepCalls \in SUBSET Tasks
    BY WorkersAssumption DEF SweepCalls, Running
  <2>2. QED
    BY <1>12, <1>17, <2>1 DEF CancelSweep, Aside
<1>18. QED
  BY <1>11, <1>12, <1>13, <1>14, <1>15, <1>16, <1>17 DEF SyncNext, SweepFails, Beside, Restart

-----------------------------------------------------------------------------
(* The sweep.                                                              *)

\* A document the reaper lists as an orphan is one whose item is gone.
LEMMA ListedIsGone ==
    ASSUME TypedSync, GoneInv, NEW l \in Libraries, ListLibrary(l),
           NEW d \in orphans'
    PROVE  docs[d].state # "free" /\ Gone(docs[d].key)
<1>1. /\ d \in DocIds /\ docs[d].state = "active" /\ docs[d].lib = l
      /\ docs[d].key \in Primary /\ ~Expected(docs[d].key, l)
  BY DEF ListLibrary, Active
<1>2. docs[d].key \in Items /\ l = Home
  BY <1>1 DEF GoneInv, DocsHome
<1>3. targets[docs[d].key] \subseteq {Home}
  BY <1>2 DEF GoneInv, SweepGone
<1>4. docs[d].key \notin seen
  BY <1>1, <1>2, <1>3 DEF Expected
<1>5. phase = "listing" /\ unlisted = {}
  BY DEF ListLibrary, GoneInv, SweepGone
<1>6. QED
  BY <1>1, <1>4, <1>5 DEF GoneInv, SweepGone, Gone

LEMMA SweepGoneStep ==
    ASSUME OneLibrary, CanReturn = {}, TypedSync, GoneInv, [SyncNext]_allVars
    PROVE  SweepGone'
<1>1. TypeInv /\ AllHomed /\ SweepOK /\ Unborn /\ SweepGone /\ (Next \/ Aside)
  BY SyncStepIsStep DEF TypedSync, GoneInv
<1>2. \A i \in Items : ~live[i] => ~live'[i]
  BY <1>1, GoneStays
<1>3. \A d \in DocIds : docs[d].state # "free" /\ Gone(docs[d].key) =>
         docs'[d].state # "free" /\ docs'[d].key \in Primary /\ ~live'[docs'[d].key]
  BY <1>1, <1>2, DocsStep, PrimaryAssumption DEF DocsKept, Gone
<1>4. \A d \in orphans : docs'[d].state # "free" /\ docs'[d].key \in Primary /\ ~live'[docs'[d].key]
  BY <1>1, <1>3 DEF SweepGone, SweepOK
<1>5. \A i \in Primary : i \in Items
  BY PrimaryAssumption
<1>6. NoTargets \in [Items -> SUBSET {Home}]
  BY DEF NoTargets
<1>7. CASE UNCHANGED <<phase, unlisted, seen, targets, orphans>>
  BY <1>1, <1>2, <1>4, <1>5, <1>7 DEF SweepGone, Gone
<1>8. CASE StartSweep
  BY <1>4, <1>6, <1>8 DEF StartSweep, SweepGone, Gone
<1>9. CASE StartReaping
  BY <1>1, <1>2, <1>4, <1>5, <1>9 DEF StartReaping, SweepGone, Gone
<1>10. CASE EndLibrary
  BY <1>1, <1>2, <1>4, <1>5, <1>6, <1>10 DEF EndLibrary, SweepGone, Gone
<1>11. ASSUME NEW i \in Items, Enumerate(i)
       PROVE  SweepGone'
  <2>1. /\ phase = "sweeping" /\ UNCHANGED <<phase, targets, orphans>>
        /\ unlisted' = unlisted \ {i} /\ UNCHANGED live
        /\ seen' = seen \cup ({i} \cap {x \in Items : live[x]})
    BY <1>11 DEF Enumerate, vars
  <2>2. ~live[i] \/ i \in seen'
    BY <2>1
  <2>3. \A j \in Primary \ (unlisted' \cup seen') : ~live[j]
    BY <1>1, <2>1, <2>2 DEF SweepGone
  <2>4. QED
    BY <1>1, <1>4, <2>1, <2>3 DEF SweepGone, Gone
<1>12. ASSUME NEW l \in Libraries, ListLibrary(l)
       PROVE  SweepGone'
  <2>1. \A d \in orphans' : d \in DocIds /\ docs[d].state # "free" /\ Gone(docs[d].key)
    BY <1>12, ListedIsGone DEF ListLibrary
  <2>2. \A d \in orphans' : docs'[d].state # "free" /\ docs'[d].key \in Primary /\ ~live'[docs'[d].key]
    BY <1>3, <2>1
  <2>3. phase = "listing" /\ phase' = "reaping" /\ UNCHANGED <<unlisted, seen, targets>>
    BY <1>12 DEF ListLibrary
  <2>4. QED
    BY <1>1, <1>2, <1>5, <2>2, <2>3 DEF SweepGone, Gone
<1>13. ASSUME NEW d \in DocIds, Reap(d)
       PROVE  SweepGone'
  BY <1>1, <1>2, <1>4, <1>5, <1>13 DEF Reap, SweepGone, Gone
<1>14. ASSUME NEW p \in Slots, EndItem(p)
       PROVE  SweepGone'
  <2>1. task[p].pc = "done" /\ Homed(task[p]) /\ AtHome(task[p])
    BY <1>1, <1>14, WorkersAssumption DEF EndItem, Collect, AllHomed, GoneInv, TasksHome
  <2>2. Established(task[p]) \subseteq {Home}
    BY <2>1, HomeFacts DEF Homed, AtHome, Anywhere, Established
  <2>3. UNCHANGED <<phase, unlisted, seen, orphans>>
    BY <1>14 DEF EndItem
  <2>4. \A i \in Items : targets'[i] \subseteq {Home}
    BY <1>1, <1>14, <2>2 DEF EndItem, SweepGone, SweepOK
  <2>5. QED
    BY <1>1, <1>2, <1>4, <1>5, <2>3, <2>4 DEF SweepGone, Gone
<1>15. CASE EnumerationFails
  BY <1>1, <1>4, <1>15 DEF EnumerationFails, SweepGone, Gone
<1>16. CASE ReapingFails \/ CancelSweep
  BY <1>6, <1>16 DEF ReapingFails, CancelSweep, SweepGone, Gone
<1>17. CASE Restart
  BY <1>6, <1>17 DEF Restart, SweepGone, Gone
<1>18. \/ UNCHANGED <<phase, unlisted, seen, targets, orphans>>
       \/ StartSweep \/ StartReaping \/ EndLibrary
       \/ (\E i \in Items : Enumerate(i)) \/ (\E l \in Libraries : ListLibrary(l))
       \/ (\E d \in DocIds : Reap(d)) \/ (\E p \in Slots : EndItem(p))
       \/ EnumerationFails \/ ReapingFails \/ CancelSweep \/ Restart
  <2>1. CASE Sweep
    BY <2>1 DEF Sweep, SweepGoesOn, StartItem
  <2>2. CASE \E l \in Libraries : SkipLibrary(l)
    BY <2>2 DEF SkipLibrary
  <2>3. CASE UNCHANGED sweepVars
    BY <2>3 DEF sweepVars
  <2>4. CASE \E p \in Tasks : Proceed(p) \/ Hook(p) \/ (Abort(p) /\ UNCHANGED sweepVars)
    BY <2>3, <2>4 DEF Proceed, Hook
  <2>5. CASE UNCHANGED allVars
    BY <2>3, <2>5 DEF allVars, sweepVars
  <2>6. QED
    BY <2>1, <2>2, <2>3, <2>4, <2>5 DEF SyncNext, SweepFails, Beside
<1>19. QED
  BY <1>7, <1>8, <1>9, <1>10, <1>11, <1>12, <1>13, <1>14, <1>15, <1>16, <1>17, <1>18

-----------------------------------------------------------------------------
LEMMA GoneInit ==
    ASSUME OneLibrary
    PROVE  SyncInit => GoneInv
<1> SUFFICES ASSUME SyncInit PROVE GoneInv
  OBVIOUS
<1>1. RoutesHome
  BY HomeFacts DEF SyncInit, Init, RoutesHome
<1>2. Unborn /\ DocsHome
  BY DEF SyncInit, Init, IronRagInit, FreeDoc, Unborn, DocsHome
<1>3. TasksHome /\ DeletesGone
  BY DEF SyncInit, Init, Blank, TasksHome, AtHome, Anywhere, DeletesGone, Deleting
<1>4. SweepGone
  BY DEF SyncInit, NoTargets, SweepGone
<1>5. QED
  BY <1>1, <1>2, <1>3, <1>4 DEF GoneInv

LEMMA RoutesStep ==
    ASSUME OneLibrary, TypeInv, RoutesHome, Next \/ Aside
    PROVE  RoutesHome'
<1>1. route \in [Items -> Libraries \cup {Unrouted}]
  BY DEF TypeInv, SourceOK
<1>2. CASE UNCHANGED route
  BY <1>2 DEF RoutesHome, Anywhere
<1>3. ASSUME NEW i \in Items, Reroute(i)
      PROVE  RoutesHome'
  <2>1. PICK l \in Anywhere : route' = [route EXCEPT ![i] = l]
    BY <1>3, HomeFacts DEF Reroute
  <2>2. QED
    BY <1>1, <2>1 DEF RoutesHome, Anywhere
<1>4. CASE Source
  BY <1>2, <1>3, <1>4 DEF Source, Edit, Vanish
<1>5. CASE Service \/ Seeder \/ Crash \/ ResetSweepCache \/ Aside
  BY <1>2, <1>5 DEF Service, Remove, Settle, Misfire, Seeder, Seed, Crash,
                    ResetSweepCache, Aside, srcVars
<1>6. ASSUME NEW p \in Tasks, Call(p) \/ Run(p) \/ Abort(p) \/ Collect(p)
      PROVE  UNCHANGED route
  BY <1>6 DEF Call, PushRef, DeleteByRef, ReapOrphan, Starts, Run, ResumeLookup,
     ResumeFetch, PushItem, ResumeFind, ResumeCreate, ResumeRevise, Poll, PollTimeout,
     ResumeDeleteLookup, ResumeDelete, DeletePoll, Resumes, Abort, Collect, srcVars
<1>7. ASSUME NEW p \in Tasks, Serve(p)
      PROVE  UNCHANGED route
  BY <1>7 DEF Serve, ServeFind, ServeFetch, ServeCreate, ServeRevise, ServeDelete, Waits, srcVars
<1>8. QED
  BY <1>2, <1>4, <1>5, <1>6, <1>7 DEF Next

LEMMA GoneStep ==
    ASSUME OneLibrary, CanReturn = {}, TypedSync, GoneInv, [SyncNext]_allVars
    PROVE  GoneInv'
<1>1. TypeInv /\ RefsOK /\ Unborn /\ RoutesHome /\ (Next \/ Aside)
  BY SyncStepIsStep DEF TypedSync, GoneInv
<1>2. Unborn' /\ RoutesHome' /\ DocsHome'
  BY <1>1, UnbornStep, RoutesStep, DocsHomeStep
<1>3. TasksHome' /\ DeletesGone'
  BY <1>1, CallsStep
<1>4. SweepGone'
  BY SweepGoneStep
<1>5. QED
  BY <1>2, <1>3, <1>4 DEF GoneInv

-----------------------------------------------------------------------------
(* Steady items.  What makes a document an orphan is decided when a library *)
(* is listed and acted on in later steps; the invariant follows the route   *)
(* of a steady item from the coroutine that pushes it, by the targets and   *)
(* the listing, to the call that deletes.                                   *)

SweepAtWork == phase = "sweeping"

\* What belongs to a sweep is there only while it is at that point.
Tidy ==
    /\ phase \in {"listing", "reaping"} => unlisted = {}
    /\ ~SweepAtWork => waiting = {} /\ Running("sweep") = {}
    /\ phase # "reaping" => orphans = {} /\ task[Reaper].pc \in {"idle", "done"}
    /\ task[Reaper].pc \in {"idle", "done", "delete", "dpoll"}

SteadyListed ==
    \A i \in steady : i \in Items /\ live[i] /\ (i \in Primary => i \in unlisted \cup seen)

SteadyPushed ==
    \A p \in Slots : owner[p] = "sweep" /\ task[p].ref \in steady
                        => task[p].home = route[task[p].ref]

SteadyTargets == \A i \in steady : targets[i] \subseteq {route[i]}

SteadySpared ==
    /\ \A d \in orphans : /\ docs[d].state # "free"
                          /\ docs[d].key \in steady => docs[d].lib # route[docs[d].key]
    /\ ReaperSparesLive

SteadyInv == /\ Unborn /\ Tidy /\ (phase = "idle" => steady = {})
             /\ SteadyListed /\ SteadyPushed /\ SteadyTargets /\ SteadySpared

\* A call of the reaper's that goes on deletes what it was called to, if anything.
ReapsOn(u) == /\ u.pc \in {"idle", "done", "delete", "dpoll"}
              /\ u.pc = "dpoll" => task[Reaper].pc \in {"delete", "dpoll"}
              /\ u.pc = "delete" => /\ task[Reaper].pc = "delete"
                                    /\ u.ref = task[Reaper].ref /\ u.lib = task[Reaper].lib

LEMMA ReaperGoesOn ==
    ASSUME TypeInv, Tidy, Run(Reaper) \/ Serve(Reaper) \/ Abort(Reaper)
    PROVE  \E u : Become(Reaper, u) /\ ReapsOn(u)
<1> DEFINE t == task[Reaper]
<1>1. t \in Task /\ t.pc \in {"idle", "done", "delete", "dpoll"}
  BY WorkersAssumption DEF TypeInv, Local, TasksOK, Tidy
<1>2. \A a, b : Outcome(t, a, b).pc = "done"
  BY DEF Outcome, Blank
<1>3. \A d : Ask(t, "dpoll", d).pc = "dpoll"
  BY <1>1 DEF Ask, Task
<1>4. ASSUME NEW a, NEW d, t.pc = "delete", Reply(Reaper, a, d)
      PROVE  \E u : Become(Reaper, u) /\ ReapsOn(u)
  <2> DEFINE u == [t EXCEPT !.answer = a, !.got = d]
  <2>1. u.pc = t.pc /\ u.ref = t.ref /\ u.lib = t.lib
    BY <1>1 DEF Task
  <2>2. Become(Reaper, u)
    BY <1>4 DEF Reply, Become
  <2> HIDE DEF u
  <2>3. QED
    BY <1>4, <2>1, <2>2 DEF ReapsOn
<1>5. CASE Serve(Reaper)
  <2>1. t.pc = "delete" /\ \E a, d : Reply(Reaper, a, d)
    BY <1>1, <1>5 DEF Serve, ServeFind, ServeFetch, ServeCreate, ServeRevise, ServeDelete, Waits
  <2>2. QED
    BY <1>4, <2>1
<1>6. CASE Run(Reaper)
  <2>1. ResumeDelete(Reaper) \/ DeletePoll(Reaper)
    BY <1>1, <1>6 DEF Run, ResumeLookup, ResumeFetch, PushItem, ResumeFind, ResumeCreate,
       ResumeRevise, Poll, PollTimeout, ResumeDeleteLookup, ResumeDelete, DeletePoll, Resumes
  <2>2. \/ \E a, b : Become(Reaper, Outcome(t, a, b))
        \/ t.pc = "delete" /\ Become(Reaper, Ask(t, "dpoll", t.doc))
    BY <2>1 DEF ResumeDelete, DeletePoll, Reaped, Raise, Resumes
  <2>3. QED
    BY <1>2, <1>3, <2>2 DEF ReapsOn
<1>7. CASE Abort(Reaper)
  BY <1>2, <1>7 DEF Abort, Raise, ReapsOn
<1>8. QED
  BY <1>5, <1>6, <1>7

\* What a reaping that starts is about.
LEMMA ReapStarts ==
    ASSUME TypedSync, NEW d \in DocIds, Reap(d)
    PROVE  \E u : /\ Become(Reaper, u)
                  /\ u.pc \in {"done", "delete"}
                  /\ u.ref = docs[d].key /\ (u.pc = "delete" => u.lib = docs[d].lib)
<1> DEFINE i == docs[d].key
           t == [Blank(i, NoToken) EXCEPT !.home = docs[d].lib, !.lib = docs[d].lib]
<1>1. i \in Items /\ docs[d].lib \in Libraries
  <2>1. ReapOrphan(Reaper, i, d)
    BY DEF Reap
  <2>2. i \in Items
    BY <2>1, WorkersAssumption, HandlesAssumption DEF ReapOrphan, Starts
  <2>3. QED
    BY <2>1, <2>2, NoDocAssumption DEF ReapOrphan, TypedSync, TypeInv, Housed, IronRagTypeOK,
                                       Document
<1>2. t \in Task /\ t.lib = docs[d].lib /\ t.ref = i
  <2> HIDE DEF i
  <2>1. QED
    BY <1>1, ReapedRefType
<1>3. Become(Reaper, StartReap(t, d))
  BY DEF Reap, ReapOrphan
<1> HIDE DEF t
<1>4. \A a, b : Outcome(t, a, b).pc = "done" /\ Outcome(t, a, b).ref = t.ref
  BY DEF Outcome, Blank
<1>5. \A e : LET u == Ask(t, "delete", e)
             IN  u.pc = "delete" /\ u.ref = t.ref /\ u.lib = t.lib
  BY <1>2 DEF Ask, Task
<1>6. QED
  BY <1>2, <1>3, <1>4, <1>5 DEF StartReap

\* A coroutine that starts pushes its item where routing sends it.
LEMMA PushStarts ==
    ASSUME TypeInv, NEW p \in Tasks, NEW i \in Items, NEW tok \in Tokens, PushRef(p, i, tok)
    PROVE  /\ \E u : Become(p, u) /\ u.ref = i /\ u.home = route[i]
           /\ UNCHANGED srcVars
<1>1. PICK t \in Task : t = Routed(i, tok) /\ t.ref = i /\ t.home = route[i]
  BY RoutedType DEF TypeInv
<1>2. UNCHANGED srcVars
  BY DEF PushRef, Starts
<1>3. \/ Become(p, Outcome(t, "unrouted", FALSE))
      \/ Become(p, Outcome(t, "noop_unchanged", FALSE))
      \/ Become(p, Ask(t, "lookup", NoDoc))
      \/ Become(p, Ask(t, "fetch", NoDoc))
  BY <1>1 DEF PushRef
<1>4. /\ \A a, b : Outcome(t, a, b).ref = t.ref /\ Outcome(t, a, b).home = t.home
      /\ \A pc, d : Ask(t, pc, d).ref = t.ref /\ Ask(t, pc, d).home = t.home
  BY SameHome
<1>5. QED
  BY <1>1, <1>2, <1>3, <1>4

\* What a step does to the calls of a sweep: a coroutine starts, or it goes on
\* with the same item and library.
LEMMA SlotsStep ==
    ASSUME TypedSync, [SyncNext]_allVars, NEW p \in Slots, owner'[p] = "sweep"
    PROVE  \/ /\ owner[p] = "sweep"
              /\ task'[p].ref = task[p].ref /\ task'[p].home = task[p].home
           \/ /\ StartItem(p) /\ UNCHANGED srcVars
              /\ task'[p].home = route[task'[p].ref]
<1> DEFINE Same == task'[p].ref = task[p].ref /\ task'[p].home = task[p].home
           Goal == \/ owner[p] = "sweep" /\ Same
                   \/ StartItem(p) /\ UNCHANGED srcVars /\ task'[p].home = route[task'[p].ref]
<1> SUFFICES Goal
  OBVIOUS
<1>1. /\ TypeInv /\ RefsOK /\ task \in [Tasks -> Task]
      /\ owner \in [Slots -> {"none", "sweep", "stray"}]
      /\ p \in Tasks /\ p # Reaper /\ p \notin Hooks
  BY WorkersAssumption DEF TypedSync, TypeInv, Local, TasksOK, SweepOK
<1>2. ASSUME NEW q \in Tasks, NEW u, Become(q, u), q # p
      PROVE  Same
  BY <1>1, <1>2 DEF Become
<1>3. ASSUME NEW q \in Tasks, GoesOn(q)
      PROVE  Same
  <2>1. PICK u : Become(q, u) /\ u.home = task[q].home /\ u.ref = task[q].ref
    BY <1>3 DEF GoesOn
  <2>2. QED
    BY <1>1, <1>2, <2>1 DEF Become
<1>4. ASSUME NEW q \in Tasks, Abort(q)
      PROVE  Same
  BY <1>1, <1>3, <1>4, SharedGoesOn DEF Abort
<1>5. ASSUME NEW q \in Tasks, Proceed(q)
      PROVE  Same
  BY <1>1, <1>2, <1>3, <1>5, RunGoesOn, ServeGoesOn DEF Proceed, Collect
<1>6. ASSUME NEW q \in Tasks, Hook(q)
      PROVE  Same
  BY <1>1, <1>2, <1>6 DEF Hook, PushRef, DeleteByRef
<1>7. ASSUME NEW q \in Slots, StartItem(q)
      PROVE  Goal
  <2>1. PICK x \in waiting \cup strays : PushRef(q, x.item, x.token)
    BY <1>7 DEF StartItem
  <2>2. x.item \in Items /\ x.token \in Tokens /\ q \in Tasks
    BY <1>1, <2>1, WorkersAssumption DEF RefsOK, Tokens
  <2>3. PICK u : Become(q, u) /\ u.ref = x.item /\ u.home = route[x.item]
    BY <1>1, <2>1, <2>2, PushStarts
  <2>4. UNCHANGED srcVars
    BY <1>1, <2>1, <2>2, PushStarts
  <2>5. CASE q = p
    BY <1>1, <1>7, <2>3, <2>4, <2>5 DEF Become
  <2>6. CASE q # p
    <3>1. owner[p] = "sweep"
      BY <1>1, <1>7, <2>6 DEF StartItem
    <3>2. QED
      BY <1>2, <2>2, <2>3, <2>6, <3>1
  <2>7. QED
    BY <2>5, <2>6
<1>8. ASSUME NEW q \in Slots, EndItem(q)
      PROVE  Goal
  <2>1. q # p
    BY <1>1, <1>8 DEF EndItem
  <2>2. owner[p] = "sweep"
    BY <1>1, <1>8, <2>1 DEF EndItem
  <2>3. QED
    BY <1>2, <1>8, <2>1, <2>2, WorkersAssumption DEF EndItem, Collect
<1>9. ASSUME NEW d \in DocIds, Reap(d)
      PROVE  Same /\ UNCHANGED owner
  BY <1>1, <1>2, <1>9, ReapStarts, WorkersAssumption DEF Reap
<1>10. CASE UNCHANGED task /\ UNCHANGED owner
  BY <1>10
<1>11. CASE ReapingFails
  BY <1>4, <1>11, WorkersAssumption DEF ReapingFails
<1>12. CASE EnumerationFails \/ CancelSweep \/ Restart
  BY <1>1, <1>12 DEF EnumerationFails, CancelSweep, Restart
<1>13. CASE Sweep
  <2>1. \/ UNCHANGED task /\ UNCHANGED owner
        \/ \E d \in DocIds : Reap(d)
        \/ \E q \in Slots : StartItem(q) \/ EndItem(q)
    BY <1>13 DEF Sweep, SweepGoesOn, StartSweep, ResetSweepCache, StartReaping, EndLibrary,
                 Enumerate, ListLibrary, vars
  <2>2. QED
    BY <1>7, <1>8, <1>9, <1>10, <2>1
<1>14. CASE (\E l \in Libraries : SkipLibrary(l)) \/ UNCHANGED allVars
            \/ ((Source \/ Service \/ Seeder) /\ UNCHANGED sweepVars)
  BY <1>10, <1>14 DEF SkipLibrary, Source, Edit, Vanish, Reroute, Service, Remove, Settle,
     Misfire, Seeder, Seed, allVars, vars, sweepVars
<1>15. CASE \E q \in Tasks : Proceed(q) \/ Hook(q) \/ (Abort(q) /\ UNCHANGED sweepVars)
  <2>1. UNCHANGED owner
    BY <1>15 DEF Proceed, Hook, sweepVars
  <2>2. QED
    BY <1>4, <1>5, <1>6, <1>15, <2>1
<1>16. QED
  BY <1>11, <1>12, <1>13, <1>14, <1>15 DEF SyncNext, SweepFails, Beside

\* A reaping starts, for a document that was listed as an orphan.
StartsReaping == \E d \in orphans : /\ Reap(d)
                                    /\ task'[Reaper].pc \in {"done", "delete"}
                                    /\ task'[Reaper].ref = docs[d].key
                                    /\ task'[Reaper].pc = "delete"
                                          => task'[Reaper].lib = docs[d].lib

\* What a step does to the reaper's call: it ends, it goes on, or it starts.
LEMMA ReaperStep ==
    ASSUME TypedSync, Tidy, [SyncNext]_allVars
    PROVE  ReapsOn(task'[Reaper]) \/ StartsReaping
<1>1. /\ TypeInv /\ RefsOK /\ task \in [Tasks -> Task] /\ Tidy
      /\ Reaper \in Tasks /\ Reaper \notin Slots /\ Reaper \notin Hooks
  BY WorkersAssumption DEF TypedSync, TypeInv, Local, TasksOK
<1>2. ASSUME task'[Reaper] = task[Reaper] \/ task'[Reaper] = Blank(AnItem, NoToken)
      PROVE  ReapsOn(task'[Reaper])
  BY <1>1, <1>2 DEF Tidy, ReapsOn, Blank
<1>3. ASSUME NEW p \in Tasks, p # Reaper, NEW u, Become(p, u)
      PROVE  ReapsOn(task'[Reaper])
  BY <1>1, <1>2, <1>3 DEF Become
<1>4. ASSUME NEW p \in Tasks, GoesOn(p), p # Reaper
      PROVE  ReapsOn(task'[Reaper])
  BY <1>3, <1>4 DEF GoesOn
<1>5. ASSUME Run(Reaper) \/ Serve(Reaper) \/ Abort(Reaper)
      PROVE  ReapsOn(task'[Reaper])
  <2>1. PICK u : Become(Reaper, u) /\ ReapsOn(u)
    BY <1>1, <1>5, ReaperGoesOn
  <2>2. task'[Reaper] = u
    BY <1>1, <2>1 DEF Become
  <2>3. QED
    BY <2>1, <2>2
<1>6. ASSUME NEW p \in Tasks, Run(p) \/ Serve(p) \/ Abort(p)
      PROVE  ReapsOn(task'[Reaper])
  BY <1>1, <1>4, <1>5, <1>6, RunGoesOn, ServeGoesOn, SharedGoesOn DEF Abort
<1>7. ASSUME NEW p \in Tasks, Collect(p)
      PROVE  ReapsOn(task'[Reaper])
  BY <1>1, <1>2, <1>3, <1>7 DEF Collect, Become
<1>8. ASSUME NEW p \in Tasks, Hook(p)
      PROVE  ReapsOn(task'[Reaper])
  BY <1>1, <1>3, <1>8 DEF Hook, PushRef, DeleteByRef
<1>9. ASSUME NEW p \in Slots, StartItem(p)
      PROVE  ReapsOn(task'[Reaper])
  <2>1. p \in Tasks /\ p # Reaper /\ \E x \in waiting \cup strays : PushRef(p, x.item, x.token)
    BY <1>1, <1>9, WorkersAssumption DEF StartItem
  <2>2. QED
    BY <1>3, <2>1 DEF PushRef
<1>10. ASSUME NEW d \in DocIds, Reap(d)
       PROVE  StartsReaping
  <2>1. PICK u : /\ Become(Reaper, u)
                 /\ u.pc \in {"done", "delete"}
                 /\ u.ref = docs[d].key /\ (u.pc = "delete" => u.lib = docs[d].lib)
    BY <1>10, ReapStarts
  <2>2. task'[Reaper] = u
    BY <1>1, <2>1 DEF Become
  <2>3. QED
    BY <1>10, <2>1, <2>2 DEF Reap, StartsReaping
<1>11. CASE Sweep
  <2>1. \/ UNCHANGED task
        \/ \E d \in DocIds : Reap(d)
        \/ \E p \in Slots : StartItem(p) \/ EndItem(p)
    BY <1>11 DEF Sweep, SweepGoesOn, StartSweep, ResetSweepCache, StartReaping, EndLibrary,
                 Enumerate, ListLibrary, vars
  <2>2. QED
    BY <1>2, <1>7, <1>9, <1>10, <2>1, WorkersAssumption DEF EndItem
<1>12. CASE ReapingFails
  BY <1>1, <1>2, <1>5, <1>12 DEF ReapingFails
<1>13. CASE CancelSweep \/ Restart
  <2>1. \A p \in Tasks : task'[p] = task[p] \/ task'[p] = Blank(AnItem, NoToken)
    BY <1>13 DEF CancelSweep, Cut, Restart, Crash
  <2>2. QED
    BY <1>1, <1>2, <2>1
<1>14. CASE EnumerationFails \/ (\E l \in Libraries : SkipLibrary(l)) \/ UNCHANGED allVars
            \/ Source \/ Service \/ Seeder
  BY <1>2, <1>14 DEF EnumerationFails, SkipLibrary, Source, Edit, Vanish, Reroute, Service,
     Remove, Settle, Misfire, Seeder, Seed, allVars, vars
<1>15. QED
  BY <1>6, <1>7, <1>8, <1>11, <1>12, <1>13, <1>14 DEF SyncNext, SweepFails, Beside, Proceed

\* When the reaping of a library ends early, its call has ended.
LEMMA ReapingEnds ==
    ASSUME TypedSync, Tidy, [SyncNext]_allVars, phase = "reaping", phase' # "reaping"
    PROVE  orphans' = {} /\ task'[Reaper].pc \in {"idle", "done"}
<1>1. task \in [Tasks -> Task] /\ Reaper \in Tasks
  BY WorkersAssumption DEF TypedSync, TypeInv, Local, TasksOK
<1>2. EndLibrary \/ ReapingFails \/ CancelSweep \/ Restart
  BY DEF SyncNext, Sweep, SweepGoesOn, StartSweep, StartReaping, Enumerate, ListLibrary, Reap,
     StartItem, EndItem, SweepFails, EnumerationFails, SkipLibrary, Beside, Proceed, Hook,
     sweepVars, allVars
<1>3. CASE EndLibrary
  BY <1>3 DEF EndLibrary, vars
<1>4. CASE ReapingFails
  <2>1. Abort(Reaper) /\ orphans' = {}
    BY <1>4 DEF ReapingFails
  <2>2. task'[Reaper].pc = "done"
    BY <1>1, <2>1 DEF Abort, Raise, Become, Outcome, Blank
  <2>3. QED
    BY <2>1, <2>2
<1>5. CASE CancelSweep
  <2>1. orphans' = {} /\ task'[Reaper] = Blank(AnItem, NoToken)
    BY <1>1, <1>5 DEF CancelSweep, Cut, SweepCalls
  <2>2. QED
    BY <2>1 DEF Blank
<1>6. CASE Restart
  <2>1. orphans' = {} /\ task'[Reaper] = Blank(AnItem, NoToken)
    BY <1>1, <1>6 DEF Restart, Crash
  <2>2. QED
    BY <2>1 DEF Blank
<1>7. QED
  BY <1>2, <1>3, <1>4, <1>5, <1>6

LEMMA TidyStep ==
    ASSUME TypedSync, Tidy, [SyncNext]_allVars
    PROVE  Tidy'
<1>1. owner \in [Slots -> {"none", "sweep", "stray"}]
  BY DEF TypedSync, SweepOK
<1>2. task'[Reaper].pc \in {"idle", "done", "delete", "dpoll"}
  BY ReaperStep DEF ReapsOn, StartsReaping
<1>3. phase' # "reaping" => orphans' = {} /\ task'[Reaper].pc \in {"idle", "done"}
  <2> SUFFICES ASSUME phase' # "reaping", phase # "reaping"
               PROVE  orphans' = {} /\ task'[Reaper].pc \in {"idle", "done"}
    BY ReapingEnds
  <2>1. orphans = {} /\ task[Reaper].pc \in {"idle", "done"}
    BY DEF Tidy
  <2>2. orphans' = {}
    BY <2>1 DEF SyncNext, Sweep, SweepGoesOn, StartSweep, StartReaping, EndLibrary, Enumerate,
       ListLibrary, Reap, StartItem, EndItem, SweepFails, EnumerationFails, CancelSweep,
       ReapingFails, SkipLibrary, Beside, Proceed, Hook, Restart, sweepVars, allVars
  <2>3. QED
    BY <2>1, <2>2, <1>2, ReaperStep DEF ReapsOn, StartsReaping
<1>4. CASE UNCHANGED <<phase, unlisted, waiting, owner>>
  BY <1>2, <1>3, <1>4 DEF Tidy, Running, SweepAtWork
<1>5. CASE StartSweep
  BY <1>2, <1>3, <1>5 DEF Tidy, StartSweep, SweepAtWork
<1>6. CASE StartReaping \/ EndLibrary \/ \E l \in Libraries : ListLibrary(l)
  BY <1>2, <1>3, <1>6 DEF Tidy, StartReaping, EndLibrary, ListLibrary, Running, SweepAtWork
<1>7. ASSUME NEW i \in Items, Enumerate(i)
      PROVE  Tidy'
  BY <1>2, <1>3, <1>7 DEF Tidy, Enumerate, SweepAtWork
<1>8. ASSUME NEW p \in Slots, StartItem(p)
      PROVE  Tidy'
  <2>1. UNCHANGED <<phase, unlisted>> /\ waiting' \subseteq waiting
    BY <1>8 DEF StartItem
  <2>2. ~SweepAtWork => \A q \in Slots : owner'[q] # "sweep"
    BY <1>1, <1>8 DEF Tidy, StartItem, Running
  <2>3. QED
    BY <1>2, <1>3, <2>1, <2>2 DEF Tidy, Running, SweepAtWork
<1>9. ASSUME NEW p \in Slots, EndItem(p)
      PROVE  Tidy'
  <2>1. UNCHANGED <<phase, unlisted, waiting>>
    BY <1>9 DEF EndItem
  <2>2. \A q \in Slots : owner'[q] = "sweep" => owner[q] = "sweep"
    BY <1>1, <1>9 DEF EndItem
  <2>3. QED
    BY <1>2, <1>3, <2>1, <2>2 DEF Tidy, Running, SweepAtWork
<1>10. CASE EnumerationFails \/ CancelSweep \/ Restart
  <2>1. phase' = "idle" /\ waiting' = {}
    BY <1>10 DEF EnumerationFails, CancelSweep, Restart
  <2>2. \A q \in Slots : owner'[q] # "sweep"
    BY <1>10 DEF EnumerationFails, CancelSweep, Restart
  <2>3. QED
    BY <1>2, <1>3, <2>1, <2>2 DEF Tidy, Running, SweepAtWork
<1>11. CASE ReapingFails
  <2>1. phase' = "idle" /\ phase \in {"listing", "reaping"} /\ UNCHANGED <<waiting, owner>>
    BY <1>11 DEF ReapingFails
  <2>2. QED
    BY <1>2, <1>3, <2>1 DEF Tidy, Running, SweepAtWork
<1>12. \/ UNCHANGED <<phase, unlisted, waiting, owner>>
       \/ StartSweep \/ StartReaping \/ EndLibrary
       \/ (\E i \in Items : Enumerate(i)) \/ (\E l \in Libraries : ListLibrary(l))
       \/ (\E p \in Slots : StartItem(p) \/ EndItem(p))
       \/ EnumerationFails \/ CancelSweep \/ ReapingFails \/ Restart
  BY DEF SyncNext, Sweep, SweepGoesOn, Reap, SweepFails, SkipLibrary, Beside, Proceed, Hook,
         sweepVars, allVars
<1>13. QED
  BY <1>4, <1>5, <1>6, <1>7, <1>8, <1>9, <1>10, <1>11, <1>12

\* What a sweep knows while it goes on: it comes to items, pushes end, libraries
\* are listed, and no more.
LEMMA SweepKnows ==
    ASSUME [SyncNext]_allVars, phase' # "idle"
    PROVE  \/ phase = "idle" /\ StartSweep
           \/ /\ phase # "idle"
              /\ UNCHANGED <<unlisted, seen>> \/ \E i \in Items : Enumerate(i)
              /\ UNCHANGED targets \/ \E p \in Slots : EndItem(p)
              /\ orphans' \subseteq orphans \/ \E l \in Libraries : ListLibrary(l)
<1>1. CASE StartSweep
  BY <1>1 DEF StartSweep
<1>2. CASE UNCHANGED sweepVars
  BY <1>2 DEF sweepVars
<1>3. CASE \E i \in Items : Enumerate(i)
  BY <1>3 DEF Enumerate
<1>4. CASE \E l \in Libraries : ListLibrary(l)
  BY <1>4 DEF ListLibrary
<1>5. CASE StartReaping \/ EndLibrary
  BY <1>5 DEF StartReaping, EndLibrary
<1>6. CASE \E d \in DocIds : Reap(d)
  BY <1>6 DEF Reap
<1>7. ASSUME NEW p \in Slots, StartItem(p) \/ EndItem(p)
      PROVE  /\ UNCHANGED <<phase, unlisted, seen, orphans>>
             /\ UNCHANGED targets \/ EndItem(p)
  BY <1>7 DEF StartItem, EndItem
<1>8. CASE SweepFails \/ Restart
  BY <1>8 DEF SweepFails, EnumerationFails, CancelSweep, ReapingFails, SkipLibrary, Restart
<1>9. phase = "idle" => \/ StartSweep \/ UNCHANGED phase
  BY <1>8 DEF SyncNext, Sweep, SweepGoesOn, StartReaping, EndLibrary, Enumerate, ListLibrary, Reap,
     StartItem, EndItem, Beside, Proceed, Hook, sweepVars, allVars
<1>10. CASE Sweep
  <2>1. \/ StartSweep \/ StartReaping \/ EndLibrary
        \/ (\E i \in Items : Enumerate(i)) \/ (\E l \in Libraries : ListLibrary(l))
        \/ (\E d \in DocIds : Reap(d)) \/ \E p \in Slots : StartItem(p) \/ EndItem(p)
    BY <1>10 DEF Sweep, SweepGoesOn
  <2>2. CASE \E p \in Slots : StartItem(p) \/ EndItem(p)
    BY <1>7, <1>9, <2>2
  <2>3. QED
    BY <1>1, <1>3, <1>4, <1>5, <1>6, <2>1, <2>2
<1>11. CASE \E p \in Tasks : Proceed(p) \/ Hook(p) \/ (Abort(p) /\ UNCHANGED sweepVars)
  BY <1>2, <1>9, <1>11 DEF Proceed, Hook, sweepVars
<1>12. CASE UNCHANGED sweepVars \/ UNCHANGED allVars
  BY <1>9, <1>12 DEF sweepVars, allVars
<1>13. CASE Beside
  BY <1>8, <1>11, <1>12, <1>13 DEF Beside
<1>14. QED
  BY <1>8, <1>10, <1>12, <1>13 DEF SyncNext

LEMMA SteadyStep ==
    ASSUME TypedSync, SteadyInv, WatchedNext
    PROVE  SteadyInv'
<1>1. /\ TypeInv /\ RefsOK /\ Unborn /\ Tidy /\ Tidy' /\ [SyncNext]_allVars
      /\ Next \/ Aside
  BY TidyStep, SyncStepIsStep DEF TypedSync, SteadyInv, WatchedNext
<1>2. \A i \in steady' : /\ i \in Items /\ live[i] /\ live'[i] /\ route'[i] = route[i]
                         /\ phase' # "idle"
                         /\ phase # "idle" => i \in steady
  BY DEF WatchedNext, Remembered, SteadyInv, SteadyListed
<1>3. phase' # "idle" =>
         \/ phase = "idle" /\ StartSweep
         \/ /\ phase # "idle"
            /\ UNCHANGED <<unlisted, seen>> \/ \E i \in Items : Enumerate(i)
            /\ UNCHANGED targets \/ \E p \in Slots : EndItem(p)
            /\ orphans' \subseteq orphans \/ \E l \in Libraries : ListLibrary(l)
  BY <1>1, SweepKnows
<1>4. Unborn'
  BY <1>1, UnbornStep
<1>5. phase' = "idle" => steady' = {}
  BY <1>2
<1>6. SteadyListed'
  <2>1. ASSUME NEW i \in steady', i \in Primary, phase # "idle"
        PROVE  i \in unlisted' \cup seen'
    <3>1. live[i] /\ i \in unlisted \cup seen
      BY <1>2, <2>1 DEF SteadyInv, SteadyListed
    <3>2. ASSUME NEW j \in Items, Enumerate(j)
          PROVE  i \in unlisted' \cup seen'
      BY <1>2, <3>1, <3>2 DEF Enumerate
    <3>3. QED
      BY <1>2, <1>3, <2>1, <3>1, <3>2
  <2>2. QED
    BY <1>2, <1>3, <2>1 DEF SteadyListed, StartSweep
<1>7. SteadyPushed'
  <2>1. ASSUME NEW p \in Slots, owner'[p] = "sweep", task'[p].ref \in steady'
        PROVE  task'[p].home = route'[task'[p].ref]
    <3>1. CASE /\ owner[p] = "sweep"
               /\ task'[p].ref = task[p].ref /\ task'[p].home = task[p].home
      <4>1. phase # "idle"
        BY <1>1, <3>1 DEF Tidy, Running, SweepAtWork
      <4>2. QED
        BY <1>2, <2>1, <3>1, <4>1 DEF SteadyInv, SteadyPushed
    <3>2. CASE UNCHANGED srcVars /\ task'[p].home = route[task'[p].ref]
      BY <3>2 DEF srcVars
    <3>3. QED
      BY <1>1, <2>1, <3>1, <3>2, SlotsStep
  <2>2. QED
    BY <2>1 DEF SteadyPushed
<1>8. SteadyTargets'
  <2>1. ASSUME NEW i \in steady', phase # "idle"
        PROVE  targets'[i] \subseteq {route'[i]}
    <3>1. targets[i] \subseteq {route[i]} /\ i \in Items /\ route'[i] = route[i]
      BY <1>2, <2>1 DEF SteadyInv, SteadyTargets
    <3>2. ASSUME NEW p \in Slots, EndItem(p)
          PROVE  targets'[i] \subseteq {route[i]}
      <4>1. targets' = targets \/ /\ owner[p] = "sweep"
                                  /\ targets' = [targets EXCEPT ![task[p].ref] =
                                                    @ \cup Established(task[p])]
        BY <3>2 DEF EndItem
      <4>2. Established(task[p]) \subseteq {task[p].home}
        BY DEF Established
      <4>3. targets \in [Items -> SUBSET Libraries]
        BY DEF TypedSync, SweepOK
      <4>4. owner[p] = "sweep" /\ task[p].ref = i => task[p].home = route[i]
        BY <1>2, <2>1 DEF SteadyInv, SteadyPushed
      <4>5. QED
        BY <3>1, <4>1, <4>2, <4>3, <4>4
    <3>3. QED
      BY <1>2, <1>3, <2>1, <3>1, <3>2
  <2>2. ASSUME NEW i \in steady', phase = "idle"
        PROVE  targets'[i] \subseteq {route'[i]}
    BY <1>2, <1>3, <2>2 DEF StartSweep, NoTargets
  <2>3. QED
    BY <2>1, <2>2 DEF SteadyTargets
<1>9. ASSUME NEW d \in orphans'
      PROVE  /\ docs'[d].state # "free"
             /\ docs'[d].key \in steady' => docs'[d].lib # route'[docs'[d].key]
  <2>1. ASSUME d \in DocIds, docs[d].state # "free",
               docs[d].key \in steady' => docs[d].lib # route[docs[d].key]
        PROVE  /\ docs'[d].state # "free"
               /\ docs'[d].key \in steady' => docs'[d].lib # route'[docs'[d].key]
    <3>1. /\ docs'[d].state # "free"
          /\ docs'[d].key = docs[d].key /\ docs'[d].lib = docs[d].lib
      BY <1>1, <2>1, DocsStep DEF DocsKept
    <3>2. QED
      BY <1>2, <2>1, <3>1
  <2>2. CASE d \in orphans
    <3>1. phase # "idle"
      BY <1>1, <2>2 DEF Tidy
    <3>2. /\ d \in DocIds /\ docs[d].state # "free"
          /\ docs[d].key \in steady => docs[d].lib # route[docs[d].key]
      BY <2>2 DEF SteadyInv, SteadySpared, TypedSync, SweepOK
    <3>3. QED
      BY <1>2, <2>1, <3>1, <3>2
  <2>3. ASSUME NEW l \in Libraries, ListLibrary(l)
        PROVE  /\ docs'[d].state # "free"
               /\ docs'[d].key \in steady' => docs'[d].lib # route'[docs'[d].key]
    <3>1. /\ d \in DocIds /\ docs[d].state = "active" /\ docs[d].lib = l
          /\ docs[d].key \in Primary /\ ~Expected(docs[d].key, l) /\ phase = "listing"
      BY <2>3 DEF ListLibrary, Active
    <3>2. unlisted = {}
      BY <1>1, <3>1 DEF Tidy
    <3>3. docs[d].key \in steady' => docs[d].key \in seen /\ targets[docs[d].key] \subseteq {route[docs[d].key]}
      BY <1>2, <3>1, <3>2 DEF SteadyInv, SteadyListed, SteadyTargets
    <3>4. docs[d].key \in steady' => l # route[docs[d].key]
      BY <3>1, <3>3 DEF Expected
    <3>5. QED
      BY <2>1, <3>1, <3>4
  <2>4. d \in orphans \/ \E l \in Libraries : ListLibrary(l)
    <3>1. phase' # "idle"
      BY <1>1 DEF Tidy
    <3>2. QED
      BY <1>3, <3>1 DEF StartSweep
  <2>5. QED
    BY <2>2, <2>3, <2>4
<1>10. ReaperSparesLive'
  <2> SUFFICES ASSUME task'[Reaper].pc = "delete", task'[Reaper].ref \in steady'
               PROVE  task'[Reaper].lib # route'[task'[Reaper].ref]
    BY DEF ReaperSparesLive
  <2>1. CASE ReapsOn(task'[Reaper])
    <3>1. /\ task[Reaper].pc = "delete" /\ task'[Reaper].ref = task[Reaper].ref
          /\ task'[Reaper].lib = task[Reaper].lib
      BY <2>1 DEF ReapsOn
    <3>2. phase # "idle"
      BY <1>1, <3>1 DEF Tidy
    <3>3. QED
      BY <1>2, <3>1, <3>2 DEF SteadyInv, SteadySpared, ReaperSparesLive
  <2>2. CASE StartsReaping
    <3>1. PICK d \in orphans : /\ Reap(d)
                               /\ task'[Reaper].ref = docs[d].key
                               /\ task'[Reaper].lib = docs[d].lib
      BY <2>2 DEF StartsReaping
    <3>2. phase # "idle"
      BY <3>1 DEF Reap
    <3>3. QED
      BY <1>2, <3>1, <3>2 DEF SteadyInv, SteadySpared
  <2>3. QED
    BY <1>1, <2>1, <2>2, ReaperStep
<1>11. QED
  BY <1>1, <1>4, <1>5, <1>6, <1>7, <1>8, <1>9, <1>10 DEF SteadyInv, SteadySpared

\* The reaper spares what the source has had, and routing has sent to one place,
\* ever since the sweep began: for any number of items, libraries, slots,
\* webhooks, documents and faults, whatever pushes, deletions, reroutes of other
\* items, cancellations and restarts come between the enumeration, the listing
\* and the deleting, and whatever comes, goes and returns beside it (sync.py:
\* _reap acts later on what run_once saw).
THEOREM ReaperSpares == WatchedSpec => []ReaperSparesLive
<1>1. WatchedInit => TypedSync /\ SteadyInv
  <2> SUFFICES ASSUME WatchedInit PROVE TypedSync /\ SteadyInv
    OBVIOUS
  <2>1. TypedSync
    BY TypedInit DEF WatchedInit
  <2>2. /\ Unborn
        /\ \A p \in Tasks : task[p].pc = "idle"
    BY DEF WatchedInit, SyncInit, Init, IronRagInit, FreeDoc, Unborn, Blank
  <2>3. Tidy /\ ReaperSparesLive
    BY <2>2, WorkersAssumption DEF WatchedInit, SyncInit, Tidy, Running, SweepAtWork,
                                   ReaperSparesLive
  <2>4. SteadyListed /\ SteadyPushed /\ SteadyTargets /\ SteadySpared
    BY <2>3 DEF WatchedInit, SyncInit, SteadyListed, SteadyPushed, SteadyTargets, SteadySpared
  <2>5. QED
    BY <2>1, <2>2, <2>3, <2>4 DEF SteadyInv, WatchedInit
<1>2. TypedSync /\ SteadyInv /\ [WatchedNext]_<<allVars, steady>> => (TypedSync /\ SteadyInv)'
  <2> SUFFICES ASSUME TypedSync, SteadyInv, [WatchedNext]_<<allVars, steady>>
               PROVE  (TypedSync /\ SteadyInv)'
    OBVIOUS
  <2>1. [SyncNext]_allVars
    BY DEF WatchedNext
  <2>2. TypedSync'
    BY <2>1, TypedStep
  <2>3. CASE UNCHANGED <<allVars, steady>>
    BY <2>2, <2>3 DEF allVars, vars, srcVars, ragVars, sweepVars, SteadyInv, Unborn, Tidy, Running,
       SweepAtWork, SteadyListed, SteadyPushed, SteadyTargets, SteadySpared, ReaperSparesLive
  <2>4. QED
    BY <2>2, <2>3, SteadyStep
<1>3. SteadyInv => ReaperSparesLive
  BY DEF SteadyInv, SteadySpared
<1>4. QED
  BY <1>1, <1>2, <1>3, PTL DEF WatchedSpec
=============================================================================
