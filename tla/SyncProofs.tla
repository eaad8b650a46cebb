----------------------------- MODULE SyncProofs -----------------------------
(***************************************************************************)
(* What is proved of the sweeps.  Every step of SyncManager is a step of   *)
(* Orchestrator on the variables they share, or changes none of them but   *)
(* that it perhaps costs a fault and ends calls; so what Orchestrator      *)
(* keeps, the sweeps keep.                                                 *)
(***************************************************************************)
EXTENDS SyncManager, OwnershipProofs

\* What waits for a permit is a reference: an item with a version's token.
RefsOK == /\ waiting \subseteq [item : Items, token : Versions]
          /\ strays \subseteq [item : Items, token : Versions]

\* A step that changes nothing Orchestrator knows of, but that it perhaps costs a
\* fault and ends some calls.
Aside == /\ UNCHANGED <<srcVars, cursor, pushed, ragVars>>
         /\ UNCHANGED task \/ \E P \in SUBSET Tasks : Cut(P)
         /\ Fault \/ UNCHANGED faults

\* What such a step makes of a call.
LEMMA AsideCalls ==
    ASSUME Aside, NEW p \in Tasks
    PROVE  task'[p] = task[p] \/ task'[p] = Blank(AnItem, NoToken)
  BY DEF Aside, Cut

LEMMA NoCallType ==
    LET u == Blank(AnItem, NoToken)
    IN  /\ u \in Task /\ WellFormed(u)
        /\ u.ref \in Items /\ u.todo = <<>> /\ u.doc = NoDoc /\ u.got = NoDoc
        /\ u.before = NoRow
  BY BlankType, AnItemIsOne DEF Tokens

LEMMA AsideKeeps ==
    ASSUME TypeInv, Aside
    PROVE  /\ TypeInv'
           /\ OwnInv => OwnInv'
           /\ LibInv => LibInv'
<1> DEFINE u == Blank(AnItem, NoToken)
<1>1. (faults \in 0 .. MaxFaults)'
  BY FaultType DEF TypeInv, Aside
<1>2. UNCHANGED docs /\ UNCHANGED cursor /\ UNCHANGED <<cursor, pushed>> /\ UNCHANGED ragVars
  BY DEF Aside, ragVars
<1>3. CASE UNCHANGED task
  <2>1. TypeInv'
    BY <1>1, <1>3 DEF TypeInv, SourceOK, Local, CursorTypeOK, PushedOK, TasksOK, WellFormed,
                      IronRagTypeOK, Housed, srcVars, ragVars, Aside
  <2>2. OwnInv => OwnInv'
    BY <1>3, SourceOwned DEF Aside
  <2>3. LibInv => LibInv'
    BY <1>2, <1>3, StillLodged
  <2>4. QED
    BY <2>1, <2>2, <2>3
<1>4. ASSUME NEW P \in SUBSET Tasks, Cut(P)
      PROVE  TypeInv' /\ (OwnInv => OwnInv') /\ (LibInv => LibInv')
  <2>1. task' = [p \in Tasks |-> IF p \in P THEN u ELSE task[p]]
    BY <1>4 DEF Cut
  <2>2. u \in Task /\ WellFormed(u) /\ u.todo = <<>> /\ u.doc = NoDoc /\ u.got = NoDoc
        /\ u.before = NoRow
    BY NoCallType
  <2>3. \A D : Lodged(D, u)
    BY BlankLodged
  <2> HIDE DEF u
  <2>4. TasksOK'
    BY <2>1, <2>2 DEF TypeInv, Local, TasksOK, WellFormed
  <2>5. TypeInv'
    BY <1>1, <2>4 DEF TypeInv, SourceOK, Local, CursorTypeOK, PushedOK, IronRagTypeOK, Housed,
                      srcVars, ragVars, Aside
  <2>6. ASSUME OwnInv
        PROVE  OwnInv'
    <3>1. ASSUME NEW p \in Tasks
          PROVE  Holds(docs', task'[p])
      BY <1>2, <2>1, <2>2, <2>6, EmptyHolds DEF OwnInv, LocalOwned, TasksOwned, Holds, Mine
    <3>2. TasksOwned'
      BY <3>1 DEF TasksOwned, Holds, Mine
    <3>3. QED
      BY <1>2, <2>6, <3>2, QuietKeeps
  <2>7. ASSUME LibInv
        PROVE  LibInv'
    <3>1. \A p \in Tasks : Lodged(docs', task[p])
      BY <1>2, <2>7, TaskLodged, LodgedKept, UnmovedKeeps
    <3>2. ASSUME NEW p \in Tasks
          PROVE  Lodged(docs', task'[p])
      BY <2>1, <2>3, <3>1
    <3>3. TasksLodged'
      BY <3>2 DEF TasksLodged, Lodged, RowLodged, Lodges
    <3>4. QED
      BY <1>2, <2>7, <3>3, UnmovedKeeps, RowsKept DEF LibInv
  <2>8. QED
    BY <2>5, <2>6, <2>7
<1>5. QED
  BY <1>3, <1>4 DEF Aside

\* The sweep's own steps.
LEMMA SweepIsStep ==
    ASSUME RefsOK, Sweep
    PROVE  Next \/ Aside
<1>1. CASE StartSweep
  BY <1>1 DEF StartSweep, Next
<1>2. CASE UNCHANGED vars
  BY <1>2 DEF vars, srcVars, ragVars, Aside
<1>3. ASSUME NEW d \in DocIds, Reap(d)
      PROVE  Next
  <2>1. Reaper \in Tasks /\ ReapOrphan(Reaper, docs[d].key, d)
    BY <1>3, WorkersAssumption DEF Reap
  <2>2. docs[d].key \in Items
    BY <2>1, HandlesAssumption DEF ReapOrphan, Starts
  <2>3. QED
    BY <2>1, <2>2 DEF Next, Call
<1>4. ASSUME NEW p \in Slots, StartItem(p)
      PROVE  Next
  <2>1. PICK x \in waiting \cup strays : PushRef(p, x.item, x.token)
    BY <1>4 DEF StartItem
  <2>2. x.item \in Items /\ x.token \in Versions
    BY <2>1 DEF RefsOK
  <2>3. QED
    BY <2>1, <2>2, WorkersAssumption DEF Next, Call
<1>5. ASSUME NEW p \in Slots, EndItem(p)
      PROVE  Next
  BY <1>5, WorkersAssumption DEF EndItem, Next
<1>6. \/ StartSweep \/ UNCHANGED vars
      \/ \E d \in DocIds : Reap(d)
      \/ \E p \in Slots : StartItem(p) \/ EndItem(p)
  BY DEF Sweep, SweepGoesOn, StartReaping, EndLibrary, Enumerate, ListLibrary
<1>7. QED
  BY <1>1, <1>2, <1>3, <1>4, <1>5, <1>6

LEMMA SyncStepIsStep ==
    ASSUME TypeInv, RefsOK, [SyncNext]_allVars
    PROVE  Next \/ Aside
<1>1. CASE Sweep
  BY <1>1, SweepIsStep
<1>2. CASE EnumerationFails \/ \E l \in Libraries : SkipLibrary(l)
  BY <1>2 DEF EnumerationFails, SkipLibrary, Aside
<1>3. CASE ReapingFails \/ CancelSweep
  <2>1. SweepCalls \in SUBSET Tasks
    BY WorkersAssumption DEF SweepCalls, Running
  <2>2. QED
    BY <1>3, <2>1, WorkersAssumption DEF ReapingFails, CancelSweep, Aside, Next
<1>4. ASSUME NEW p \in Tasks, Proceed(p) \/ Abort(p)
      PROVE  Next
  BY <1>4 DEF Proceed, Next
<1>5. ASSUME NEW p \in Tasks, Hook(p)
      PROVE  Next
  <2>1. PICK i \in Primary : (\E tok \in Versions : PushRef(p, i, tok)) \/ DeleteByRef(p, i)
    BY <1>5 DEF Hook
  <2>2. i \in Items
    BY PrimaryAssumption
  <2>3. QED
    BY <2>1, <2>2 DEF Next, Call
<1>6. CASE Source \/ Service \/ Seeder \/ Restart
  BY <1>6 DEF Restart, Next
<1>7. CASE UNCHANGED allVars
  BY <1>7 DEF allVars, vars, srcVars, ragVars, Aside
<1>8. QED
  BY <1>1, <1>2, <1>3, <1>4, <1>5, <1>6, <1>7 DEF SyncNext, SweepFails, Beside

\* The queues get references with the tokens of enumerated items only.
LEMMA RefsKeep ==
    ASSUME TypeInv, RefsOK, [SyncNext]_allVars
    PROVE  RefsOK'
<1>1. RefsOK /\ version \in [Items -> Versions]
  BY DEF TypeInv, SourceOK
<1>2. ASSUME NEW i \in Items, Enumerate(i)
      PROVE  RefsOK'
  <2>1. \A j \in Items : [item |-> j, token |-> version[j]] \in [item : Items, token : Versions]
    BY <1>1
  <2>2. QED
    BY <1>1, <1>2, <2>1 DEF Enumerate, RefsOK
<1>3. ASSUME NEW p \in Slots, StartItem(p)
      PROVE  RefsOK'
  BY <1>1, <1>3 DEF StartItem, RefsOK
<1>4. CASE EnumerationFails \/ CancelSweep \/ Restart
  BY <1>1, <1>4 DEF EnumerationFails, CancelSweep, Restart, RefsOK
<1>5. CASE UNCHANGED <<waiting, strays>>
  BY <1>1, <1>5 DEF RefsOK
<1>6. \/ \E i \in Items : Enumerate(i)
      \/ \E p \in Slots : StartItem(p)
      \/ EnumerationFails \/ CancelSweep \/ Restart
      \/ UNCHANGED <<waiting, strays>>
  <2>1. CASE Sweep
    BY <2>1 DEF Sweep, SweepGoesOn, StartSweep, StartReaping, EndLibrary, ListLibrary, Reap, EndItem
  <2>2. CASE ReapingFails \/ \E l \in Libraries : SkipLibrary(l)
    BY <2>2 DEF ReapingFails, SkipLibrary
  <2>3. CASE UNCHANGED sweepVars
    BY <2>3 DEF sweepVars
  <2>4. CASE \E p \in Tasks : Proceed(p) \/ Hook(p) \/ (Abort(p) /\ UNCHANGED sweepVars)
    BY <2>3, <2>4 DEF Proceed, Hook
  <2>5. CASE UNCHANGED allVars
    BY <2>5 DEF allVars, sweepVars
  <2>6. QED
    BY <2>1, <2>2, <2>3, <2>4, <2>5 DEF SyncNext, SweepFails, Beside
<1>7. QED
  BY <1>2, <1>3, <1>4, <1>5, <1>6

-----------------------------------------------------------------------------
(* Ownership.                                                              *)

OwnSyncInv == TypeInv /\ OwnInv /\ RefsOK

\* Ownership, for any number of items, slots, webhooks, libraries, documents and
\* versions: no sweep, stray coroutine, webhook, reaping or restart makes the
\* connector hold a document id created under another item's external key,
\* provided items never share bytes.
THEOREM SyncOwnership ==
    ASSUME DistinctPayloads
    PROVE  SyncSpec => []CursorOwnsDocument
<1>1. SyncInit => OwnSyncInv
  BY TypeInit, OwnInit DEF SyncInit, OwnSyncInv, RefsOK
<1>2. OwnSyncInv /\ [SyncNext]_allVars => OwnSyncInv'
  <2> SUFFICES ASSUME OwnSyncInv, [SyncNext]_allVars PROVE OwnSyncInv'
    OBVIOUS
  <2>1. TypeInv' /\ OwnInv'
    BY SyncStepIsStep, TypeStep, OwnStep, AsideKeeps DEF OwnSyncInv
  <2>2. QED
    BY <2>1, RefsKeep DEF OwnSyncInv
<1>3. OwnSyncInv => CursorOwnsDocument
  BY OwnInvOwns DEF OwnSyncInv
<1>4. QED
  BY <1>1, <1>2, <1>3, PTL DEF SyncSpec

-----------------------------------------------------------------------------
(* Libraries.                                                              *)

LibSyncInv == TypeInv /\ LibInv /\ RefsOK

\* Sweeps, strays, webhooks, reaping and restarts keep the rows as well: the row
\* of an item whose duplicates are refused names a document of its library.
THEOREM SyncRowsInLibrary == SyncSpec => []RowInLibrary
<1>1. SyncInit => LibSyncInv
  BY TypeInit, LibInit DEF SyncInit, LibSyncInv, RefsOK
<1>2. LibSyncInv /\ [SyncNext]_allVars => LibSyncInv'
  <2> SUFFICES ASSUME LibSyncInv, [SyncNext]_allVars PROVE LibSyncInv'
    OBVIOUS
  <2>1. TypeInv' /\ LibInv'
    BY SyncStepIsStep, TypeStep, LibStep, AsideKeeps DEF LibSyncInv
  <2>2. QED
    BY <2>1, RefsKeep DEF LibSyncInv
<1>3. LibSyncInv => RowInLibrary
  BY LibInvLodges DEF LibSyncInv
<1>4. QED
  BY <1>1, <1>2, <1>3, PTL DEF SyncSpec

-----------------------------------------------------------------------------
(* Type correctness.  That the libraries on record as targets are libraries *)
(* rests on the home of a call that has one.                                *)

\* A call that routing did not turn away is about a library.
Homed(t) == t.pc # "idle" /\ t.action # "unrouted" => t.home \in Libraries

AllHomed == \A p \in Tasks : Homed(task[p])

\* What a call becomes when it goes on is about the same item and library.
GoesOn(p) == \E u : Become(p, u) /\ u.home = task[p].home /\ u.ref = task[p].ref

LEMMA SameHome ==
    ASSUME NEW t \in Task
    PROVE  /\ \A a, b : Outcome(t, a, b).home = t.home /\ Outcome(t, a, b).ref = t.ref
           /\ \A a : NextItem(t, a).home = t.home /\ NextItem(t, a).ref = t.ref
           /\ \A pc, d : Ask(t, pc, d).home = t.home /\ Ask(t, pc, d).ref = t.ref
<1>1. \A a, b : Outcome(t, a, b).home = t.home /\ Outcome(t, a, b).ref = t.ref
  BY DEF Outcome, Blank
<1>2. ASSUME NEW pc, NEW d
      PROVE  /\ Ask(t, pc, d).home = t.home /\ Ask(t, pc, d).ref = t.ref
             /\ \A x, y, z :
                   LET n == [Ask(t, pc, d) EXCEPT !.todo = x, !.lib = y, !.action = z]
                   IN  n.home = t.home /\ n.ref = t.ref
  BY DEF Ask, Task
<1>3. ASSUME NEW a
      PROVE  NextItem(t, a).home = t.home /\ NextItem(t, a).ref = t.ref
  <2> DEFINE main == IF IsPrimary(t) THEN a ELSE t.action
             l == DependentLibrary(t, Head(Tail(t.todo)).item)
  <2>1. CASE Tail(t.todo) = <<>>
    BY <1>1, <2>1 DEF NextItem
  <2>2. CASE Tail(t.todo) # <<>>
    <3>1. NextItem(t, a) = [Ask(t, "item", NoDoc) EXCEPT
                               !.todo = Tail(t.todo), !.lib = l, !.action = main]
      BY <2>2 DEF NextItem
    <3> HIDE DEF main, l
    <3>2. QED
      BY <1>2, <3>1
  <2>3. QED
    BY <2>1, <2>2
<1>4. QED
  BY <1>1, <1>2, <1>3

\* The ways in which a handler goes on.
LEMMA SharedGoesOn ==
    ASSUME NEW p \in Tasks, task[p] \in Task
    PROVE  /\ \A a, b : Become(p, Outcome(task[p], a, b)) => GoesOn(p)
           /\ \A pc, d : Become(p, Ask(task[p], pc, d)) => GoesOn(p)
           /\ \A a : Become(p, NextItem(task[p], a)) => GoesOn(p)
           /\ \A d, a : Handled(p, d, a) => GoesOn(p)
           /\ Defer(p) \/ Raise(p) => GoesOn(p)
           /\ Become(p, StartCreate(task[p])) => GoesOn(p)
           /\ \A d : Become(p, StartReap(task[p], d)) => GoesOn(p)
           /\ \A a, d : Reply(p, a, d) => GoesOn(p)
<1>1. /\ \A a, b : Become(p, Outcome(task[p], a, b)) => GoesOn(p)
      /\ \A pc, d : Become(p, Ask(task[p], pc, d)) => GoesOn(p)
      /\ \A a : Become(p, NextItem(task[p], a)) => GoesOn(p)
  BY SameHome DEF GoesOn
<1>2. \A d, a : Handled(p, d, a) => GoesOn(p)
  BY <1>1 DEF Handled
<1>3. Defer(p) \/ Raise(p) => GoesOn(p)
  BY <1>1 DEF Defer, Raise
<1>4. Become(p, StartCreate(task[p])) => GoesOn(p)
  BY <1>1 DEF StartCreate
<1>5. \A d : Become(p, StartReap(task[p], d)) => GoesOn(p)
  BY <1>1 DEF StartReap
<1>6. ASSUME NEW a, NEW d, Reply(p, a, d)
      PROVE  GoesOn(p)
  <2> DEFINE u == [task[p] EXCEPT !.answer = a, !.got = d]
  <2>1. Become(p, u)
    BY <1>6 DEF Reply, Become
  <2>2. u.home = task[p].home /\ u.ref = task[p].ref
    BY DEF Task
  <2> HIDE DEF u
  <2>3. QED
    BY <2>1, <2>2 DEF GoesOn
<1>7. QED
  BY <1>1, <1>2, <1>3, <1>4, <1>5, <1>6

LEMMA RunGoesOn ==
    ASSUME TypeInv, NEW p \in Tasks, Run(p)
    PROVE  GoesOn(p) /\ task[p].pc \notin {"idle", "done"}
<1>1. task[p] \in Task
  BY DEF TypeInv, Local, TasksOK
<1>2. CASE ResumeLookup(p) \/ ResumeFetch(p)
  <2>1. ASSUME Become(p, [Ask(task[p], "item", NoDoc) EXCEPT !.before = cursor[task[p].ref]])
        PROVE  GoesOn(p)
    <3> DEFINE u == [Ask(task[p], "item", NoDoc) EXCEPT !.before = cursor[task[p].ref]]
    <3>1. u.home = task[p].home /\ u.ref = task[p].ref
      BY <1>1 DEF Ask, Task
    <3> HIDE DEF u
    <3>2. QED
      BY <2>1, <3>1 DEF GoesOn, u
  <2>2. QED
    BY <1>1, <1>2, <2>1, SharedGoesOn DEF ResumeLookup, ResumeFetch, Resumes
<1>3. CASE PushItem(p) \/ ResumeFind(p) \/ ResumeCreate(p)
  BY <1>1, <1>3, SharedGoesOn DEF PushItem, ResumeFind, ResumeCreate, PushChanged, Resumes
<1>4. CASE ResumeRevise(p) \/ Poll(p) \/ PollTimeout(p)
  BY <1>1, <1>4, SharedGoesOn DEF ResumeRevise, Poll, PollTimeout, Resumes
<1>5. CASE ResumeDeleteLookup(p) \/ ResumeDelete(p) \/ DeletePoll(p)
  BY <1>1, <1>5, SharedGoesOn DEF ResumeDeleteLookup, ResumeDelete, DeletePoll, Reaped, Resumes
<1>6. QED
  BY <1>2, <1>3, <1>4, <1>5 DEF Run

LEMMA ServeGoesOn ==
    ASSUME TypeInv, NEW p \in Tasks, Serve(p)
    PROVE  GoesOn(p) /\ task[p].pc \notin {"idle", "done"}
<1>1. task[p] \in Task
  BY DEF TypeInv, Local, TasksOK
<1>2. CASE ServeFind(p) \/ ServeCreate(p) \/ ServeRevise(p) \/ ServeDelete(p)
  BY <1>1, <1>2, SharedGoesOn DEF ServeFind, ServeCreate, ServeRevise, ServeDelete, Waits
<1>3. CASE ServeFetch(p)
  <2>1. \A x : LET u == [task[p] EXCEPT !.answer = "fetched", !.todo = x]
               IN  u.home = task[p].home /\ u.ref = task[p].ref
    BY <1>1 DEF Task
  <2>2. \A x : Become(p, [task[p] EXCEPT !.answer = "fetched", !.todo = x]) => GoesOn(p)
    BY <2>1 DEF GoesOn
  <2>3. /\ \/ Become(p, [task[p] EXCEPT !.answer = "fetched", !.todo = Fetched(task[p])])
           \/ Reply(p, "absent", NoDoc)
        /\ task[p].pc = "fetch"
    BY <1>3 DEF ServeFetch, Waits
  <2>4. \A a, d : Reply(p, a, d) => GoesOn(p)
    BY <1>1, SharedGoesOn
  <2>5. GoesOn(p)
    BY <2>2, <2>3, <2>4
  <2>6. QED
    BY <2>3, <2>5
<1>4. QED
  BY <1>2, <1>3 DEF Serve

\* A call that starts has the library routing gave it, or is turned away.
LEMMA CallHomed ==
    ASSUME TypeInv, NEW p \in Tasks, Call(p)
    PROVE  \E u : Become(p, u) /\ Homed(u)
<1>1. ASSUME NEW i \in Items, NEW tok \in Tokens
      PROVE  LET t == Routed(i, tok)
             IN  /\ t \in Task /\ t.home = route[i]
                 /\ Homed(Outcome(t, "unrouted", FALSE))
                 /\ route[i] # Unrouted =>
                       /\ Homed(Outcome(t, "noop_unchanged", FALSE))
                       /\ \A pc \in PC : Homed(Ask(t, pc, NoDoc))
  <2> DEFINE t == Routed(i, tok)
  <2>1. t \in Task /\ t.home = route[i]
    BY BlankType DEF Routed, TypeInv, SourceOK, Task, Blank
  <2> HIDE DEF t
  <2>2. Outcome(t, "unrouted", FALSE).action = "unrouted"
    BY DEF Outcome, Blank
  <2>3. route[i] # Unrouted => t.home \in Libraries
    BY <2>1 DEF TypeInv, SourceOK
  <2>4. /\ Homed(Outcome(t, "unrouted", FALSE))
        /\ route[i] # Unrouted => \A a : Homed(Outcome(t, a, FALSE))
        /\ route[i] # Unrouted => \A pc : Homed(Ask(t, pc, NoDoc))
    <3>1. Homed(Outcome(t, "unrouted", FALSE))
      BY <2>2 DEF Homed
    <3>2. t \in Task
      BY <2>1
    <3>3. ASSUME NEW a
          PROVE  Outcome(t, a, FALSE).home = t.home
      BY DEF Outcome, Blank
    <3>4. ASSUME NEW pc
          PROVE  Ask(t, pc, NoDoc).home = t.home
      BY <3>2, SameHome
    <3>5. QED
      BY <2>3, <3>1, <3>3, <3>4 DEF Homed
  <2>5. QED
    BY <2>1, <2>4 DEF t
<1>2. ASSUME NEW i \in Items, NEW tok \in Versions, PushRef(p, i, tok)
      PROVE  \E u : Become(p, u) /\ Homed(u)
  <2>1. tok \in Tokens
    BY DEF Tokens
  <2>2. QED
    BY <1>1, <1>2, <2>1 DEF PushRef, PC, Await
<1>3. ASSUME NEW i \in Items, DeleteByRef(p, i)
      PROVE  \E u : Become(p, u) /\ Homed(u)
  <2>1. NoToken \in Tokens
    BY DEF Tokens
  <2>2. QED
    BY <1>1, <1>3, <2>1 DEF DeleteByRef, PC, Await
<1>4. ASSUME NEW i \in Items, NEW d \in DocIds, ReapOrphan(p, i, d)
      PROVE  \E u : Become(p, u) /\ Homed(u)
  <2> DEFINE t == [Blank(i, NoToken) EXCEPT !.home = docs[d].lib, !.lib = docs[d].lib]
  <2>1. docs[d].lib \in Libraries
    BY <1>4, NoDocAssumption DEF ReapOrphan, TypeInv, Housed, IronRagTypeOK, Document
  <2>2. t \in Task /\ t.home = docs[d].lib
    BY <2>1, BlankType DEF Task, Tokens, Blank
  <2> HIDE DEF t
  <2>3. Homed(Outcome(t, "skipped_missing", FALSE)) /\ Homed(Ask(t, "delete", d))
    <3>1. Outcome(t, "skipped_missing", FALSE).home = t.home
      BY DEF Outcome, Blank
    <3>2. Ask(t, "delete", d).home = t.home
      BY <2>2, SameHome
    <3>3. QED
      BY <2>1, <2>2, <3>1, <3>2 DEF Homed
  <2>4. Homed(StartReap(t, d))
    BY <2>3 DEF StartReap
  <2>5. QED
    BY <1>4, <2>4 DEF ReapOrphan, t
<1>5. QED
  BY <1>2, <1>3, <1>4 DEF Call

LEMMA HomedStep ==
    ASSUME TypeInv, AllHomed, Next \/ Aside
    PROVE  AllHomed'
<1>1. ASSUME NEW p \in Tasks, NEW u, Become(p, u), Homed(u)
      PROVE  AllHomed'
  BY <1>1 DEF AllHomed, Homed, Become, TypeInv, Local, TasksOK
<1>2. ASSUME NEW p \in Tasks, GoesOn(p), task[p].pc \notin {"idle", "done"}
      PROVE  AllHomed'
  <2>1. task[p].home \in Libraries
    BY <1>2 DEF TypeInv, Local, TasksOK, WellFormed
  <2>2. QED
    BY <1>1, <1>2, <2>1 DEF GoesOn, Homed
<1>3. ASSUME NEW p \in Tasks, Call(p) \/ Run(p) \/ Serve(p)
      PROVE  AllHomed'
  BY <1>1, <1>2, <1>3, CallHomed, RunGoesOn, ServeGoesOn
<1>4. ASSUME NEW p \in Tasks, Abort(p)
      PROVE  AllHomed'
  <2>1. task[p] \in Task
    BY DEF TypeInv, Local, TasksOK
  <2>2. QED
    BY <1>2, <1>4, <2>1, SharedGoesOn DEF Abort, Await
<1>5. ASSUME NEW p \in Tasks, Collect(p)
      PROVE  AllHomed'
  <2>1. Homed(Blank(AnItem, NoToken))
    BY DEF Homed, Blank
  <2>2. QED
    BY <1>1, <1>5, <2>1 DEF Collect
<1>6. CASE Crash \/ Aside
  <2>1. Homed(Blank(AnItem, NoToken))
    BY DEF Homed, Blank
  <2>2. \A p \in Tasks : task'[p] = task[p] \/ task'[p] = Blank(AnItem, NoToken)
    BY <1>6, AsideCalls DEF Crash
  <2>3. QED
    BY <2>1, <2>2 DEF AllHomed, Homed
<1>7. CASE UNCHANGED task
  BY <1>7 DEF AllHomed, Homed
<1>8. QED
  <2>1. CASE Source \/ Service \/ Seeder \/ ResetSweepCache
    BY <1>7, <2>1 DEF Source, Edit, Vanish, Reroute, Service, Remove, Settle, Misfire,
                      Seeder, Seed, ResetSweepCache
  <2>2. QED
    BY <1>3, <1>4, <1>5, <1>6, <2>1 DEF Next
-----------------------------------------------------------------------------
\* What the sweep itself keeps.
SweepOK ==
    /\ phase \in {"idle", "sweeping", "listing", "reaping"}
    /\ unlisted \subseteq Primary
    /\ owner \in [Slots -> {"none", "sweep", "stray"}]
    /\ seen \subseteq Items
    /\ targets \in [Items -> SUBSET Libraries]
    /\ snapshot \subseteq Libraries /\ scan \subseteq Libraries
    /\ orphans \subseteq DocIds

LEMMA NoTargetsType == NoTargets \in [Items -> SUBSET Libraries]
  BY DEF NoTargets

\* A call that ended adds a library to its item's targets, or nothing.
LEMMA EndItemOK ==
    ASSUME TypeInv, AllHomed, SweepOK, NEW p \in Slots, EndItem(p)
    PROVE  SweepOK'
<1>1. task[p] \in Task /\ task[p].pc = "done" /\ Homed(task[p])
  BY WorkersAssumption DEF EndItem, Collect, TypeInv, Local, TasksOK, AllHomed
<1>2. Established(task[p]) \subseteq Libraries
  BY <1>1 DEF Established, Homed
<1>3. targets' \in [Items -> SUBSET Libraries]
  BY <1>1, <1>2 DEF EndItem, SweepOK
<1>4. owner' \in [Slots -> {"none", "sweep", "stray"}]
  BY DEF EndItem, SweepOK
<1>5. QED
  BY <1>3, <1>4 DEF EndItem, SweepOK

LEMMA SweepActionOK ==
    ASSUME TypeInv, AllHomed, SweepOK, Sweep
    PROVE  SweepOK'
<1>1. CASE StartSweep
  <2>1. \A j \in Primary : Has(j) => cursor[j].lib \in Libraries
    BY PrimaryAssumption DEF TypeInv, Local, CursorTypeOK, Has, Row
  <2>2. QED
    BY <1>1, <2>1, NoTargetsType DEF StartSweep, SweepOK
<1>2. CASE StartReaping
  <2>1. \A L \in RouterTargets : L \subseteq Libraries
    BY TargetsAssumption DEF RouterTargets
  <2>2. QED
    BY <1>2, <2>1 DEF StartReaping, SweepOK
<1>3. CASE EndLibrary
  BY <1>3, NoTargetsType DEF EndLibrary, SweepOK
<1>4. ASSUME NEW i \in Items, Enumerate(i)
      PROVE  SweepOK'
  BY <1>4 DEF Enumerate, SweepOK
<1>5. ASSUME NEW l \in Libraries, ListLibrary(l)
      PROVE  SweepOK'
  BY <1>5 DEF ListLibrary, SweepOK
<1>6. ASSUME NEW d \in DocIds, Reap(d)
      PROVE  SweepOK'
  BY <1>6 DEF Reap, SweepOK
<1>7. ASSUME NEW p \in Slots, StartItem(p)
      PROVE  SweepOK'
  BY <1>7 DEF StartItem, SweepOK
<1>8. QED
  BY <1>1, <1>2, <1>3, <1>4, <1>5, <1>6, <1>7, EndItemOK DEF Sweep, SweepGoesOn

LEMMA SweepKeeps ==
    ASSUME TypeInv, AllHomed, SweepOK, [SyncNext]_allVars
    PROVE  SweepOK'
<1>1. CASE Sweep
  BY <1>1, SweepActionOK
<1>2. CASE EnumerationFails \/ CancelSweep
  BY <1>2, NoTargetsType DEF EnumerationFails, CancelSweep, SweepOK
<1>3. CASE ReapingFails
  BY <1>3, NoTargetsType DEF ReapingFails, SweepOK
<1>4. CASE \E l \in Libraries : SkipLibrary(l)
  BY <1>4 DEF SkipLibrary, SweepOK
<1>5. CASE Restart
  BY <1>5, NoTargetsType DEF Restart, SweepOK
<1>6. CASE UNCHANGED sweepVars
  BY <1>6 DEF sweepVars, SweepOK
<1>7. QED
  BY <1>1, <1>2, <1>3, <1>4, <1>5, <1>6 DEF SyncNext, SweepFails, Beside, Proceed, Hook, allVars

TypedSync == TypeInv /\ RefsOK /\ AllHomed /\ SweepOK

LEMMA TypedInit == SyncInit => TypedSync
<1> SUFFICES ASSUME SyncInit PROVE TypedSync
  OBVIOUS
<1>1. TypeInv
  BY TypeInit DEF SyncInit
<1>2. AllHomed
  BY DEF SyncInit, Init, AllHomed, Homed, Blank
<1>3. QED
  BY <1>1, <1>2, NoTargetsType DEF SyncInit, TypedSync, RefsOK, SweepOK

LEMMA TypedStep ==
    ASSUME TypedSync, [SyncNext]_allVars
    PROVE  TypedSync'
<1>1. Next \/ Aside
  BY SyncStepIsStep DEF TypedSync
<1>2. TypeInv'
  BY <1>1, TypeStep, AsideKeeps DEF TypedSync
<1>3. QED
  BY <1>1, <1>2, HomedStep, RefsKeep, SweepKeeps DEF TypedSync

\* Type correctness of the sweeps: among other things, every library the reaper
\* takes for a target of an item is one, since a call reports a library only if
\* routing gave it one.
THEOREM SyncTypeCorrect == SyncSpec => []SyncTypeOK
<1>1. SyncInit => TypedSync
  BY TypedInit
<1>2. TypedSync /\ [SyncNext]_allVars => TypedSync'
  BY TypedStep
<1>3. TypedSync => SyncTypeOK
  BY TypeInvTypeOK DEF TypedSync, SyncTypeOK, SweepOK, RefsOK, Ref, Tokens
<1>4. QED
  BY <1>1, <1>2, <1>3, PTL DEF SyncSpec
=============================================================================
