----------------------------- MODULE SweepProofs -----------------------------
(***************************************************************************)
(* Sweeps that keep apart (ApartSpec) have at most one call at work on an  *)
(* item: OneCallPerItem is what they do, not only what the theorems of     *)
(* MirrorProofs suppose, where no webhook calls beside them and no item is *)
(* a dependent of two.  With it those theorems hold of the sweeps without  *)
(* a hypothesis about calls.                                               *)
(*                                                                         *)
(* A sweep comes to an item once.  The invariant follows it from there: to *)
(* come to, waiting for a permit, in a slot, done - whether its sweep goes *)
(* on, or left it behind as a stray.                                       *)
(*                                                                         *)
(* What the calls report rests on it too.  An outcome is true as long as   *)
(* the sweep cache has nothing of an item still to be pushed (Ahead,       *)
(* Uncached), so that nothing is reported of an item that this sweep has   *)
(* not pushed; and a parent is whole as long as each dependent is in the   *)
(* cursor or still before the call (Whole).                                *)
(***************************************************************************)
EXTENDS MirrorProofs

\* An item and its dependents.
Family(i) == {i} \cup {Dependents[i][k] : k \in 1 .. Len(Dependents[i])}

SweepConditions ==
    /\ Hooks = {}
    /\ \A i, j \in Primary : Family(i) \cap Family(j) # {} => i = j

\* A step of sweeps that keep apart.
Stepping == [SyncNext]_allVars /\ (StartSweep => StraysDone)

LEMMA ApartSteps == [ApartNext]_allVars /\ TypeInv => Stepping
<1>1. StartSweep => phase = "idle" /\ phase' = "sweeping"
  BY DEF StartSweep
<1>2. CASE StartApart
  BY <1>2 DEF StartApart, SyncNext, Sweep, Stepping
<1>3. CASE SweepGoesOn \/ SweepFails \/ Beside
  <2>1. ~StartSweep
    BY <1>1, <1>3 DEF SweepGoesOn, StartReaping, EndLibrary, Enumerate, ListLibrary, Reap, StartItem,
       EndItem, SweepFails, EnumerationFails, CancelSweep, ReapingFails, SkipLibrary, Beside, Proceed,
       Hook, Restart, sweepVars
  <2>2. QED
    BY <1>3, <2>1 DEF SyncNext, Sweep, Stepping
<1>4. CASE UNCHANGED allVars
  BY <1>1, <1>4 DEF allVars, sweepVars, Stepping
<1>5. QED
  BY <1>2, <1>3, <1>4 DEF ApartNext

LEMMA ApartIsSync == ApartSpec => SyncSpec
<1>1. ApartNext => SyncNext
  BY DEF ApartNext, StartApart, SyncNext, Sweep
<1>2. QED
  BY <1>1, PTL DEF ApartSpec, SyncSpec

-----------------------------------------------------------------------------
(* The invariant.                                                          *)

\* A call pushes its item and the item's dependents; the reaper's never push.
CallsAbout == \A p \in Tasks : Concerns(task[p]) \subseteq Family(task[p].ref)
Deletes(t) == t.pc \in {"idle", "dlookup", "delete", "dpoll", "done"} /\ ~t.deferred

\* References that wait for a permit, whichever sweep enumerated them.
Queued == waiting \cup strays

\* An enumerated item is waiting once, or in one slot, or was.
QueueOnce  == \A x, y \in Queued : x.item = y.item => x = y
QueueAhead == \A x \in Queued : /\ x.item \in Primary \ unlisted
                                /\ \A p \in Slots : owner[p] # "none" => task[p].ref # x.item
SlotsApart ==
    \A p \in Slots :
        /\ owner[p] = "none" => task[p].pc = "idle"
        /\ owner[p] # "none" => /\ task[p].ref \in Primary \ unlisted
                                /\ \A q \in Slots : owner[q] # "none" /\ task[q].ref = task[p].ref
                                                       => q = p

\* A sweep that ends by itself has ended all it started, and one begins when
\* those left behind have ended.
BetweenSweeps ==
    /\ phase # "sweeping" => unlisted = {} /\ waiting = {} /\ \A p \in Slots : owner[p] # "sweep"
    /\ phase # "idle" => strays = {} /\ \A p \in Slots : owner[p] # "stray"

SweepInv == /\ CallsAbout /\ Deletes(task[Reaper])
            /\ QueueOnce /\ QueueAhead /\ SlotsApart /\ BetweenSweeps

-----------------------------------------------------------------------------
(* Calls go on.                                                            *)

\* What the adapter fetches under a reference: its item and the dependents.
LEMMA FetchedItems ==
    ASSUME NEW t, t.ref \in Items
    PROVE  \A k \in 1 .. Len(Fetched(t)) : Fetched(t)[k].item \in Family(t.ref)
<1> DEFINE first == [item |-> t.ref, token |-> t.token, payload |-> Current(t.ref)]
           deps == Dependents[t.ref]
           dep(k) == [item |-> deps[k], token |-> version[deps[k]],
                      payload |-> Current(deps[k])]
           rest == [k \in 1 .. Len(deps) |-> dep(k)]
           S == {first} \cup {dep(k) : k \in 1 .. Len(deps)}
<1>1. deps \in Seq(Items) /\ Len(deps) \in Nat
  BY DependentsAssumption, LenProperties
<1>2. first.item = t.ref /\ \A k : dep(k).item = deps[k]
  OBVIOUS
<1>3. Fetched(t) = <<first>> \o rest
  BY DEF Fetched
<1>4. \A x \in S : x.item \in Family(t.ref)
  <2>1. \A k \in 1 .. Len(deps) : deps[k] \in Family(t.ref)
    BY DEF Family
  <2>2. t.ref \in Family(t.ref)
    BY DEF Family
  <2> HIDE DEF first, dep
  <2>3. QED
    BY <1>2, <2>1, <2>2
<1> HIDE DEF first, dep
<1>5. <<first>> \in Seq(S) /\ rest \in Seq(S)
  BY <1>1
<1> HIDE DEF rest, S
<1>6. <<first>> \o rest \in Seq(S)
  BY <1>5, ConcatProperties
<1>7. \A k \in 1 .. Len(Fetched(t)) : Fetched(t)[k] \in S
  BY <1>3, <1>6, ElementOfSeq
<1>8. QED
  BY <1>4, <1>7


\* What a call becomes when it goes on is about the same items, and pushes
\* only if it did.
Follows(t, u) == /\ u.ref = t.ref
                 /\ Concerns(u) \subseteq Concerns(t) \cup Family(t.ref)
                 /\ Deletes(t) => Deletes(u)

LEMMA FormsFollow ==
    ASSUME NEW t \in Task
    PROVE  /\ \A a : Follows(t, Outcome(t, a, FALSE))
           /\ \A a, b : ~Deletes(t) => Follows(t, Outcome(t, a, b))
           /\ \A pc, d : /\ Deletes(t) => pc \in {"dlookup", "delete", "dpoll"}
                         => Follows(t, Ask(t, pc, d))
           /\ \A a : ~Deletes(t) /\ t.todo # <<>> => Follows(t, NextItem(t, a))
           /\ \A a, d : Follows(t, [t EXCEPT !.answer = a, !.got = d])
<1>1. t.ref \in Concerns(t)
  BY DEF Concerns
<1>2. ASSUME NEW u, u.ref = t.ref, u.todo = <<>>
      PROVE  Concerns(u) = {t.ref}
  BY <1>2 DEF Concerns
<1>3. ASSUME NEW u, u.ref = t.ref, u.todo = t.todo
      PROVE  Concerns(u) = Concerns(t)
  BY <1>3 DEF Concerns
<1>4. ASSUME NEW a, NEW b
      PROVE  LET u == Outcome(t, a, b)
             IN  u.ref = t.ref /\ u.todo = <<>> /\ u.pc = "done" /\ u.deferred = b
  BY DEF Outcome, Blank
<1>5. ASSUME NEW a, NEW b
      PROVE  Concerns(Outcome(t, a, b)) = {t.ref} /\ Outcome(t, a, b).ref = t.ref
             /\ (b = FALSE => Deletes(Outcome(t, a, b)))
  <2>1. Concerns(Outcome(t, a, b)) = {t.ref}
    BY <1>2, <1>4
  <2>2. QED
    BY <1>4, <2>1 DEF Deletes
<1>6. ASSUME NEW pc, NEW d
      PROVE  LET u == Ask(t, pc, d)
             IN  /\ u.ref = t.ref /\ u.todo = t.todo /\ u.pc = pc /\ u.deferred = t.deferred
                 /\ \A x, l, z : LET n == [u EXCEPT !.todo = x, !.lib = l, !.action = z]
                                 IN  n.ref = t.ref /\ n.todo = x
  BY DEF Ask, Task
<1>7. ASSUME NEW pc, NEW d, Deletes(t) => pc \in {"dlookup", "delete", "dpoll"}
      PROVE  Follows(t, Ask(t, pc, d))
  <2>1. Concerns(Ask(t, pc, d)) = Concerns(t)
    BY <1>3, <1>6
  <2>2. QED
    BY <1>6, <1>7, <2>1 DEF Follows, Deletes
<1>8. ASSUME NEW a, ~Deletes(t), t.todo # <<>>
      PROVE  Follows(t, NextItem(t, a))
  <2> DEFINE rest == Tail(t.todo)
             main == IF IsPrimary(t) THEN a ELSE t.action
             l == DependentLibrary(t, Head(rest).item)
  <2>1. CASE rest = <<>>
    BY <1>1, <1>5, <1>8, <2>1 DEF NextItem, Follows
  <2>2. CASE rest # <<>>
    <3>1. NextItem(t, a) = [Ask(t, "item", NoDoc) EXCEPT !.todo = rest, !.lib = l, !.action = main]
      BY <2>2 DEF NextItem
    <3>2. /\ rest \in Seq(SourceItem) /\ Len(rest) = Len(t.todo) - 1 /\ Len(t.todo) \in Nat
          /\ \A k \in 1 .. Len(rest) : rest[k] = t.todo[k + 1]
      BY <1>8, HeadTailProperties, LenProperties DEF Task
    <3> HIDE DEF main, rest, l
    <3>3. NextItem(t, a).ref = t.ref /\ NextItem(t, a).todo = rest
      BY <1>6, <3>1
    <3>4. ASSUME NEW k \in 1 .. Len(rest)
          PROVE  rest[k].item \in Concerns(t)
      <4>1. k + 1 \in 1 .. Len(t.todo)
        BY <3>2
      <4>2. t.todo[k + 1].item \in Concerns(t)
        BY <4>1 DEF Concerns
      <4>3. QED
        BY <3>2, <4>2
    <3>5. Concerns(NextItem(t, a)) \subseteq Concerns(t)
      BY <1>1, <3>3, <3>4 DEF Concerns
    <3>6. QED
      BY <1>8, <3>3, <3>5 DEF Follows
  <2>3. QED
    BY <2>1, <2>2
<1>9. ASSUME NEW a, NEW d
      PROVE  Follows(t, [t EXCEPT !.answer = a, !.got = d])
  <2> DEFINE u == [t EXCEPT !.answer = a, !.got = d]
  <2>1. u.ref = t.ref /\ u.todo = t.todo /\ u.pc = t.pc /\ u.deferred = t.deferred
    BY DEF Task
  <2> HIDE DEF u
  <2>2. Concerns(u) = Concerns(t)
    BY <1>3, <2>1
  <2>3. Follows(t, u)
    BY <2>1, <2>2 DEF Follows, Deletes
  <2>4. QED
    BY <2>3 DEF u
<1>10. QED
  BY <1>1, <1>5, <1>7, <1>8, <1>9 DEF Follows

\* The ways in which a handler goes on.
OnItsWay(p) == \E u : Become(p, u) /\ Follows(task[p], u)

LEMMA SharedFollow ==
    ASSUME NEW p \in Tasks, task[p] \in Task
    PROVE  /\ \A a : Become(p, Outcome(task[p], a, FALSE)) => OnItsWay(p)
           /\ \A pc, d : /\ Deletes(task[p]) => pc \in {"dlookup", "delete", "dpoll"}
                         /\ Become(p, Ask(task[p], pc, d))
                         => OnItsWay(p)
           /\ ~Deletes(task[p]) /\ task[p].todo # <<>> =>
                 /\ \A a : Become(p, NextItem(task[p], a)) => OnItsWay(p)
                 /\ \A d, a : Handled(p, d, a) => OnItsWay(p)
                 /\ Defer(p) => OnItsWay(p)
                 /\ Become(p, StartCreate(task[p])) => OnItsWay(p)
           /\ Raise(p) => OnItsWay(p)
           /\ \A d : Become(p, StartReap(task[p], d)) => OnItsWay(p)
           /\ \A a, d : Reply(p, a, d) => OnItsWay(p)
<1>1. \A a : Become(p, Outcome(task[p], a, FALSE)) => OnItsWay(p)
  BY FormsFollow DEF OnItsWay
<1>2. \A pc, d : /\ Deletes(task[p]) => pc \in {"dlookup", "delete", "dpoll"}
                 /\ Become(p, Ask(task[p], pc, d))
                 => OnItsWay(p)
  BY FormsFollow DEF OnItsWay
<1>3. ASSUME ~Deletes(task[p]), task[p].todo # <<>>
      PROVE  /\ \A a : Become(p, NextItem(task[p], a)) => OnItsWay(p)
             /\ \A d, a : Handled(p, d, a) => OnItsWay(p)
             /\ Defer(p) => OnItsWay(p)
             /\ Become(p, StartCreate(task[p])) => OnItsWay(p)
  <2>1. \A a : Become(p, NextItem(task[p], a)) => OnItsWay(p)
    BY <1>3, FormsFollow DEF OnItsWay
  <2>2. \A a : Become(p, Outcome(task[p], a, TRUE)) => OnItsWay(p)
    BY <1>3, FormsFollow DEF OnItsWay
  <2>3. QED
    BY <1>2, <1>3, <2>1, <2>2 DEF Handled, Defer, StartCreate
<1>4. ASSUME NEW a, NEW d, Reply(p, a, d)
      PROVE  OnItsWay(p)
  <2> DEFINE u == [task[p] EXCEPT !.answer = a, !.got = d]
  <2>1. Become(p, u)
    BY <1>4 DEF Reply, Become
  <2>2. Follows(task[p], u)
    BY FormsFollow
  <2>3. QED
    BY <2>1, <2>2 DEF OnItsWay
<1>5. Raise(p) => OnItsWay(p)
  BY <1>1 DEF Raise
<1>6. \A d : Become(p, StartReap(task[p], d)) => OnItsWay(p)
  BY <1>1, <1>2 DEF StartReap
<1>7. QED
  BY <1>1, <1>2, <1>3, <1>4, <1>5, <1>6

LEMMA RunFollows ==
    ASSUME TypeInv, NEW p \in Tasks, Run(p)
    PROVE  OnItsWay(p) /\ task[p].pc \notin {"idle", "done"}
<1>1. /\ task[p] \in Task
      /\ task[p].pc \in {"item", "find", "create", "revise", "poll"} => task[p].todo # <<>>
  BY TaskFacts DEF Pushing
<1>2. task[p].pc \notin {"idle", "done"}
  BY DEF Run, ResumeLookup, ResumeFetch, PushItem, ResumeFind, ResumeCreate, ResumeRevise, Poll,
     PollTimeout, ResumeDeleteLookup, ResumeDelete, DeletePoll, Resumes
<1>3. CASE ResumeLookup(p) \/ ResumeFetch(p)
  <2>1. ~Deletes(task[p])
    BY <1>3 DEF ResumeLookup, ResumeFetch, Resumes, Deletes
  <2>2. ASSUME Become(p, [Ask(task[p], "item", NoDoc) EXCEPT !.before = cursor[task[p].ref]])
        PROVE  OnItsWay(p)
    <3> DEFINE n == [Ask(task[p], "item", NoDoc) EXCEPT !.before = cursor[task[p].ref]]
    <3>1. n.ref = task[p].ref /\ n.todo = task[p].todo
      BY <1>1 DEF Ask, Task
    <3>2. Become(p, n)
      BY <2>2
    <3> HIDE DEF n
    <3>3. QED
      BY <2>1, <3>1, <3>2 DEF OnItsWay, Follows, Concerns
  <2>3. QED
    BY <1>1, <1>2, <1>3, <2>1, <2>2, SharedFollow DEF ResumeLookup, ResumeFetch
<1>4. CASE PushItem(p) \/ ResumeFind(p) \/ ResumeCreate(p)
  <2>1. task[p].todo # <<>> /\ ~Deletes(task[p])
    BY <1>1, <1>4 DEF PushItem, ResumeFind, ResumeCreate, Resumes, Deletes
  <2>2. \/ \E a : Become(p, NextItem(task[p], a))
        \/ \E d, a : Handled(p, d, a)
        \/ \E d : Become(p, Ask(task[p], "revise", d))
        \/ Become(p, Ask(task[p], "find", NoDoc))
        \/ Become(p, StartCreate(task[p])) \/ Raise(p)
    BY <1>4 DEF PushItem, ResumeFind, ResumeCreate, PushChanged
  <2>3. QED
    BY <1>1, <1>2, <2>1, <2>2, SharedFollow
<1>5. CASE ResumeRevise(p) \/ Poll(p) \/ PollTimeout(p)
  <2>1. task[p].todo # <<>> /\ ~Deletes(task[p])
    BY <1>1, <1>5 DEF ResumeRevise, Poll, PollTimeout, Resumes, Deletes
  <2>2. QED
    BY <1>1, <1>2, <1>5, <2>1, SharedFollow DEF ResumeRevise, Poll, PollTimeout
<1>6. CASE ResumeDeleteLookup(p) \/ ResumeDelete(p) \/ DeletePoll(p)
  BY <1>1, <1>2, <1>6, SharedFollow DEF ResumeDeleteLookup, ResumeDelete, DeletePoll, Reaped
<1>7. QED
  BY <1>2, <1>3, <1>4, <1>5, <1>6 DEF Run

LEMMA ServeFollows ==
    ASSUME TypeInv, NEW p \in Tasks, Serve(p)
    PROVE  OnItsWay(p) /\ task[p].pc \notin {"idle", "done"}
<1>1. task[p] \in Task /\ SourceOK
  BY TaskFacts DEF TypeInv
<1>2. CASE ServeFind(p) \/ ServeCreate(p) \/ ServeRevise(p) \/ ServeDelete(p)
  BY <1>1, <1>2, SharedFollow DEF ServeFind, ServeCreate, ServeRevise, ServeDelete, Waits
<1>3. CASE ServeFetch(p)
  <2> DEFINE n == [task[p] EXCEPT !.answer = "fetched", !.todo = Fetched(task[p])]
             D == Dependents[task[p].ref]
  <2>1. n.ref = task[p].ref /\ n.todo = Fetched(task[p]) /\ task[p].ref \in Items
    BY <1>1 DEF Task
  <2>2. task[p].pc = "fetch" /\ ~Deletes(task[p])
    BY <1>3 DEF ServeFetch, Waits, Deletes
  <2>3. \A k \in 1 .. Len(Fetched(task[p])) : Fetched(task[p])[k].item \in Family(task[p].ref)
    BY <2>1, FetchedItems
  <2>4. Concerns(n) \subseteq Family(task[p].ref)
    <3> HIDE DEF n
    <3>1. QED
      BY <2>1, <2>3 DEF Concerns, Family
  <2>5. Become(p, n) => OnItsWay(p)
    <3> HIDE DEF n
    <3>1. QED
      BY <2>1, <2>2, <2>4 DEF OnItsWay, Follows
  <2>6. QED
    BY <1>1, <1>3, <2>2, <2>5, SharedFollow DEF ServeFetch
<1>4. QED
  BY <1>2, <1>3 DEF Serve

-----------------------------------------------------------------------------
(* Calls begin and end.                                                    *)

\* A call that is idle or begins is about its item alone.
LEMMA AloneForms ==
    ASSUME NEW t, t.todo = <<>>
    PROVE  /\ Concerns(t) \subseteq Family(t.ref)
           /\ \A a, b : LET u == Outcome(t, a, b) IN Concerns(u) \subseteq Family(u.ref) /\ u.ref = t.ref
<1>1. \A u : u.todo = <<>> => Concerns(u) \subseteq Family(u.ref)
  BY DEF Concerns, Family
<1>2. \A a, b : Outcome(t, a, b).todo = <<>> /\ Outcome(t, a, b).ref = t.ref
  BY DEF Outcome, Blank
<1>3. QED
  BY <1>1, <1>2

LEMMA PushBegins ==
    ASSUME TypeInv, NEW p \in Tasks, NEW i \in Items, NEW tok \in Tokens, PushRef(p, i, tok)
    PROVE  \E u : Become(p, u) /\ u.ref = i /\ Concerns(u) \subseteq Family(i)
<1> DEFINE t == Routed(i, tok)
<1>1. t \in Task /\ t.ref = i /\ t.todo = <<>>
  BY RoutedType DEF TypeInv
<1>2. \/ \E a : Become(p, Outcome(t, a, FALSE))
      \/ \E pc, d : Become(p, Ask(t, pc, d))
  BY DEF PushRef
<1> HIDE DEF t
<1>3. \A pc, d : Ask(t, pc, d).ref = i /\ Ask(t, pc, d).todo = <<>>
  BY <1>1 DEF Ask, Task
<1>4. \A pc, d : Concerns(Ask(t, pc, d)) \subseteq Family(i)
  BY <1>3, AloneForms
<1>5. \A a, b : Outcome(t, a, b).ref = i /\ Concerns(Outcome(t, a, b)) \subseteq Family(i)
  BY <1>1, AloneForms
<1>6. QED
  BY <1>2, <1>3, <1>4, <1>5

LEMMA ReapBegins ==
    ASSUME TypeInv, NEW d \in DocIds, ReapOrphan(Reaper, docs[d].key, d)
    PROVE  \E u : Become(Reaper, u) /\ Concerns(u) \subseteq Family(u.ref) /\ Deletes(u)
<1> DEFINE i == docs[d].key
           t == [Blank(i, NoToken) EXCEPT !.home = docs[d].lib, !.lib = docs[d].lib]
<1>1. t.todo = <<>> /\ t.ref = i /\ t.deferred = FALSE
  BY DEF Blank
<1>2. \/ Become(Reaper, Outcome(t, "skipped_missing", FALSE))
      \/ Become(Reaper, Ask(t, "delete", d))
  BY DEF ReapOrphan, StartReap
<1>3. LET u == Ask(t, "delete", d)
      IN  u.ref = i /\ u.todo = <<>> /\ u.pc = "delete" /\ u.deferred = FALSE
  BY DEF Ask, Blank
<1> HIDE DEF i, t
<1>4. CASE Become(Reaper, Ask(t, "delete", d))
  <2>1. Concerns(Ask(t, "delete", d)) \subseteq Family(Ask(t, "delete", d).ref)
    BY <1>3, AloneForms
  <2>2. QED
    BY <1>3, <1>4, <2>1 DEF Deletes
<1>5. CASE Become(Reaper, Outcome(t, "skipped_missing", FALSE))
  <2>1. LET u == Outcome(t, "skipped_missing", FALSE) IN u.pc = "done" /\ u.deferred = FALSE
    BY DEF Outcome, Blank
  <2>2. Concerns(Outcome(t, "skipped_missing", FALSE))
           \subseteq Family(Outcome(t, "skipped_missing", FALSE).ref)
    BY <1>1, AloneForms
  <2>3. QED
    BY <1>5, <2>1, <2>2 DEF Deletes
<1>6. QED
  BY <1>2, <1>4, <1>5

LEMMA BlankForm ==
    \A i, tok : LET u == Blank(i, tok)
                IN  /\ u.ref = i /\ u.pc = "idle" /\ u.todo = <<>> /\ Deletes(u)
                    /\ Concerns(u) \subseteq Family(i)
<1>1. ASSUME NEW i, NEW tok
      PROVE  LET u == Blank(i, tok) IN u.ref = i /\ u.pc = "idle" /\ u.todo = <<>> /\ u.deferred = FALSE
  BY DEF Blank
<1>2. ASSUME NEW i, NEW tok
      PROVE  Concerns(Blank(i, tok)) \subseteq Family(i)
  <2> DEFINE u == Blank(i, tok)
  <2>1. u.todo = <<>> /\ u.ref = i
    BY <1>1
  <2> HIDE DEF u
  <2>2. Concerns(u) \subseteq Family(u.ref)
    BY <2>1, AloneForms
  <2>3. QED
    BY <2>1, <2>2 DEF u
<1>3. QED
  BY <1>1, <1>2 DEF Deletes

-----------------------------------------------------------------------------
(* What a step makes of the calls.                                         *)

\* The calls, and who the reaper's is.
Calls == CallsAbout /\ Deletes(task[Reaper])

LEMMA OneCallChanges ==
    ASSUME TypeInv, Calls, NEW p \in Tasks, NEW u, Become(p, u),
           Concerns(u) \subseteq Family(u.ref), p = Reaper => Deletes(u)
    PROVE  Calls'
<1>1. task \in [Tasks -> Task] /\ Reaper \in Tasks
  BY WorkersAssumption DEF TypeInv, Local, TasksOK
<1>2. \A q \in Tasks : task'[q] = IF q = p THEN u ELSE task[q]
  BY <1>1 DEF Become
<1>3. CallsAbout'
  BY <1>2 DEF Calls, CallsAbout
<1>4. Deletes(task[Reaper])'
  BY <1>1, <1>2 DEF Calls, Deletes
<1>5. QED
  BY <1>3, <1>4 DEF Calls

\* A call that goes on, or is cut.
LEMMA WayKeepsCalls ==
    ASSUME TypeInv, Calls, NEW p \in Tasks, OnItsWay(p)
    PROVE  /\ Calls'
           /\ \A q \in Tasks : task'[q].ref = task[q].ref /\ (q # p => task'[q] = task[q])
<1>1. PICK u : Become(p, u) /\ Follows(task[p], u)
  BY DEF OnItsWay
<1>2. task \in [Tasks -> Task]
  BY DEF TypeInv, Local, TasksOK
<1>3. Concerns(u) \subseteq Family(u.ref)
  BY <1>1 DEF Follows, Calls, CallsAbout
<1>4. p = Reaper => Deletes(u)
  BY <1>1 DEF Follows, Calls
<1>5. \A q \in Tasks : task'[q].ref = task[q].ref /\ (q # p => task'[q] = task[q])
  BY <1>1, <1>2 DEF Become, Follows
<1>6. QED
  BY <1>1, <1>3, <1>4, <1>5, OneCallChanges

LEMMA CollectKeepsCalls ==
    ASSUME TypeInv, Calls, NEW p \in Tasks, Collect(p)
    PROVE  /\ Calls'
           /\ \A q \in Tasks : q # p => task'[q] = task[q]
           /\ task[p].pc = "done" /\ task'[p].pc = "idle"
<1> DEFINE u == Blank(AnItem, NoToken)
<1>1. Become(p, u) /\ task[p].pc = "done"
  BY DEF Collect
<1>2. task \in [Tasks -> Task]
  BY DEF TypeInv, Local, TasksOK
<1>3. u.pc = "idle" /\ Deletes(u) /\ Concerns(u) \subseteq Family(u.ref)
  BY BlankForm
<1> HIDE DEF u
<1>4. \A q \in Tasks : task'[q] = IF q = p THEN u ELSE task[q]
  BY <1>1, <1>2 DEF Become
<1>5. Calls'
  BY <1>1, <1>3, OneCallChanges
<1>6. QED
  BY <1>1, <1>3, <1>4, <1>5

-----------------------------------------------------------------------------
(* The steps.                                                              *)

Queues == QueueOnce /\ QueueAhead /\ SlotsApart /\ BetweenSweeps

SlotVars == <<phase, unlisted, waiting, strays, owner>>

\* A slot that is taken keeps its item while its call goes on.
LEMMA SlotsStill ==
    ASSUME SweepInv, UNCHANGED SlotVars,
           \A q \in Slots : /\ task'[q].ref = task[q].ref
                            /\ task[q].pc = "idle" => task'[q].pc = "idle"
    PROVE  Queues'
  BY DEF SweepInv, SlotVars, Queues, Queued, QueueOnce, QueueAhead, SlotsApart, BetweenSweeps

\* Steps that leave the calls alone, and end or start no enumeration.
LEMMA TasksAlone ==
    ASSUME SweepInv, UNCHANGED <<task, SlotVars>>
    PROVE  SweepInv'
<1>1. Queues'
  BY SlotsStill
<1>2. CallsAbout' /\ Deletes(task[Reaper])'
  BY DEF SweepInv, CallsAbout, Deletes
<1>3. QED
  BY <1>1, <1>2 DEF SweepInv, Queues, SlotVars

LEMMA ProceedKeeps ==
    ASSUME TypedSync, SweepInv, NEW p \in Tasks, UNCHANGED SlotVars,
           Run(p) \/ Serve(p) \/ Abort(p) \/ (p \notin Slots /\ Collect(p))
    PROVE  SweepInv'
<1>1. TypeInv /\ Calls /\ task[p] \in Task
  BY TaskFacts DEF TypedSync, SweepInv, Calls
<1>2. ASSUME OnItsWay(p), task[p].pc # "idle"
      PROVE  SweepInv'
  <2>1. /\ Calls'
        /\ \A q \in Tasks : task'[q].ref = task[q].ref /\ (q # p => task'[q] = task[q])
    BY <1>1, <1>2, WayKeepsCalls
  <2>2. Queues'
    BY <1>2, <2>1, SlotsStill, WorkersAssumption
  <2>3. QED
    BY <2>1, <2>2 DEF SweepInv, Queues, Calls, SlotVars
<1>3. CASE Run(p) \/ Serve(p)
  BY <1>1, <1>2, <1>3, RunFollows, ServeFollows
<1>4. CASE Abort(p)
  <2>1. task[p].pc # "idle"
    BY <1>4 DEF Abort, Await
  <2>2. OnItsWay(p)
    BY <1>1, <1>4, SharedFollow DEF Abort
  <2>3. QED
    BY <1>2, <2>1, <2>2
<1>5. CASE p \notin Slots /\ Collect(p)
  <2>1. Calls' /\ \A q \in Tasks : q # p => task'[q] = task[q]
    BY <1>1, <1>5, CollectKeepsCalls
  <2>2. Queues'
    BY <1>5, <2>1, SlotsStill, WorkersAssumption
  <2>3. QED
    BY <2>1, <2>2 DEF SweepInv, Queues, Calls, SlotVars
<1>6. QED
  BY <1>3, <1>4, <1>5

LEMMA ReapKeeps ==
    ASSUME TypedSync, SweepInv, NEW d \in DocIds, Reap(d)
    PROVE  SweepInv'
<1>1. /\ ReapOrphan(Reaper, docs[d].key, d) /\ UNCHANGED SlotVars
      /\ Reaper \in Tasks /\ Reaper \notin Slots /\ Slots \subseteq Tasks
      /\ TypeInv /\ Calls
  BY WorkersAssumption DEF Reap, SlotVars, TypedSync, SweepInv, Calls
<1>2. PICK u : Become(Reaper, u) /\ Concerns(u) \subseteq Family(u.ref) /\ Deletes(u)
  BY <1>1, ReapBegins
<1>3. Calls'
  BY <1>1, <1>2, OneCallChanges
<1>4. \A q \in Slots : task'[q] = task[q]
  BY <1>1, <1>2 DEF Become, TypeInv, Local, TasksOK
<1>5. Queues'
  BY <1>1, <1>4, SlotsStill
<1>6. QED
  BY <1>1, <1>3, <1>5 DEF SweepInv, Queues, Calls, SlotVars

LEMMA StartItemKeeps ==
    ASSUME TypedSync, SweepInv, NEW p \in Slots, StartItem(p)
    PROVE  SweepInv'
<1>1. TypeInv /\ Calls /\ p \in Tasks /\ Slots \subseteq Tasks /\ p # Reaper
  BY WorkersAssumption DEF TypedSync, SweepInv, Calls
<1>2. PICK r \in Queued :
         /\ PushRef(p, r.item, r.token)
         /\ waiting' \cup strays' \subseteq Queued \ {r}
         /\ waiting' \subseteq waiting /\ strays' \subseteq strays
         /\ \/ owner' = [owner EXCEPT ![p] = "sweep"] /\ phase = "sweeping"
            \/ owner' = [owner EXCEPT ![p] = "stray"] /\ phase = "idle"
         /\ UNCHANGED <<phase, unlisted>> /\ owner[p] = "none"
  BY DEF StartItem, SweepInv, BetweenSweeps, Queued, TypedSync, SweepOK
<1>3. r.item \in Items /\ r.token \in Tokens
  BY DEF TypedSync, RefsOK, Tokens, Queued
<1>4. PICK u : Become(p, u) /\ u.ref = r.item /\ Concerns(u) \subseteq Family(r.item)
  BY <1>1, <1>2, <1>3, PushBegins
<1>5. Calls'
  BY <1>1, <1>4, OneCallChanges
<1>6. \A q \in Slots : task'[q] = IF q = p THEN u ELSE task[q]
  BY <1>1, <1>4 DEF Become, TypeInv, Local, TasksOK
<1>7. /\ \A q \in Slots : q # p => owner'[q] = owner[q]
      /\ owner'[p] # "none"
      /\ owner'[p] = "sweep" => phase = "sweeping"
      /\ owner'[p] = "stray" => phase = "idle"
  BY <1>1, <1>2 DEF TypedSync, SweepOK
<1>8. r.item \in Primary \ unlisted /\ \A q \in Slots : owner[q] # "none" => task[q].ref # r.item
  BY DEF SweepInv, QueueAhead
<1>9. QueueOnce' /\ QueueAhead'
  <2>1. \A x \in Queued : x # r => x.item # r.item
    BY DEF SweepInv, QueueOnce
  <2>2. Queued' \subseteq Queued \ {r}
    BY <1>2 DEF Queued
  <2>3. QueueOnce'
    BY <2>2 DEF SweepInv, QueueOnce
  <2>4. QueueAhead'
    BY <1>2, <1>4, <1>6, <1>7, <2>1, <2>2 DEF SweepInv, QueueAhead
  <2>5. QED
    BY <2>3, <2>4
<1>10. SlotsApart'
  BY <1>2, <1>4, <1>6, <1>7, <1>8 DEF SweepInv, SlotsApart
<1>11. BetweenSweeps'
  BY <1>2, <1>7 DEF SweepInv, BetweenSweeps
<1>12. QED
  BY <1>5, <1>9, <1>10, <1>11 DEF SweepInv, Calls

LEMMA EndItemKeeps ==
    ASSUME TypedSync, SweepInv, NEW p \in Slots, EndItem(p)
    PROVE  SweepInv'
<1>1. TypeInv /\ Calls /\ p \in Tasks /\ Slots \subseteq Tasks
  BY WorkersAssumption DEF TypedSync, SweepInv, Calls
<1>2. /\ Collect(p) /\ owner' = [owner EXCEPT ![p] = "none"] /\ owner[p] # "none"
      /\ UNCHANGED <<phase, unlisted, waiting, strays>>
  BY DEF EndItem
<1>3. /\ Calls' /\ task'[p].pc = "idle"
      /\ \A q \in Tasks : q # p => task'[q] = task[q]
  BY <1>1, <1>2, CollectKeepsCalls
<1>4. \A q \in Slots : owner'[q] = IF q = p THEN "none" ELSE owner[q]
  BY <1>2 DEF TypedSync, SweepOK
<1>5. \A q \in Slots : q # p => task'[q] = task[q]
  BY <1>1, <1>3
<1>6. QueueOnce' /\ QueueAhead' /\ SlotsApart' /\ BetweenSweeps'
  BY <1>2, <1>3, <1>4, <1>5 DEF SweepInv, Queued, QueueOnce, QueueAhead, SlotsApart, BetweenSweeps
<1>7. QED
  BY <1>3, <1>6 DEF SweepInv, Calls

LEMMA EnumerateKeeps ==
    ASSUME TypedSync, SweepInv, NEW i \in Items, Enumerate(i)
    PROVE  SweepInv'
<1>1. /\ phase = "sweeping" /\ i \in unlisted /\ unlisted' = unlisted \ {i} /\ unlisted \subseteq Primary
      /\ UNCHANGED <<task, phase, strays, owner>>
  BY DEF Enumerate, vars, TypedSync, SweepOK
<1>2. \A x \in Queued' : x \in Queued \/ x = [item |-> i, token |-> version[i]]
  BY DEF Enumerate, Queued
<1>3. \A x \in Queued : x.item # i
  BY <1>1 DEF SweepInv, QueueAhead
<1>4. \A p \in Slots : owner[p] # "none" => task[p].ref # i
  BY <1>1 DEF SweepInv, SlotsApart
<1>5. QueueOnce'
  BY <1>2, <1>3 DEF SweepInv, QueueOnce
<1>6. \A x \in Queued' : /\ x.item \in Primary \ unlisted'
                         /\ \A p \in Slots : owner[p] # "none" => task[p].ref # x.item
  BY <1>1, <1>2, <1>3, <1>4 DEF SweepInv, QueueAhead
<1>7. QueueAhead' /\ SlotsApart'
  BY <1>1, <1>6 DEF SweepInv, QueueAhead, SlotsApart
<1>8. CallsAbout' /\ Deletes(task[Reaper])' /\ BetweenSweeps'
  BY <1>1 DEF SweepInv, CallsAbout, Deletes, BetweenSweeps
<1>9. QED
  BY <1>5, <1>7, <1>8 DEF SweepInv

\* Steps of the sweep that leave the calls and who they belong to alone.
LEMMA SameCalls ==
    ASSUME SweepInv, UNCHANGED <<task, owner>>, Queued' \subseteq Queued,
           \/ Primary \ unlisted \subseteq Primary \ unlisted'
           \/ Queued' = {} /\ \A p \in Slots : owner[p] = "none",
           BetweenSweeps'
    PROVE  SweepInv'
<1>1. CallsAbout' /\ Deletes(task[Reaper])'
  BY DEF SweepInv, CallsAbout, Deletes
<1>2. QueueOnce' /\ QueueAhead' /\ SlotsApart'
  BY DEF SweepInv, QueueOnce, QueueAhead, SlotsApart
<1>3. QED
  BY <1>1, <1>2 DEF SweepInv

\* The sweep's other steps: it begins, waits for what it started, and ends.
LEMMA PhasesKeep ==
    ASSUME TypedSync, SweepInv, StartSweep => StraysDone,
           \/ StartSweep \/ StartReaping \/ EndLibrary
           \/ \E l \in Libraries : ListLibrary(l) \/ SkipLibrary(l)
    PROVE  SweepInv'
<1>1. UNCHANGED <<task, waiting, strays, owner>>
  BY DEF StartSweep, ResetSweepCache, StartReaping, EndLibrary, ListLibrary, SkipLibrary, vars
<1>2. CASE StartSweep
  <2>1. /\ Queued = {} /\ \A p \in Slots : owner[p] = "none"
        /\ phase = "idle" /\ phase' = "sweeping"
    BY <1>2 DEF StartSweep, StraysDone, Running, Queued, SweepInv, BetweenSweeps, TypedSync, SweepOK
  <2>2. Queued' = {} /\ BetweenSweeps'
    BY <1>1, <2>1 DEF Queued, BetweenSweeps
  <2>3. QED
    BY <1>1, <2>1, <2>2, SameCalls
<1>3. CASE ~StartSweep
  <2>1. UNCHANGED unlisted
    BY <1>3 DEF StartReaping, EndLibrary, ListLibrary, SkipLibrary
  <2>2. /\ unlisted = {} /\ waiting = {} /\ \A p \in Slots : owner[p] # "sweep"
        /\ phase # "idle"
    <3>1. CASE StartReaping
      BY <3>1 DEF StartReaping, Running
    <3>2. CASE phase \in {"listing", "reaping"}
      BY <3>2 DEF SweepInv, BetweenSweeps
    <3>3. QED
      BY <1>3, <3>1, <3>2 DEF EndLibrary, ListLibrary, SkipLibrary
  <2>3. BetweenSweeps'
    BY <1>1, <2>1, <2>2 DEF SweepInv, BetweenSweeps
  <2>4. Queued' = Queued
    BY <1>1 DEF Queued
  <2>5. QED
    BY <1>1, <2>1, <2>3, <2>4, SameCalls
<1>4. QED
  BY <1>2, <1>3

\* The enumeration fails: what it started is left behind, and goes on.
LEMMA EnumerationFailsKeeps ==
    ASSUME TypedSync, SweepInv, EnumerationFails
    PROVE  SweepInv'
<1>1. /\ UNCHANGED task /\ phase = "sweeping" /\ phase' = "idle"
      /\ unlisted' = {} /\ waiting' = {} /\ strays' = strays \cup waiting
      /\ owner' = [p \in Slots |-> IF owner[p] = "sweep" THEN "stray" ELSE owner[p]]
  BY DEF EnumerationFails
<1>2. Queued' = Queued
  BY <1>1 DEF Queued
<1>3. /\ \A p \in Slots : owner'[p] # "sweep"
      /\ \A p \in Slots : owner'[p] = "none" <=> owner[p] = "none"
  BY <1>1
<1>4. QueueOnce' /\ QueueAhead' /\ SlotsApart'
  BY <1>1, <1>2, <1>3 DEF SweepInv, QueueOnce, QueueAhead, SlotsApart
<1>5. CallsAbout' /\ Deletes(task[Reaper])' /\ BetweenSweeps'
  BY <1>1, <1>3 DEF SweepInv, CallsAbout, Deletes, BetweenSweeps
<1>6. QED
  BY <1>4, <1>5 DEF SweepInv

\* A process that dies, or a sweep that is cancelled: all its calls are cut.
LEMMA CutKeeps ==
    ASSUME TypedSync, SweepInv, Restart \/ CancelSweep
    PROVE  SweepInv'
<1>1. /\ Reaper \in Tasks /\ Slots \subseteq Tasks
      /\ \A p \in Tasks : task'[p] = task[p] \/ task'[p] = Blank(AnItem, NoToken)
  BY WorkersAssumption DEF Restart, Crash, CancelSweep, Cut
<1>2. LET u == Blank(AnItem, NoToken)
      IN  u.pc = "idle" /\ Deletes(u) /\ Concerns(u) \subseteq Family(u.ref)
  BY BlankForm
<1>3. CallsAbout'
  BY <1>1, <1>2 DEF SweepInv, CallsAbout
<1>4. Deletes(task[Reaper])'
  BY <1>1, <1>2 DEF SweepInv, Deletes
<1>5. unlisted' = {} /\ waiting' = {} /\ strays' = {} /\ \A p \in Slots : owner'[p] = "none"
  BY DEF Restart, CancelSweep, SweepInv, BetweenSweeps, TypedSync, SweepOK
<1>6. \A p \in Slots : task'[p].pc = "idle"
  <2>1. CASE Restart
    BY <1>1, <1>2, <2>1 DEF Restart, Crash
  <2>2. CASE CancelSweep
    <3>1. \A p \in Slots : owner[p] = "none" \/ owner[p] = "sweep"
      BY <2>2 DEF CancelSweep, SweepInv, BetweenSweeps, TypedSync, SweepOK
    <3>2. \A p \in Slots : owner[p] = "sweep" => task'[p] = Blank(AnItem, NoToken)
      BY <1>1, <2>2 DEF CancelSweep, Cut, SweepCalls, Running
    <3>3. QED
      BY <1>1, <1>2, <3>1, <3>2 DEF SweepInv, SlotsApart
  <2>3. QED
    BY <2>1, <2>2
<1>7. QED
  BY <1>3, <1>4, <1>5, <1>6 DEF SweepInv, Queued, QueueOnce, QueueAhead, SlotsApart, BetweenSweeps

\* A sweep whose reaper fails.
LEMMA ReapingFailsKeeps ==
    ASSUME TypedSync, SweepInv, ReapingFails
    PROVE  SweepInv'
<1>1. /\ phase \in {"listing", "reaping"} /\ phase' = "idle"
      /\ UNCHANGED <<unlisted, waiting, strays, owner>>
  BY DEF ReapingFails
<1>2. BetweenSweeps' /\ Queued' = Queued
  BY <1>1 DEF SweepInv, BetweenSweeps, Queued
<1>3. CASE UNCHANGED task
  BY <1>1, <1>2, <1>3, SameCalls
<1>4. CASE Abort(Reaper)
  <2>1. TypeInv /\ Calls /\ Reaper \in Tasks /\ Reaper \notin Slots /\ Slots \subseteq Tasks
    BY WorkersAssumption DEF TypedSync, SweepInv, Calls
  <2>2. OnItsWay(Reaper)
    BY <1>4, <2>1, SharedFollow, TaskFacts DEF Abort
  <2>3. /\ Calls'
        /\ \A q \in Tasks : task'[q].ref = task[q].ref /\ (q # Reaper => task'[q] = task[q])
    BY <2>1, <2>2, WayKeepsCalls
  <2>4. \A q \in Slots : task'[q] = task[q]
    BY <2>1, <2>3
  <2>5. QueueOnce' /\ QueueAhead' /\ SlotsApart'
    BY <1>1, <1>2, <2>4 DEF SweepInv, QueueOnce, QueueAhead, SlotsApart
  <2>6. QED
    BY <1>2, <2>3, <2>5 DEF SweepInv, Calls
<1>5. QED
  BY <1>3, <1>4 DEF ReapingFails

LEMMA SweepStep ==
    ASSUME SweepConditions, TypedSync, SweepInv, Stepping
    PROVE  SweepInv'
<1>1. CASE Sweep
  BY <1>1, PhasesKeep, EnumerateKeeps, ReapKeeps, StartItemKeeps, EndItemKeeps
     DEF Sweep, SweepGoesOn, Stepping
<1>2. CASE SweepFails \/ Restart
  BY <1>2, EnumerationFailsKeeps, CutKeeps, ReapingFailsKeeps, PhasesKeep DEF SweepFails, Stepping
<1>3. ASSUME NEW p \in Tasks, Proceed(p) \/ (Abort(p) /\ UNCHANGED sweepVars)
      PROVE  SweepInv'
  <2>1. UNCHANGED SlotVars
    BY <1>3 DEF Proceed, sweepVars, SlotVars
  <2>2. QED
    BY <1>3, <2>1, ProceedKeeps DEF Proceed
<1>4. \A p \in Tasks : ~Hook(p)
  BY DEF Hook, SweepConditions
<1>5. CASE (Source \/ Service \/ Seeder) /\ UNCHANGED sweepVars
  <2>1. UNCHANGED <<task, SlotVars>>
    BY <1>5 DEF Source, Edit, Vanish, Reroute, Service, Remove, Settle, Misfire, Seeder, Seed,
       sweepVars, SlotVars
  <2>2. QED
    BY <2>1, TasksAlone
<1>6. CASE UNCHANGED allVars
  BY <1>6, TasksAlone DEF allVars, vars, sweepVars, SlotVars
<1>7. QED
  BY <1>1, <1>2, <1>3, <1>4, <1>5, <1>6 DEF SyncNext, Beside, Stepping

LEMMA SweepStart ==
    ASSUME SyncInit
    PROVE  SweepInv
<1>1. Reaper \in Tasks /\ Slots \subseteq Tasks
  BY WorkersAssumption
<1>2. \A p \in Tasks : task[p] = Blank(AnItem, NoToken)
  BY DEF SyncInit, Init
<1>3. \A p \in Tasks : /\ task[p].pc = "idle" /\ Deletes(task[p])
                       /\ Concerns(task[p]) \subseteq Family(task[p].ref)
  BY <1>2, BlankForm
<1>4. unlisted = {} /\ waiting = {} /\ strays = {} /\ \A p \in Slots : owner[p] = "none"
  BY DEF SyncInit
<1>5. QED
  BY <1>1, <1>3, <1>4 DEF SweepInv, CallsAbout, Queued, QueueOnce, QueueAhead, SlotsApart, BetweenSweeps

-----------------------------------------------------------------------------
(* What follows from it.                                                   *)

LEMMA CallsDiffer ==
    ASSUME SweepConditions, SweepInv
    PROVE  OneCallPerItem
<1> SUFFICES ASSUME NEW p \in Tasks, NEW q \in Tasks, Busy(task[p]), Busy(task[q]),
                    Concerns(task[p]) \cap Concerns(task[q]) # {}
             PROVE  p = q
  BY DEF OneCallPerItem
<1>1. \A t : Busy(t) => ~Deletes(t) /\ t.pc # "idle"
  BY DEF Busy, PushPC, Deletes
<1>2. p \in Slots /\ q \in Slots
  BY <1>1, WorkersAssumption DEF SweepInv, SweepConditions
<1>3. owner[p] # "none" /\ owner[q] # "none"
  BY <1>1, <1>2 DEF SweepInv, SlotsApart
<1>4. task[p].ref \in Primary /\ task[q].ref \in Primary
  BY <1>2, <1>3 DEF SweepInv, SlotsApart
<1>5. Family(task[p].ref) \cap Family(task[q].ref) # {}
  BY DEF SweepInv, CallsAbout
<1>6. task[p].ref = task[q].ref
  BY <1>4, <1>5 DEF SweepConditions
<1>7. QED
  BY <1>2, <1>3, <1>6 DEF SweepInv, SlotsApart

\* Two coroutines of sweeps never push one item at a time, strays included: a
\* sweep comes to an item once, and the next one begins when its coroutines, or
\* those an enumeration that failed left behind, have ended (sync.py: run_once;
\* that a sweep begins so late is the assumption of ApartSpec).
THEOREM OneAtATime ==
    ASSUME SweepConditions
    PROVE  ApartSpec => []OneCallPerItem
<1>1. SyncInit => TypedSync /\ SweepInv
  BY TypedInit, SweepStart
<1>2. TypedSync /\ SweepInv /\ [ApartNext]_allVars => (TypedSync /\ SweepInv)'
  <2> SUFFICES ASSUME TypedSync, SweepInv, [ApartNext]_allVars
               PROVE  (TypedSync /\ SweepInv)'
    OBVIOUS
  <2>1. Stepping
    BY ApartSteps DEF TypedSync
  <2>2. QED
    BY <2>1, TypedStep, SweepStep DEF Stepping
<1>3. SweepInv => OneCallPerItem
  BY CallsDiffer
<1>4. QED
  BY <1>1, <1>2, <1>3, PTL DEF ApartSpec

\* Sweeps alone keep a mirror: with no webhook beside them, and sweeps that keep
\* apart, SyncManager implements Mirror, its rows are fresh and what it defers it
\* retries, whichever enumerations fail, sweeps are cancelled and processes die.
THEOREM SweepsMirror ==
    ASSUME MirrorConditions, SweepConditions
    PROVE  ApartSpec => ImplementsMirror /\ []FreshCursor /\ []DeferredIsRetried
<1>1. ApartSpec => []OneCallPerItem
  BY OneAtATime
<1>2. SyncSpec /\ []OneCallPerItem => ImplementsMirror
  BY MirrorImplemented
<1>3. SyncSpec /\ []OneCallPerItem => []FreshCursor
  BY FreshRows
<1>4. SyncSpec /\ []OneCallPerItem => []DeferredIsRetried
  BY DeferralIsKept
<1>5. QED
  BY <1>1, <1>2, <1>3, <1>4, ApartIsSync, PTL

-----------------------------------------------------------------------------
(* What calls report.                                                      *)

Asserts == {"noop_unchanged", "created", "replaced"}

\* What the call is to push is not in the sweep cache, so it will be pushed.
Uncached(P, t) ==
    /\ t.pc \in {"fetch", "item"} /\ IsPrimary(t) => P[<<Home, t.ref>>] = NotPushed
    /\ t.pc \in {"find", "create", "revise", "poll"} => P[<<Home, Subject(t)>>] = NotPushed

\* The item comes first, at the reference's token; what was said of it stays so.
Truthful(D, t) ==
    /\ t.pc # "idle" /\ t.action \in Asserts => AtLeastOf(D, t.ref, t.token)
    /\ t.pc \in PushPC /\ IsPrimary(t) =>
          /\ t.action \notin Asserts
          /\ t.todo # <<>> => Head(t.todo).token = t.token

Honest(D, P, t) == Uncached(P, t) /\ Truthful(D, t)

\* The reaper's calls report nothing of the kind.
Silent(t) == t.pc # "idle" => t.action \notin Asserts

\* The cache has nothing of an item the sweep has still to come to, or to push.
Unpushed(i) == \A j \in Family(i) : pushed[<<Home, j>>] = NotPushed
Ahead == \A i \in Primary : i \in unlisted \/ (\E x \in Queued : x.item = i) => Unpushed(i)

Honesty  == \A p \in Tasks : Honest(docs, pushed, task[p])
TruthInv == Honesty /\ Silent(task[Reaper]) /\ Ahead

-----------------------------------------------------------------------------
(* Documents keep what is said of them.                                    *)

LEMMA CopiesGoOn ==
    ASSUME MirrorConditions, Mirroring, MirrorSteps,
           NEW i \in Items, NEW v \in Tokens, AtLeastOf(docs, i, v)
    PROVE  \/ AtLeastOf(docs', i, v)
           \/ \E p \in Tasks : ServeCreate(p) /\ Subject(task[p]) = i
<1>1. CASE UNCHANGED docs
  BY <1>1 DEF AtLeastOf, ActiveOf
<1>2. ASSUME NEW p \in Tasks, ServeCreate(p), Subject(task[p]) # i
      PROVE  AtLeastOf(docs', i, v)
  <2> DEFINE j == Subject(task[p])
  <2>1. CASE \E l, c, d : AddDocument(l, j, c, d)
    <3>1. PICK l, c, d : AddDocument(l, j, c, d)
      BY <2>1
    <3>2. d \in DocIds /\ docs' = [docs EXCEPT ![d] = [state |-> "active", lib |-> l, key |-> j, content |-> c]]
      <4>1. d \in Free
        BY <3>1 DEF AddDocument
      <4>2. QED
        BY <3>1, <4>1 DEF AddDocument, Free
    <3>3. docs \in [DocIds -> Document]
      BY DocFacts DEF Mirroring
    <3>4. \A e \in ActiveOf(docs', i) : e \in ActiveOf(docs, i) /\ docs'[e] = docs[e]
      <4>1. \A e \in DocIds : e # d => docs'[e] = docs[e]
        BY <3>2, <3>3
      <4>2. docs'[d].key = j
        BY <3>2, <3>3
      <4>3. QED
        BY <1>2, <4>1, <4>2 DEF ActiveOf
    <3>5. QED
      BY <3>4 DEF AtLeastOf
  <2>2. CASE UNCHANGED docs
    BY <1>1, <2>2
  <2>3. QED
    BY <1>2, <2>1, <2>2 DEF ServeCreate, RefuseDuplicate
<1>3. CASE Service
  <2>1. ASSUME NEW d \in DocIds, NEW k \in OpKeys, Settle(d, k)
        PROVE  AtLeastOf(docs', i, v)
    <3>1. Apply(d, k) /\ UNCHANGED <<version, live>>
      BY <2>1 DEF Settle, srcVars
    <3>2. DocCalm(i)
      BY <3>1, ApplyDeletion, ApplyRevision DEF Mirroring, OpKeys
    <3>3. QED
      BY <3>2 DEF DocCalm
  <2>2. ASSUME NEW d \in DocIds, NEW k \in OpKeys, Misfire(d, k)
        PROVE  UNCHANGED docs
    BY <2>2 DEF Misfire, Abandon
  <2>3. \A d : ~Remove(d)
    BY DEF Remove, MirrorConditions
  <2>4. QED
    BY <1>1, <1>3, <2>1, <2>2, <2>3 DEF Service
<1>4. ASSUME NEW p \in Tasks, Serve(p), ~ServeCreate(p)
      PROVE  UNCHANGED docs
  BY <1>4 DEF Serve, ServeFind, ServeFetch, ServeRevise, ServeDelete, ragVars,
     RefuseGone, RefuseBusy, Dedupe, Admit
<1>5. ASSUME NEW p \in Tasks,
             \/ \E j \in Primary, tok \in Versions : PushRef(p, j, tok)
             \/ \E j \in Items : DeleteByRef(p, j) \/ \E d \in DocIds : ReapOrphan(p, j, d)
      PROVE  UNCHANGED docs
  BY <1>5 DEF PushRef, DeleteByRef, ReapOrphan, Starts, ragVars
<1>6. ASSUME NEW p \in Tasks, Run(p)
      PROVE  UNCHANGED docs
  BY <1>6 DEF Run, ResumeLookup, ResumeFetch, PushItem, ResumeFind, ResumeCreate, ResumeRevise, Poll,
     PollTimeout, ResumeDeleteLookup, ResumeDelete, DeletePoll, Resumes, ragVars
<1>7. ASSUME NEW p \in Tasks, Abort(p) \/ Collect(p)
      PROVE  UNCHANGED docs
  BY <1>7 DEF Abort, Collect, ragVars
<1>8. CASE Source \/ Seeder \/ Crash \/ ResetSweepCache \/ Aside
  BY <1>8 DEF Source, Edit, Vanish, Reroute, Seeder, Seed, Crash, ResetSweepCache, Aside, ragVars
<1>9. QED
  BY <1>1, <1>2, <1>3, <1>4, <1>5, <1>6, <1>7, <1>8 DEF MirrorSteps

-----------------------------------------------------------------------------
(* What a call becomes.                                                    *)

\* What ends with nothing asserted is honest.
LEMMA EndHonest ==
    ASSUME NEW D, NEW P, NEW t, NEW a, NEW b,
           a \in Asserts => AtLeastOf(D, t.ref, t.token)
    PROVE  Honest(D, P, Outcome(t, a, b))
<1> DEFINE u == Outcome(t, a, b)
<1>1. u.pc = "done" /\ u.action = a /\ u.ref = t.ref /\ u.token = t.token
  BY DEF Outcome, Blank
<1> HIDE DEF u
<1>2. Honest(D, P, u)
  BY <1>1 DEF Honest, Uncached, Truthful, PushPC
<1>3. QED
  BY <1>2 DEF u

\* The fields a request leaves as they are.
LEMMA AskFields ==
    ASSUME NEW t \in Task, NEW pc, NEW d
    PROVE  LET u == Ask(t, pc, d)
           IN  /\ u.pc = pc /\ u.ref = t.ref /\ u.token = t.token /\ u.lib = t.lib
               /\ u.todo = t.todo /\ u.action = t.action /\ u.deferred = t.deferred
               /\ u.home = t.home
  BY DEF Ask, Task

\* On to a dependent, or done.
LEMMA NextHonest ==
    ASSUME NEW D, NEW P, NEW t \in Task, t.todo # <<>>, t.ref \in Primary,
           \A k \in 2 .. Len(t.todo) : t.todo[k].item \notin Primary, NEW a,
           LET main == IF IsPrimary(t) THEN a ELSE t.action
           IN  main \in Asserts => AtLeastOf(D, t.ref, t.token)
    PROVE  Honest(D, P, NextItem(t, a))
<1> DEFINE rest == Tail(t.todo)
           main == IF IsPrimary(t) THEN a ELSE t.action
           l == DependentLibrary(t, Head(rest).item)
           n == NextItem(t, a)
<1>1. CASE rest = <<>>
  BY <1>1, EndHonest DEF NextItem
<1>2. CASE rest # <<>>
  <2>1. n = [Ask(t, "item", NoDoc) EXCEPT !.todo = rest, !.lib = l, !.action = main]
    BY <1>2 DEF NextItem
  <2>2. Head(rest) = t.todo[2] /\ 2 \in 2 .. Len(t.todo)
    <3>1. t.todo \in Seq(SourceItem)
      BY DEF Task
    <3>2. /\ rest \in Seq(SourceItem) /\ Len(t.todo) \in Nat /\ Len(rest) = Len(t.todo) - 1
          /\ \A k \in 1 .. Len(rest) : rest[k] = t.todo[k + 1]
      BY <3>1, HeadTailProperties, LenProperties
    <3> HIDE DEF rest
    <3>3. Head(rest) = rest[1] /\ 1 \in 1 .. Len(rest)
      BY <1>2, <3>2, HeadTailProperties, EmptySeq, LenProperties
    <3>4. QED
      BY <3>2, <3>3
  <2> HIDE DEF l, main, rest, n
  <2>3. n.pc = "item" /\ n.ref = t.ref /\ n.token = t.token /\ n.todo = rest /\ n.action = main
    BY <2>1 DEF Ask, Task
  <2>4. ~IsPrimary(n)
    BY <1>2, <2>2, <2>3 DEF Subject, IsPrimary
  <2>5. main \in Asserts => AtLeastOf(D, t.ref, t.token)
    BY DEF main
  <2>6. Honest(D, P, n)
    BY <2>3, <2>4, <2>5 DEF Honest, Uncached, Truthful
  <2>7. QED
    BY <2>6 DEF n
<1>3. QED
  BY <1>1, <1>2

\* A call that goes on with the same item.
LEMMA SameHonest ==
    ASSUME NEW D, NEW P, NEW t, NEW u, Honest(D, P, t), t.pc \in PushPC \ {"lookup"},
           u.ref = t.ref, u.token = t.token, u.todo = t.todo, u.action = t.action,
           u.pc \in PushPC,
           \/ u.pc = t.pc
           \/ u.pc = "item" /\ t.pc = "fetch"
           \/ u.pc \in {"find", "create", "revise", "poll"} /\
                 (t.pc \in {"find", "create", "revise", "poll"} \/ P[<<Home, Subject(t)>>] = NotPushed)
    PROVE  Honest(D, P, u)
<1>1. Subject(u) = Subject(t) /\ IsPrimary(u) = IsPrimary(t)
  BY DEF Subject, IsPrimary
<1>2. QED
  BY <1>1 DEF Honest, Uncached, Truthful, PushPC

-----------------------------------------------------------------------------
(* Calls keep apart.                                                       *)

\* A call that is under way, and not the reaper's, is a sweep's.
LEMMA SweepsOwn ==
    ASSUME SweepConditions, SweepInv, NEW p \in Tasks, p # Reaper, task[p].pc # "idle"
    PROVE  p \in Slots /\ owner[p] # "none" /\ task[p].ref \in Primary \ unlisted
<1>1. p \in Slots
  BY WorkersAssumption DEF SweepConditions
<1>2. QED
  BY <1>1 DEF SweepInv, SlotsApart

\* Two calls are about families that have nothing in common.
LEMMA CallsApart ==
    ASSUME SweepConditions, SweepInv, NEW p \in Tasks, p # Reaper, task[p].pc # "idle",
           NEW q \in Tasks, q # Reaper, task[q].pc # "idle",
           Family(task[p].ref) \cap Family(task[q].ref) # {}
    PROVE  p = q
<1>1. /\ p \in Slots /\ owner[p] # "none" /\ task[p].ref \in Primary
      /\ q \in Slots /\ owner[q] # "none" /\ task[q].ref \in Primary
  BY SweepsOwn
<1>2. task[p].ref = task[q].ref
  BY <1>1 DEF SweepConditions
<1>3. QED
  BY <1>1, <1>2 DEF SweepInv, SlotsApart

\* What a call pushes is of the call's family, and of no item to come.
LEMMA Pushers ==
    ASSUME SweepConditions, SweepInv, NEW p \in Tasks, task[p].pc \in PushPC
    PROVE  /\ p # Reaper /\ task[p].pc # "idle"
           /\ Concerns(task[p]) \subseteq Family(task[p].ref)
           /\ \A i \in Primary : i \in unlisted \/ (\E x \in Queued : x.item = i)
                 => Family(task[p].ref) \cap Family(i) = {}
<1>1. p # Reaper /\ task[p].pc # "idle"
  BY DEF SweepInv, Deletes, PushPC
<1>2. p \in Slots /\ owner[p] # "none" /\ task[p].ref \in Primary \ unlisted
  BY <1>1, SweepsOwn
<1>3. \A x \in Queued : x.item # task[p].ref
  BY <1>2 DEF SweepInv, QueueAhead
<1>4. QED
  BY <1>1, <1>2, <1>3 DEF SweepInv, CallsAbout, SweepConditions

\* What was said of an item stays so while the call that says it goes on.
LEMMA TruthStays ==
    ASSUME MirrorConditions, SweepConditions, Mirroring, SweepInv, Honesty, Silent(task[Reaper]),
           MirrorSteps, NEW p \in Tasks, task[p].pc # "idle", task[p].action \in Asserts
    PROVE  AtLeastOf(docs', task[p].ref, task[p].token)
<1> DEFINE t == task[p]
<1>1. AtLeastOf(docs, t.ref, t.token)
  BY DEF Honesty, Honest, Truthful
<1>2. p # Reaper /\ t.ref \in Items /\ t.token \in Tokens
  BY TaskFacts DEF Silent, Mirroring, Base, TypedSync
<1>3. ASSUME NEW q \in Tasks, ServeCreate(q), Subject(task[q]) = t.ref
      PROVE  FALSE
  <2>1. task[q].pc \in PushPC /\ task[q].todo # <<>>
    BY <1>3, TaskFacts DEF ServeCreate, Waits, PushPC, Pushing, Mirroring, Base, TypedSync
  <2>2. Subject(task[q]) \in Concerns(task[q])
    BY <2>1, PushFacts
  <2>3. q # Reaper /\ task[q].pc # "idle" /\ t.ref \in Family(task[q].ref)
    BY <1>3, <2>1, <2>2, Pushers
  <2>4. t.ref \in Family(t.ref)
    BY DEF Family
  <2>5. p = q
    BY <1>2, <2>3, <2>4, CallsApart
  <2>6. QED
    BY <1>3, <2>1, <2>5 DEF IsPrimary, Honesty, Honest, Truthful
<1>4. QED
  BY <1>1, <1>2, <1>3, CopiesGoOn

-----------------------------------------------------------------------------
(* The steps of a call.                                                    *)

RowAside(i) == \A j \in Items : j # i => cursor'[j] = cursor[j]

\* What a call that pushes may do.
Pushes(p) ==
    LET t == task[p]
        i == Subject(t)
    IN  \/ Defer(p)
        \/ t.todo # <<>> /\ \E d \in DocIds : \E a : Handled(p, d, a)
        \/ /\ UNCHANGED <<cursor, pushed>>
           /\ \E a : a \notin Asserts /\ Become(p, Outcome(t, a, FALSE))
        \/ /\ UNCHANGED <<cursor, pushed>>
           /\ t.todo # <<>> /\ t.pc = "item" /\ pushed[<<Home, i>>] # NotPushed
           /\ Become(p, NextItem(t, "noop_unchanged"))
        \/ /\ UNCHANGED pushed /\ RowAside(i)
           /\ t.todo # <<>> /\ pushed[<<Home, i>>] = NotPushed
           /\ \/ \E pc \in {"find", "create", "revise", "poll"} : \E d : Become(p, Ask(t, pc, d))
              \/ Policy[i].on_new = "skip" /\ Become(p, NextItem(t, "skipped_new"))
        \/ /\ UNCHANGED <<cursor, pushed>>
           /\ t.pc = "fetch" /\ t.todo # <<>>
           /\ \E row : Become(p, [Ask(t, "item", NoDoc) EXCEPT !.before = row])

LEMMA PushForms ==
    ASSUME MirrorConditions, Mirroring, Honesty, NEW p \in Tasks, task[p].pc \in PushPC, Run(p)
    PROVE  Pushes(p)
<1> DEFINE t == task[p]
           i == Subject(t)
<1>1. /\ t \in Task /\ i \in Items /\ t.lib = Home /\ t.pc # "lookup"
      /\ Policy[i].on_changed = "replace" /\ Uncached(pushed, t)
      /\ t.pc \in {"item", "find", "create", "revise", "poll"} => t.todo # <<>>
      /\ t.pc = "fetch" /\ t.answer = "fetched" => t.todo # <<>>
      /\ Placed(cursor, docs, t) /\ cursor \in [Items -> Row \cup {NoRow}]
  BY PushFacts, DocFacts DEF MirrorConditions, Honesty, Honest, WellFormed, Mirroring
<1>2. /\ ~ResumeLookup(p) /\ ~ResumeDeleteLookup(p) /\ ~ResumeDelete(p) /\ ~DeletePoll(p)
  BY <1>1 DEF ResumeLookup, ResumeDeleteLookup, ResumeDelete, DeletePoll, Resumes, PushPC
<1>3. CASE ResumeFetch(p)
  BY <1>1, <1>3 DEF ResumeFetch, Resumes, Pushes, Asserts
<1>4. CASE PushItem(p)
  <2>1. t.pc = "item" /\ t.todo # <<>>
    BY <1>1, <1>4 DEF PushItem, Resumes
  <2>2. QED
    BY <1>1, <1>4, <2>1 DEF PushItem, PushChanged, Pushes, RowAside
<1>5. ASSUME t.pc \in {"find", "create", "revise", "poll"}, Become(p, StartCreate(t)),
             UNCHANGED pushed, RowAside(i)
      PROVE  Pushes(p)
  <2>1. pushed[<<Home, i>>] = NotPushed /\ t.todo # <<>>
    BY <1>1, <1>5 DEF Uncached
  <2>2. QED
    BY <1>5, <2>1 DEF StartCreate, Pushes
<1>6. CASE ResumeFind(p)
  <2>1. t.pc = "find" /\ pushed[<<Home, i>>] = NotPushed /\ t.todo # <<>>
    BY <1>1, <1>6 DEF ResumeFind, Resumes, Uncached
  <2>2. CASE Become(p, StartCreate(t)) /\ UNCHANGED <<cursor, pushed>>
    BY <1>5, <2>1, <2>2 DEF RowAside
  <2>3. CASE Backfill(i, t.got, t.lib) /\ Become(p, Ask(t, "revise", t.got)) /\ UNCHANGED pushed
    <3>1. RowAside(i)
      BY <1>1, <2>3 DEF Backfill, RowAside
    <3>2. QED
      BY <2>1, <2>3, <3>1 DEF Pushes
  <2>4. QED
    BY <1>1, <1>6, <2>2, <2>3 DEF ResumeFind
<1>7. CASE ResumeCreate(p)
  <2>1. t.pc = "create" /\ t.todo # <<>> /\ t.got \in DocIds \cup {NoDoc} /\ t.answer = "created"
        /\ t.got # NoDoc
    BY <1>1, <1>7 DEF ResumeCreate, Resumes, Placed, Task
  <2>2. QED
    BY <1>7, <2>1 DEF ResumeCreate, Resumes, Pushes
<1>8. CASE ResumeRevise(p)
  <2>1. t.pc = "revise" /\ pushed[<<Home, i>>] = NotPushed /\ t.todo # <<>>
    BY <1>1, <1>8 DEF ResumeRevise, Resumes, Uncached
  <2>2. CASE Delete(i) /\ Become(p, StartCreate(t)) /\ UNCHANGED pushed
    <3>1. RowAside(i)
      BY <1>1, <2>2 DEF Delete, RowAside
    <3>2. QED
      BY <1>5, <2>1, <2>2, <3>1
  <2>3. CASE Become(p, Ask(t, "poll", t.doc)) /\ UNCHANGED <<cursor, pushed>>
    BY <2>1, <2>3 DEF Pushes, RowAside
  <2>4. QED
    BY <1>8, <2>2, <2>3 DEF ResumeRevise, Pushes
<1>9. CASE Poll(p) \/ PollTimeout(p)
  <2>1. t.pc = "poll" /\ t.todo # <<>> /\ t.doc \in DocIds
    BY <1>1, <1>9 DEF Poll, PollTimeout, Resumes, Placed, Task
  <2>2. QED
    BY <1>9, <2>1 DEF Poll, PollTimeout, Raise, Pushes, Asserts
<1>10. QED
  BY <1>2, <1>3, <1>4, <1>6, <1>7, <1>8, <1>9 DEF Run

\* Only the item being pushed comes into the cache.
LEMMA CacheAside ==
    ASSUME Mirroring, NEW p \in Tasks, task[p].pc \in PushPC, Pushes(p)
    PROVE  \A j \in Items : j # Subject(task[p]) => pushed'[<<Home, j>>] = pushed[<<Home, j>>]
<1> DEFINE i == Subject(task[p])
<1>1. task[p].lib = Home
  BY PushFacts
<1>2. PushedOK
  BY DEF Mirroring, Base, TypedSync, TypeInv, Local
<1>3. \A d : Remember(p, d) => \A j \in Items : j # i => pushed'[<<Home, j>>] = pushed[<<Home, j>>]
  <2>1. ASSUME NEW d, Remember(p, d), NEW j \in Items, j # i
        PROVE  pushed'[<<Home, j>>] = pushed[<<Home, j>>]
    <3>1. pushed' = [pushed EXCEPT ![<<Home, i>>] = d]
      BY <1>1, <2>1 DEF Remember
    <3>2. <<Home, j>> # <<Home, i>>
      BY <2>1
    <3>3. <<Home, j>> \in Libraries \X Items
      BY <1>1, <2>1, PushFacts, TaskFacts DEF WellFormed, PushPC, Mirroring, Base, TypedSync
    <3> HIDE DEF i
    <3>4. QED
      BY <1>2, <3>1, <3>2, <3>3 DEF PushedOK
  <2>2. QED
    BY <2>1
<1>4. QED
  BY <1>3 DEF Pushes, Defer, Handled

\* The item comes first, under the reference's token, and every dependent after it.
LEMMA FetchedWhole ==
    ASSUME NEW t, t.ref \in Items
    PROVE  /\ Fetched(t) # <<>> /\ Head(Fetched(t)).item = t.ref /\ Head(Fetched(t)).token = t.token
           /\ \A k \in 1 .. Len(Dependents[t.ref]) :
                 \E m \in 1 .. Len(Fetched(t)) : Fetched(t)[m].item = Dependents[t.ref][k]
<1> DEFINE first == [item |-> t.ref, token |-> t.token, payload |-> Current(t.ref)]
           deps == Dependents[t.ref]
           dep(k) == [item |-> deps[k], token |-> version[deps[k]],
                      payload |-> Current(deps[k])]
           rest == [k \in 1 .. Len(deps) |-> dep(k)]
           S == {first} \cup {dep(k) : k \in 1 .. Len(deps)}
<1>1. Len(deps) \in Nat
  BY DependentsAssumption, LenProperties
<1>2. first.item = t.ref /\ first.token = t.token /\ \A k : dep(k).item = deps[k]
  OBVIOUS
<1>3. Fetched(t) = <<first>> \o rest
  BY DEF Fetched
<1> HIDE DEF first, dep
<1>4. <<first>> \in Seq(S) /\ rest \in Seq(S) /\ Len(<<first>>) = 1 /\ <<first>>[1] = first
      /\ Len(rest) = Len(deps) /\ \A k \in 1 .. Len(deps) : rest[k] = dep(k)
  BY <1>1
<1> HIDE DEF rest, S
<1> DEFINE all == <<first>> \o rest
<1>5. /\ all \in Seq(S) /\ Len(all) = 1 + Len(rest)
      /\ \A m \in 1 .. Len(all) : all[m] = IF m <= 1 THEN first ELSE rest[m - 1]
  BY <1>4, ConcatProperties
<1> HIDE DEF all
<1>6. /\ 1 \in 1 .. Len(all) /\ all[1] = first
      /\ \A k \in 1 .. Len(deps) : k + 1 \in 1 .. Len(all) /\ all[k + 1] = dep(k)
  <2>1. Len(all) = 1 + Len(deps)
    BY <1>4, <1>5
  <2>2. 1 \in 1 .. Len(all) /\ 1 <= 1
    BY <1>1, <2>1
  <2>3. all[1] = first
    BY <1>5, <2>2
  <2>4. ASSUME NEW k \in 1 .. Len(deps)
        PROVE  k + 1 \in 1 .. Len(all) /\ all[k + 1] = dep(k)
    <3>1. k + 1 \in 1 .. Len(all) /\ ~(k + 1 <= 1) /\ (k + 1) - 1 = k
      BY <1>1, <2>1
    <3>2. all[k + 1] = rest[k]
      BY <1>5, <3>1
    <3>3. rest[k] = dep(k)
      BY <1>4
    <3>4. QED
      BY <3>1, <3>2, <3>3
  <2>5. QED
    BY <2>2, <2>3, <2>4
<1>7. all # <<>> /\ Head(all) = first
  <2>1. all # <<>>
    BY <1>6
  <2>2. QED
    BY <1>5, <1>6, <2>1, HeadTailProperties
<1>8. \A k \in 1 .. Len(deps) : \E m \in 1 .. Len(all) : all[m].item = deps[k]
  BY <1>2, <1>6
<1>9. Fetched(t) = all
  BY <1>3 DEF all
<1> HIDE DEF deps
<1>10. QED
  BY <1>2, <1>7, <1>8, <1>9 DEF deps

-----------------------------------------------------------------------------
(* A call's own steps are honest.                                          *)

Trust == MirrorInv /\ SweepInv /\ TruthInv

LEMMA PushHonest ==
    ASSUME MirrorConditions, SweepConditions, Trust, MirrorInv', NEW p \in Tasks,
           task[p].pc \in PushPC, Run(p)
    PROVE  Honest(docs', pushed', task'[p])
<1> DEFINE t == task[p]
           i == Subject(t)
           u == task'[p]
<1>1. /\ t \in Task /\ t.ref \in Primary /\ i \in Items /\ t.lib = Home /\ t.pc # "lookup"
      /\ t.pc \in PushPC \ {"lookup"} /\ t.pc # "idle"
      /\ Honest(docs, pushed, t)
      /\ \A k \in 2 .. Len(t.todo) : t.todo[k].item \notin Primary
      /\ task \in [Tasks -> Task] /\ cursor \in [Items -> Row \cup {NoRow}]
  <2>1. Mirroring /\ TypeInv /\ Honesty
    BY DEF Trust, MirrorInv, TruthInv, Mirroring, Base, TypedSync
  <2>2. t \in Task /\ t.ref \in Primary /\ i \in Items /\ t.lib = Home /\ t.pc # "lookup"
    BY <2>1, PushFacts
  <2>3. Honest(docs, pushed, t)
    BY <2>1 DEF Honesty
  <2>4. \A k \in 2 .. Len(t.todo) : t.todo[k].item \notin Primary
    BY <2>1, PushFacts DEF Pushable, Carries
  <2>5. task \in [Tasks -> Task]
    BY <2>1, TaskFacts DEF TasksOK
  <2>6. cursor \in [Items -> Row \cup {NoRow}]
    BY <2>1, DocFacts DEF Mirroring
  <2>7. QED
    BY <2>2, <2>3, <2>4, <2>5, <2>6 DEF PushPC
<1>2. MirrorSteps
  BY DEF MirrorSteps
<1>3. t.action \in Asserts => AtLeastOf(docs', t.ref, t.token)
  BY <1>1, <1>2, TruthStays DEF Trust, MirrorInv, TruthInv
<1>4. Pushes(p)
  BY PushForms DEF Trust, MirrorInv, TruthInv
<1>5. \A v : Become(p, v) => u = v
  BY <1>1 DEF Become
<1>6. IsPrimary(t) => t.action \notin Asserts /\ (t.todo # <<>> => Head(t.todo).token = t.token)
  BY <1>1 DEF Honest, Truthful
<1>7. ASSUME NEW a, NEW b, Become(p, Outcome(t, a, b)), a \in Asserts => a = t.action
      PROVE  Honest(docs', pushed', u)
  <2>1. a \in Asserts => AtLeastOf(docs', t.ref, t.token)
    BY <1>3, <1>7
  <2>2. Honest(docs', pushed', Outcome(t, a, b))
    BY <2>1, EndHonest
  <2>3. QED
    BY <1>5, <1>7, <2>2
<1>8. ASSUME NEW a, Become(p, NextItem(t, a)), t.todo # <<>>,
             IsPrimary(t) /\ a \in Asserts => AtLeastOf(docs', t.ref, t.token)
      PROVE  Honest(docs', pushed', u)
  <2>1. LET main == IF IsPrimary(t) THEN a ELSE t.action
        IN  main \in Asserts => AtLeastOf(docs', t.ref, t.token)
    BY <1>3, <1>8
  <2>2. Honest(docs', pushed', NextItem(t, a))
    BY <1>1, <1>8, <2>1, NextHonest
  <2>3. QED
    BY <1>5, <1>8, <2>2
<1>9. UNCHANGED pushed => Honest(docs', pushed', t)
  BY <1>1, <1>3 DEF Honest, Truthful, Uncached
<1>10. CASE Defer(p)
  BY <1>7, <1>10 DEF Defer, Asserts
<1>11. ASSUME t.todo # <<>>, NEW d \in DocIds, NEW a, Handled(p, d, a)
       PROVE  Honest(docs', pushed', u)
  <2>1. ASSUME IsPrimary(t)
        PROVE  AtLeastOf(docs', t.ref, t.token)
    <3>1. i = t.ref /\ Head(t.todo).token = t.token
      BY <1>6, <1>11, <2>1 DEF IsPrimary
    <3> DEFINE row == [token |-> t.token, doc |-> KeptDoc(i, d), lib |-> t.lib]
    <3>2. cursor' = [cursor EXCEPT ![i] = row]
      BY <1>11, <3>1 DEF Handled, Upsert
    <3>3. row.token = t.token
      OBVIOUS
    <3> HIDE DEF row, i
    <3>4. cursor'[t.ref] = row
      BY <1>1, <3>1, <3>2
    <3>5. row # NoRow
      <4>1. cursor' \in [Items -> Row \cup {NoRow}] /\ row \in Row
        <5>1. KeptDoc(i, d) \in DocIds \cup {NoDoc}
          BY <1>1 DEF KeptDoc, Has, Row
        <5>2. t.lib \in Libraries /\ t.token \in Tokens
          BY <1>1, HomeFacts DEF MirrorConditions, Task
        <5>3. QED
          BY <5>1, <5>2, <1>1, <3>2 DEF row, Row
      <4>2. QED
        BY <4>1, RowAssumption
    <3>6. GoodRow(docs', version', t.ref, row)
      BY <1>1, <3>1, <3>4, <3>5 DEF MirrorInv, Mirroring, RowInv, Has
    <3>7. QED
      BY <3>3, <3>6 DEF GoodRow
  <2>2. QED
    BY <1>8, <1>11, <2>1 DEF Handled
<1>12. CASE t.pc = "item" /\ pushed[<<Home, i>>] # NotPushed /\ t.todo # <<>>
            /\ Become(p, NextItem(t, "noop_unchanged"))
  <2>1. ~IsPrimary(t)
    BY <1>1, <1>12 DEF Honest, Uncached, IsPrimary
  <2>2. QED
    BY <1>8, <1>12, <2>1
<1>13. ASSUME UNCHANGED pushed, pushed[<<Home, i>>] = NotPushed,
              NEW pc \in {"find", "create", "revise", "poll"}, NEW d, Become(p, Ask(t, pc, d))
       PROVE  Honest(docs', pushed', u)
  <2> DEFINE n == Ask(t, pc, d)
  <2>1. n.pc = pc /\ n.ref = t.ref /\ n.token = t.token /\ n.todo = t.todo /\ n.action = t.action
    BY <1>1, AskFields
  <2>2. pc \in PushPC
    BY DEF PushPC
  <2> HIDE DEF n
  <2>3. Honest(docs', pushed', n)
    BY <1>1, <1>9, <1>13, <2>1, <2>2, SameHonest
  <2>4. QED
    BY <1>5, <1>13, <2>3 DEF n
<1>14. ASSUME UNCHANGED pushed, t.pc = "fetch", NEW row,
              Become(p, [Ask(t, "item", NoDoc) EXCEPT !.before = row])
       PROVE  Honest(docs', pushed', u)
  <2> DEFINE n == [Ask(t, "item", NoDoc) EXCEPT !.before = row]
  <2>1. n.pc = "item" /\ n.ref = t.ref /\ n.token = t.token /\ n.todo = t.todo /\ n.action = t.action
    BY <1>1 DEF Ask, Task
  <2>2. "item" \in PushPC
    BY DEF PushPC
  <2>3. u = n
    BY <1>5, <1>14
  <2> HIDE DEF n
  <2>4. Honest(docs', pushed', n)
    BY <1>1, <1>9, <1>14, <2>1, <2>2, SameHonest
  <2>5. QED
    BY <2>3, <2>4
<1>15. QED
  BY <1>4, <1>7, <1>8, <1>10, <1>11, <1>12, <1>13, <1>14 DEF Pushes, Asserts

\* Answers leave a call as honest as it is.
LEMMA ServedHonest ==
    ASSUME MirrorConditions, SweepConditions, Trust, NEW p \in Tasks,
           task[p].pc \in PushPC, Serve(p)
    PROVE  UNCHANGED <<cursor, pushed>> /\ Honest(docs', pushed', task'[p])
<1> DEFINE t == task[p]
<1>1. /\ t \in Task /\ t.ref \in Items /\ t.pc \in PushPC \ {"lookup"} /\ t.pc # "idle"
      /\ Honest(docs, pushed, t) /\ task \in [Tasks -> Task] /\ Placed(cursor, docs, t)
  BY PushFacts, TaskFacts DEF Trust, MirrorInv, TruthInv, Honesty, PushPC,
     Mirroring, Base, TypedSync, TasksOK
<1>2. t.action \in Asserts => AtLeastOf(docs', t.ref, t.token)
  <2>1. MirrorSteps
    BY DEF MirrorSteps
  <2>2. QED
    BY <1>1, <2>1, TruthStays DEF Trust, MirrorInv, TruthInv
<1>3. UNCHANGED <<cursor, pushed>>
  BY DEF Serve, ServeFind, ServeFetch, ServeCreate, ServeRevise, ServeDelete, Waits
<1>4. Honest(docs', pushed', t)
  BY <1>1, <1>2, <1>3 DEF Honest, Truthful, Uncached
<1>5. \A v : Become(p, v) => task'[p] = v
  BY <1>1 DEF Become
<1>6. ASSUME NEW a, NEW d, Reply(p, a, d)
      PROVE  Honest(docs', pushed', task'[p])
  <2> DEFINE n == [t EXCEPT !.answer = a, !.got = d]
  <2>1. n.pc = t.pc /\ n.ref = t.ref /\ n.token = t.token /\ n.todo = t.todo /\ n.action = t.action
    BY <1>1 DEF Task
  <2>2. task'[p] = n
    BY <1>1, <1>6 DEF Reply
  <2> HIDE DEF n
  <2>3. Honest(docs', pushed', n)
    BY <1>1, <1>4, <2>1, SameHonest
  <2>4. QED
    BY <2>2, <2>3
<1>7. ASSUME t.pc = "fetch", Become(p, [t EXCEPT !.answer = "fetched", !.todo = Fetched(t)])
      PROVE  Honest(docs', pushed', task'[p])
  <2> DEFINE n == [t EXCEPT !.answer = "fetched", !.todo = Fetched(t)]
             todo == Fetched(t)
  <2>1. /\ n.pc = "fetch" /\ n.ref = t.ref /\ n.token = t.token /\ n.todo = todo
        /\ n.action = t.action
    BY <1>1, <1>7 DEF Task
  <2>2. task'[p] = n
    BY <1>5, <1>7
  <2>3. todo # <<>> /\ Head(todo).item = t.ref /\ Head(todo).token = t.token
    BY <1>1, FetchedWhole
  <2>4. Subject(t) = t.ref
    BY <1>1, <1>7 DEF Placed
  <2> HIDE DEF n, todo
  <2>5. IsPrimary(n) /\ Subject(n) = t.ref /\ IsPrimary(t)
    BY <2>1, <2>3, <2>4 DEF IsPrimary, Subject
  <2>6. Uncached(pushed', n)
    BY <1>4, <1>7, <2>1, <2>5 DEF Uncached, Honest
  <2>7. Truthful(docs', n)
    <3>1. t.action \notin Asserts
      BY <1>1, <2>5 DEF Truthful, Honest
    <3>2. QED
      BY <1>4, <2>1, <2>3, <3>1 DEF Honest, Truthful
  <2>8. QED
    BY <2>2, <2>6, <2>7 DEF Honest
<1>8. QED
  BY <1>3, <1>6, <1>7 DEF Serve, ServeFind, ServeFetch, ServeCreate, ServeRevise, ServeDelete, Waits

-----------------------------------------------------------------------------
(* The other calls stay honest.                                            *)

\* The cache gets no entry for j.
CacheKept(j) == pushed'[<<Home, j>>] \in {pushed[<<Home, j>>], NotPushed}

Coming(i) == i \in unlisted \/ \E x \in Queued : x.item = i

LEMMA FamilyItems ==
    ASSUME NEW i \in Items
    PROVE  Family(i) \subseteq Items
<1>1. Dependents[i] \in Seq(Items)
  BY DependentsAssumption
<1>2. \A k \in 1 .. Len(Dependents[i]) : Dependents[i][k] \in Items
  BY <1>1, ElementOfSeq
<1>3. QED
  BY <1>2 DEF Family

\* A call goes on, and the others stay as they are; what it puts into the cache
\* is about no other call, nor about an item to come.
LEMMA OthersStay ==
    ASSUME MirrorConditions, SweepConditions, Trust, NEW p \in Tasks, Run(p) \/ Serve(p)
    PROVE  /\ MirrorSteps
           /\ \A q \in Tasks \ {p} : task'[q] = task[q]
           /\ \A q \in Tasks \ {p} : task[q].pc \in PushPC => \A j \in Family(task[q].ref) : CacheKept(j)
           /\ \A i \in Primary : Coming(i) => \A j \in Family(i) : CacheKept(j)
<1>1. TypeInv /\ Calls
  BY DEF Trust, MirrorInv, Mirroring, Base, TypedSync, SweepInv, Calls
<1>2. OnItsWay(p)
  BY <1>1, RunFollows, ServeFollows
<1>3. \A q \in Tasks \ {p} : task'[q] = task[q]
  BY <1>1, <1>2, WayKeepsCalls
<1>4. UNCHANGED pushed \/ (task[p].pc \in PushPC /\ Pushes(p))
  <2>1. CASE Serve(p)
    BY <2>1 DEF Serve, ServeFind, ServeFetch, ServeCreate, ServeRevise, ServeDelete, Waits
  <2>2. CASE Run(p) /\ task[p].pc \in PushPC
    BY <2>2, PushForms DEF Trust, MirrorInv, TruthInv
  <2>3. CASE Run(p) /\ task[p].pc \notin PushPC
    <3>1. ResumeDeleteLookup(p) \/ ResumeDelete(p) \/ DeletePoll(p)
      BY <2>3 DEF Run, ResumeLookup, ResumeFetch, PushItem, ResumeFind, ResumeCreate, ResumeRevise,
         Poll, PollTimeout, Resumes, PushPC
    <3>2. QED
      BY <3>1 DEF ResumeDeleteLookup, ResumeDelete, DeletePoll, Reaped, Raise
  <2>4. QED
    BY <2>1, <2>2, <2>3
<1>5. ASSUME NEW i \in Items, task[p].pc \in PushPC => Family(task[p].ref) \cap Family(i) = {}
      PROVE  \A j \in Family(i) : CacheKept(j)
  <2>1. CASE UNCHANGED pushed
    BY <2>1 DEF CacheKept
  <2>2. CASE task[p].pc \in PushPC /\ Pushes(p)
    <3>1. Subject(task[p]) \in Family(task[p].ref)
      BY <2>2, PushFacts, Pushers DEF Trust, MirrorInv
    <3>2. \A j \in Family(i) : j \in Items /\ j # Subject(task[p])
      BY <1>5, <2>2, <3>1, FamilyItems
    <3>3. QED
      BY <2>2, <3>2, CacheAside DEF CacheKept, Trust, MirrorInv
  <2>3. QED
    BY <1>4, <2>1, <2>2
<1>6. ASSUME NEW q \in Tasks \ {p}, task[q].pc \in PushPC
      PROVE  \A j \in Family(task[q].ref) : CacheKept(j)
  <2>1. q # Reaper /\ task[q].pc # "idle" /\ task[q].ref \in Items
    BY <1>1, <1>6, Pushers, TaskFacts DEF Trust
  <2>2. task[p].pc \in PushPC => p # Reaper /\ task[p].pc # "idle"
    BY Pushers DEF Trust
  <2>3. task[p].pc \in PushPC => Family(task[p].ref) \cap Family(task[q].ref) = {}
    BY <2>1, <2>2, CallsApart DEF Trust
  <2>4. QED
    BY <1>5, <2>1, <2>3
<1>7. ASSUME NEW i \in Primary, Coming(i)
      PROVE  \A j \in Family(i) : CacheKept(j)
  <2>1. task[p].pc \in PushPC => Family(task[p].ref) \cap Family(i) = {}
    BY <1>7, Pushers DEF Trust, Coming
  <2>2. QED
    BY <1>5, <2>1, PrimaryAssumption
<1>8. MirrorSteps
  BY DEF MirrorSteps
<1>9. QED
  BY <1>3, <1>6, <1>7, <1>8

\* A call that nothing was done with or to is as honest as it was.
LEMMA StillHonest ==
    ASSUME MirrorConditions, SweepConditions, Trust, MirrorSteps, NEW q \in Tasks,
           task'[q] = task[q], task[q].pc \in PushPC => \A j \in Family(task[q].ref) : CacheKept(j)
    PROVE  Honest(docs', pushed', task'[q])
<1> DEFINE t == task[q]
<1>1. Honest(docs, pushed, t)
  BY DEF Trust, TruthInv, Honesty
<1>2. t.pc # "idle" /\ t.action \in Asserts => AtLeastOf(docs', t.ref, t.token)
  BY TruthStays DEF Trust, MirrorInv, TruthInv
<1>3. Truthful(docs', t)
  BY <1>1, <1>2 DEF Honest, Truthful
<1>4. Uncached(pushed', t)
  <2>1. CASE t.pc \in PushPC
    <3>1. t.ref \in Family(t.ref) /\ Subject(t) \in Family(t.ref)
      BY <2>1, PushFacts, Pushers DEF Trust, MirrorInv, Family
    <3>2. QED
      BY <1>1, <2>1, <3>1 DEF Honest, Uncached, CacheKept
  <2>2. CASE t.pc \notin PushPC
    BY <2>2 DEF Uncached, PushPC
  <2>3. QED
    BY <2>1, <2>2
<1>5. QED
  BY <1>3, <1>4 DEF Honest

LEMMA IdleHonest ==
    ASSUME NEW D, NEW P, NEW t, t.pc = "idle"
    PROVE  Honest(D, P, t) /\ Silent(t)
  BY DEF Honest, Uncached, Truthful, Silent, PushPC

LEMMA AheadStays ==
    ASSUME Ahead, \A i \in Primary : Coming(i)' => Coming(i) /\ \A j \in Family(i) : CacheKept(j)
    PROVE  Ahead'
  BY DEF Ahead, Coming, Unpushed, CacheKept

-----------------------------------------------------------------------------
(* The steps.                                                              *)

\* Calls that end, or are cut, or delete, say nothing new.
LEMMA PlainHonest ==
    ASSUME MirrorConditions, SweepConditions, Trust, MirrorSteps, NEW p \in Tasks,
           task[p].pc \notin PushPC, Run(p) \/ Serve(p)
    PROVE  Honest(docs', pushed', task'[p]) /\ (Silent(task[p]) => Silent(task'[p]))
<1> DEFINE t == task[p]
<1>1. /\ t \in Task /\ task \in [Tasks -> Task] /\ t.pc # "idle"
      /\ t.action \in Asserts => AtLeastOf(docs', t.ref, t.token)
  <2>1. TypeInv
    BY DEF Trust, MirrorInv, Mirroring, Base, TypedSync
  <2>2. t.pc # "idle"
    BY <2>1, RunFollows, ServeFollows
  <2>3. QED
    BY <2>1, <2>2, TaskFacts, TruthStays DEF TasksOK, Trust, MirrorInv, TruthInv
<1>2. \A v : Become(p, v) => task'[p] = v
  BY <1>1 DEF Become
<1>3. ASSUME NEW a, a \notin Asserts, Become(p, Outcome(t, a, FALSE))
      PROVE  Honest(docs', pushed', task'[p]) /\ Silent(task'[p])
  <2>1. Honest(docs', pushed', Outcome(t, a, FALSE))
    BY <1>3, EndHonest
  <2>2. Outcome(t, a, FALSE).action = a
    BY DEF Outcome, Blank
  <2>3. QED
    BY <1>2, <1>3, <2>1, <2>2 DEF Silent
<1>4. ASSUME NEW n, task'[p] = n, n.pc \in {"dlookup", "delete", "dpoll"},
             n.ref = t.ref, n.token = t.token, n.action = t.action
      PROVE  Honest(docs', pushed', task'[p]) /\ (Silent(t) => Silent(task'[p]))
  <2>1. Honest(docs', pushed', n)
    BY <1>1, <1>4 DEF Honest, Uncached, Truthful, PushPC
  <2>2. Silent(t) => Silent(n)
    BY <1>1, <1>4 DEF Silent
  <2>3. QED
    BY <1>4, <2>1, <2>2
<1>5. ASSUME NEW pc \in {"delete", "dpoll"}, NEW d, Become(p, Ask(t, pc, d))
      PROVE  Honest(docs', pushed', task'[p]) /\ (Silent(t) => Silent(task'[p]))
  <2> DEFINE n == Ask(t, pc, d)
  <2>1. n.pc = pc /\ n.ref = t.ref /\ n.token = t.token /\ n.action = t.action /\ task'[p] = n
    BY <1>1, <1>2, <1>5, AskFields
  <2> HIDE DEF n
  <2>2. QED
    BY <1>4, <2>1
<1>6. CASE Run(p)
  <2>1. ResumeDeleteLookup(p) \/ ResumeDelete(p) \/ DeletePoll(p)
    BY <1>6 DEF Run, ResumeLookup, ResumeFetch, PushItem, ResumeFind, ResumeCreate, ResumeRevise,
       Poll, PollTimeout, Resumes, PushPC
  <2>2. \/ \E a : a \notin Asserts /\ Become(p, Outcome(t, a, FALSE))
        \/ \E pc \in {"delete", "dpoll"} : \E d : Become(p, Ask(t, pc, d))
    BY <2>1 DEF ResumeDeleteLookup, ResumeDelete, DeletePoll, StartReap, Reaped, Raise, Asserts
  <2>3. QED
    BY <1>3, <1>5, <2>2
<1>7. CASE Serve(p)
  <2>1. t.pc \in {"dlookup", "delete", "dpoll"} /\ \E a, d : Reply(p, a, d)
    BY <1>7 DEF Serve, ServeFind, ServeFetch, ServeCreate, ServeRevise, ServeDelete, Waits, PushPC
  <2>2. PICK a, d : Reply(p, a, d)
    BY <2>1
  <2> DEFINE n == [t EXCEPT !.answer = a, !.got = d]
  <2>3. n.pc = t.pc /\ n.ref = t.ref /\ n.token = t.token /\ n.action = t.action
    BY <1>1 DEF Task
  <2>4. task'[p] = n
    BY <1>1, <2>2 DEF Reply
  <2> HIDE DEF n
  <2>5. QED
    BY <1>4, <2>1, <2>3, <2>4
<1>8. QED
  BY <1>6, <1>7

\* A call goes on.
LEMMA GoingHonest ==
    ASSUME MirrorConditions, SweepConditions, Trust, MirrorInv', NEW p \in Tasks,
           Run(p) \/ Serve(p), UNCHANGED <<unlisted, waiting, strays>>
    PROVE  TruthInv'
<1>1. /\ MirrorSteps
      /\ \A q \in Tasks \ {p} : task'[q] = task[q]
      /\ \A q \in Tasks \ {p} : task[q].pc \in PushPC => \A j \in Family(task[q].ref) : CacheKept(j)
      /\ \A i \in Primary : Coming(i) => \A j \in Family(i) : CacheKept(j)
  BY OthersStay
<1>2. \A q \in Tasks \ {p} : Honest(docs', pushed', task'[q])
  BY <1>1, StillHonest
<1>3. Honest(docs', pushed', task'[p])
  BY <1>1, PushHonest, ServedHonest, PlainHonest
<1>4. Honesty'
  BY <1>2, <1>3 DEF Honesty
<1>5. Silent(task[Reaper])'
  <2>1. Silent(task[Reaper]) /\ Reaper \in Tasks
    BY WorkersAssumption DEF Trust, TruthInv
  <2>2. CASE p # Reaper
    BY <1>1, <2>1, <2>2 DEF Silent
  <2>3. CASE p = Reaper
    <3>1. task[p].pc \notin PushPC
      BY <2>3, Pushers DEF Trust
    <3>2. Silent(task'[p])
      BY <1>1, <2>1, <2>3, <3>1, PlainHonest
    <3>3. QED
      BY <2>3, <3>2 DEF Silent
  <2>4. QED
    BY <2>2, <2>3
<1>6. Ahead'
  BY <1>1, AheadStays DEF Trust, TruthInv, Coming, Queued
<1>7. QED
  BY <1>4, <1>5, <1>6 DEF TruthInv

\* A call is cut, or its outcome taken.
LEMMA EndingHonest ==
    ASSUME MirrorConditions, SweepConditions, Trust, NEW p \in Tasks,
           Abort(p) \/ Collect(p), UNCHANGED <<unlisted, waiting, strays>>
    PROVE  TruthInv'
<1>1. /\ task \in [Tasks -> Task] /\ UNCHANGED pushed /\ Reaper \in Tasks
      /\ MirrorSteps
  BY WorkersAssumption DEF Trust, MirrorInv, Mirroring, Base, TypedSync, TypeInv, Local, TasksOK,
     Abort, Raise, Collect, MirrorSteps
<1>2. PICK u : Become(p, u) /\ Silent(u) /\ Honest(docs', pushed', u)
  <2>1. CASE Abort(p)
    <3> DEFINE u == Outcome(task[p], "error", FALSE)
    <3>1. u.action = "error" /\ Become(p, u)
      BY <2>1 DEF Abort, Raise, Outcome, Blank
    <3>2. Honest(docs', pushed', u)
      BY EndHonest DEF Asserts
    <3> HIDE DEF u
    <3>3. QED
      BY <3>1, <3>2 DEF Silent, Asserts
  <2>2. CASE Collect(p)
    <3> DEFINE u == Blank(AnItem, NoToken)
    <3>1. u.pc = "idle" /\ Become(p, u)
      BY <2>2 DEF Collect, Blank
    <3> HIDE DEF u
    <3>2. QED
      BY <3>1, IdleHonest
  <2>3. QED
    BY <2>1, <2>2
<1>3. \A q \in Tasks : task'[q] = IF q = p THEN u ELSE task[q]
  BY <1>1, <1>2 DEF Become
<1>4. Honesty'
  <2>1. \A q \in Tasks \ {p} : Honest(docs', pushed', task'[q])
    BY <1>1, <1>3, StillHonest DEF CacheKept
  <2>2. QED
    BY <1>2, <1>3, <2>1 DEF Honesty
<1>5. Silent(task[Reaper])'
  <2>1. Silent(task[Reaper])
    BY DEF Trust, TruthInv
  <2>2. QED
    BY <1>1, <1>2, <1>3, <2>1 DEF Silent
<1>6. Ahead'
  BY <1>1, AheadStays DEF Trust, TruthInv, Coming, Queued, CacheKept
<1>7. QED
  BY <1>4, <1>5, <1>6 DEF TruthInv

\* A coroutine begins to push an item of which the cache has nothing yet.
LEMMA StartHonest ==
    ASSUME MirrorConditions, SweepConditions, Trust, MirrorInv', NEW p \in Slots, StartItem(p)
    PROVE  TruthInv'
<1>1. PICK r \in Queued : /\ PushRef(p, r.item, r.token)
                          /\ waiting' \cup strays' \subseteq Queued /\ UNCHANGED unlisted
  BY DEF StartItem, Queued
<1> DEFINE i == r.item
           t == Routed(i, r.token)
<1>2. /\ p \in Tasks /\ p # Reaper /\ Reaper \in Tasks /\ i \in Primary /\ i \in Items
      /\ r.token \in Versions /\ r.token \in Tokens /\ Unpushed(i)
      /\ task \in [Tasks -> Task] /\ UNCHANGED <<cursor, docs, pushed>> /\ SourceOK
  BY <1>1, WorkersAssumption, PrimaryAssumption DEF Trust, MirrorInv, QueueInv, Queued, TruthInv, Ahead,
     Mirroring, Base, TypedSync, RefsOK, TypeInv, Local, TasksOK, PushRef, Starts, ragVars,
     Tokens, Versions
<1>3. t \in Task /\ t.ref = i /\ t.todo = <<>> /\ t.token = r.token /\ t.action = "none"
  <2>1. t.token = r.token /\ t.action = "none"
    BY DEF Routed, Blank
  <2>2. QED
    BY <1>2, <2>1, RoutedType
<1>4. /\ \A q \in Tasks \ {p} : task'[q] = task[q]
      /\ \A v : Become(p, v) => task'[p] = v
  BY <1>1, <1>2 DEF PushRef, Become
<1>5. route[i] \in {Home, Unrouted}
  BY <1>2 DEF Trust, MirrorInv, Mirroring, Base, GoneInv, RoutesHome, Anywhere
<1>6. ASSUME \/ Become(p, Outcome(t, "unrouted", FALSE))
             \/ TokenUnchanged(t) /\ Become(p, Outcome(t, "noop_unchanged", FALSE))
      PROVE  Honest(docs', pushed', task'[p])
  <2> HIDE DEF t
  <2>1. PICK a : /\ Become(p, Outcome(t, a, FALSE))
                 /\ a \in Asserts => TokenUnchanged(t)
    <3>1. "unrouted" \notin Asserts
      BY DEF Asserts
    <3>2. QED
      BY <1>6, <3>1
  <2>2. TokenUnchanged(t) => AtLeastOf(docs', t.ref, t.token)
    BY <1>2, <1>3 DEF TokenUnchanged, Trust, MirrorInv, Mirroring, RowInv, GoodRow
  <2>3. Honest(docs', pushed', Outcome(t, a, FALSE))
    BY <2>1, <2>2, EndHonest
  <2>4. QED
    BY <1>4, <2>1, <2>3
<1>7. ASSUME Become(p, Ask(t, "fetch", NoDoc))
      PROVE  Honest(docs', pushed', task'[p])
  <2> DEFINE n == Ask(t, "fetch", NoDoc)
  <2>1. /\ n.pc = "fetch" /\ n.ref = i /\ n.token = t.token /\ n.todo = <<>> /\ n.action = "none"
        /\ task'[p] = n
    BY <1>3, <1>4, <1>7, AskFields
  <2> HIDE DEF n
  <2>2. pushed'[<<Home, i>>] = NotPushed
    BY <1>2 DEF Unpushed, Family
  <2> HIDE DEF i, t
  <2>3. Honest(docs', pushed', n)
    BY <2>1, <2>2 DEF Honest, Uncached, Truthful, Asserts
  <2>4. QED
    BY <2>1, <2>3
<1>8. ~(route[i] # Unrouted /\ TokenUnchanged(t) /\ ~Knows(i, route[i]))
  BY <1>2, <1>3, <1>5 DEF TokenUnchanged, Knows, Trust, MirrorInv, Mirroring, RowInv, GoodRow
<1>9. Honest(docs', pushed', task'[p])
  <2>1. \/ Become(p, Outcome(t, "unrouted", FALSE))
        \/ TokenUnchanged(t) /\ Become(p, Outcome(t, "noop_unchanged", FALSE))
        \/ Become(p, Ask(t, "fetch", NoDoc))
    BY <1>1, <1>8 DEF PushRef
  <2>2. QED
    BY <1>6, <1>7, <2>1
<1>10. MirrorSteps
  BY <1>1, <1>2 DEF MirrorSteps
<1>11. Honesty'
  <2>1. \A q \in Tasks \ {p} : Honest(docs', pushed', task'[q])
    BY <1>2, <1>4, <1>10, StillHonest DEF CacheKept
  <2>2. QED
    BY <1>9, <2>1 DEF Honesty
<1>12. Silent(task[Reaper])'
  BY <1>2, <1>4 DEF Silent, Trust, TruthInv
<1>13. Ahead'
  BY <1>1, <1>2, AheadStays DEF Trust, TruthInv, Coming, Queued, CacheKept
<1>14. QED
  BY <1>11, <1>12, <1>13 DEF TruthInv

\* The reaper begins to delete.
LEMMA ReapHonest ==
    ASSUME MirrorConditions, SweepConditions, Trust, NEW d \in DocIds, Reap(d)
    PROVE  TruthInv'
<1> DEFINE i == docs[d].key
           t == [Blank(i, NoToken) EXCEPT !.home = docs[d].lib, !.lib = docs[d].lib]
<1>1. /\ ReapOrphan(Reaper, i, d) /\ UNCHANGED <<pushed, unlisted, waiting, strays>> /\ Reaper \in Tasks
      /\ task \in [Tasks -> Task] /\ i \in Items
  BY WorkersAssumption DEF Reap, ReapOrphan, Starts, Trust, MirrorInv, Mirroring, Base, TypedSync,
     TypeInv, Local, TasksOK, GoneInv, SweepGone, DocsHome
<1>2. MirrorSteps
  BY <1>1 DEF MirrorSteps
<1>3. PICK u : /\ Become(Reaper, u) /\ u.action \in {"none", "skipped_missing"}
               /\ u.pc \in {"delete", "done"}
  <2>1. \/ Become(Reaper, Outcome(t, "skipped_missing", FALSE))
        \/ Become(Reaper, Ask(t, "delete", d))
    BY <1>1 DEF ReapOrphan, StartReap
  <2>2. LET n == Ask(t, "delete", d) IN n.action = "none" /\ n.pc = "delete"
    BY DEF Ask, Blank
  <2>3. LET n == Outcome(t, "skipped_missing", FALSE)
        IN  n.action = "skipped_missing" /\ n.pc = "done"
    BY DEF Outcome, Blank
  <2> HIDE DEF t
  <2>4. QED
    BY <2>1, <2>2, <2>3
<1>4. \A q \in Tasks : task'[q] = IF q = Reaper THEN u ELSE task[q]
  BY <1>1, <1>3 DEF Become
<1>5. Silent(u) /\ Honest(docs', pushed', u)
  BY <1>3 DEF Silent, Honest, Uncached, Truthful, PushPC, Asserts
<1>6. Honesty'
  <2>1. \A q \in Tasks \ {Reaper} : Honest(docs', pushed', task'[q])
    BY <1>1, <1>2, <1>4, StillHonest DEF CacheKept
  <2>2. QED
    BY <1>1, <1>4, <1>5, <2>1 DEF Honesty
<1>7. Silent(task[Reaper])'
  BY <1>1, <1>4, <1>5 DEF Silent
<1>8. Ahead'
  BY <1>1, AheadStays DEF Trust, TruthInv, Coming, Queued, CacheKept
<1>9. QED
  BY <1>6, <1>7, <1>8 DEF TruthInv

\* Nothing is done with the calls; what is enumerated is taken from what is
\* to come to.
LEMMA RestHonest ==
    ASSUME MirrorConditions, SweepConditions, Trust, MirrorSteps, UNCHANGED task,
           \/ /\ UNCHANGED pushed
              /\ \A i \in Primary : Coming(i)' => Coming(i)
           \/ \A j \in Items : pushed'[<<Home, j>>] = NotPushed
    PROVE  TruthInv'
<1>1. \A i \in Items : Family(i) \subseteq Items
  BY FamilyItems
<1>2. \A j \in Items : CacheKept(j)
  BY DEF CacheKept
<1>3. Honesty'
  <2>1. \A q \in Tasks : task[q].ref \in Items
    BY TaskFacts DEF Trust, MirrorInv, Mirroring, Base, TypedSync
  <2>2. \A q \in Tasks : Honest(docs', pushed', task'[q])
    BY <1>1, <1>2, <2>1, StillHonest
  <2>3. QED
    BY <2>2 DEF Honesty
<1>4. Silent(task[Reaper])'
  BY DEF Trust, TruthInv, Silent
<1>5. Ahead'
  <2>1. CASE UNCHANGED pushed /\ \A i \in Primary : Coming(i)' => Coming(i)
    BY <1>1, <1>2, <2>1, PrimaryAssumption, AheadStays DEF Trust, TruthInv
  <2>2. CASE \A j \in Items : pushed'[<<Home, j>>] = NotPushed
    BY <1>1, <2>2, PrimaryAssumption DEF Ahead, Unpushed
  <2>3. QED
    BY <2>1, <2>2
<1>6. QED
  BY <1>3, <1>4, <1>5 DEF TruthInv

LEMMA RestartHonest ==
    ASSUME Restart
    PROVE  TruthInv'
<1>1. \A p \in Tasks : task'[p].pc = "idle"
  <2>1. \A i : Blank(i, NoToken).pc = "idle"
    BY DEF Blank
  <2>2. QED
    BY <2>1 DEF Restart, Crash
<1>2. Reaper \in Tasks /\ unlisted' = {} /\ Queued' = {}
  BY WorkersAssumption DEF Restart, Queued
<1>3. Honesty'
  BY <1>1, IdleHonest DEF Honesty
<1>4. QED
  BY <1>1, <1>2, <1>3 DEF TruthInv, Silent, Ahead

\* A sweep is cancelled: its calls are cut, and it leaves nothing behind.
LEMMA CancelHonest ==
    ASSUME MirrorConditions, SweepConditions, Trust, MirrorSteps, CancelSweep
    PROVE  TruthInv'
<1>1. /\ \A p \in Tasks : task'[p] = task[p] \/ task'[p].pc = "idle"
      /\ UNCHANGED pushed /\ Reaper \in Tasks
  <2>1. Blank(AnItem, NoToken).pc = "idle"
    BY DEF Blank
  <2>2. QED
    BY <2>1, WorkersAssumption DEF CancelSweep, Cut
<1>2. unlisted' = {} /\ Queued' = {}
  BY DEF CancelSweep, Queued, Trust, SweepInv, BetweenSweeps
<1>3. \A p \in Tasks : Honest(docs', pushed', task'[p])
  BY <1>1, StillHonest, IdleHonest DEF CacheKept
<1>4. Silent(task[Reaper])'
  BY <1>1 DEF Silent, Trust, TruthInv
<1>5. QED
  BY <1>2, <1>3, <1>4 DEF TruthInv, Honesty, Ahead

\* Every step of sweeps that keep apart.
LEMMA TruthStep ==
    ASSUME MirrorConditions, SweepConditions, Trust, MirrorInv', Stepping
    PROVE  TruthInv'
<1>1. MirrorSteps
  BY SyncIsMirrorStep DEF Trust, MirrorInv, Mirroring, Stepping
<1>2. ASSUME UNCHANGED <<task, pushed>>, Queued' = Queued, unlisted' \subseteq unlisted
      PROVE  TruthInv'
  BY <1>1, <1>2, RestHonest DEF Coming
<1>3. CASE StartSweep
  <2>1. UNCHANGED task
    BY <1>3 DEF StartSweep, ResetSweepCache
  <2>2. \A j \in Items : pushed'[<<Home, j>>] = NotPushed
    <3>1. Home \in Libraries
      BY HomeFacts DEF MirrorConditions
    <3>2. QED
      BY <1>3, <3>1 DEF StartSweep, ResetSweepCache
  <2>3. QED
    BY <1>1, <2>1, <2>2, RestHonest
<1>4. ASSUME NEW i \in Items, Enumerate(i)
      PROVE  TruthInv'
  <2>1. UNCHANGED <<task, pushed>>
    BY <1>4 DEF Enumerate, vars
  <2>2. \A j : Coming(j)' => Coming(j)
    BY <1>4 DEF Enumerate, Coming, Queued
  <2>3. QED
    BY <1>1, <2>1, <2>2, RestHonest
<1>5. CASE Sweep
  <2>1. CASE StartReaping \/ EndLibrary \/ \E l \in Libraries : ListLibrary(l)
    BY <1>2, <2>1 DEF StartReaping, EndLibrary, ListLibrary, Queued, vars
  <2>2. ASSUME NEW p \in Slots, EndItem(p)
        PROVE  TruthInv'
    <3>1. p \in Tasks
      BY WorkersAssumption
    <3>2. QED
      BY <2>2, <3>1, EndingHonest DEF EndItem
  <2>3. QED
    BY <1>3, <1>4, <1>5, <2>1, <2>2, StartHonest, ReapHonest DEF Sweep, SweepGoesOn
<1>6. CASE ReapingFails \/ EnumerationFails \/ CancelSweep
  <2>1. Reaper \in Tasks
    BY WorkersAssumption
  <2>2. CASE ReapingFails
    BY <1>2, <2>1, <2>2, EndingHonest DEF ReapingFails, Queued
  <2>3. CASE EnumerationFails
    BY <1>2, <2>3 DEF EnumerationFails, Queued
  <2>4. QED
    BY <1>1, <1>6, <2>2, <2>3, CancelHonest
<1>7. CASE Restart
  BY <1>7, RestartHonest
<1>8. ASSUME NEW p \in Tasks, Proceed(p) \/ (Abort(p) /\ UNCHANGED sweepVars)
      PROVE  TruthInv'
  <2>1. UNCHANGED <<unlisted, waiting, strays>>
    BY <1>8 DEF Proceed, sweepVars
  <2>2. QED
    BY <1>8, <2>1, GoingHonest, EndingHonest DEF Proceed
<1>9. \A p \in Tasks : ~Hook(p)
  BY DEF Hook, SweepConditions
<1>10. CASE (Source \/ Service \/ Seeder) /\ UNCHANGED sweepVars
  BY <1>2, <1>10 DEF Source, Edit, Vanish, Reroute, Service, Remove, Settle, Misfire, Seeder, Seed,
     Queued, sweepVars
<1>11. CASE UNCHANGED allVars \/ \E l \in Libraries : SkipLibrary(l)
  BY <1>2, <1>11 DEF SkipLibrary, Queued, allVars, vars, sweepVars
<1>12. QED
  BY <1>5, <1>6, <1>7, <1>8, <1>9, <1>10, <1>11 DEF SyncNext, SweepFails, Beside, Stepping

LEMMA TruthStart ==
    ASSUME SyncInit
    PROVE  TruthInv
<1>1. \A p \in Tasks : task[p].pc = "idle"
  <2>1. \A i : Blank(i, NoToken).pc = "idle"
    BY DEF Blank
  <2>2. QED
    BY <2>1 DEF SyncInit, Init
<1>2. Reaper \in Tasks /\ unlisted = {} /\ Queued = {}
  BY WorkersAssumption DEF SyncInit, Queued
<1>3. Honesty
  BY <1>1, IdleHonest DEF Honesty
<1>4. QED
  BY <1>1, <1>2, <1>3 DEF TruthInv, Silent, Ahead

\* What a call that has returned says of its item, its copies bear out.
LEMMA TruthTells ==
    ASSUME MirrorConditions, Trust
    PROVE  OutcomeIsTrue
<1> SUFFICES ASSUME NEW p \in Tasks, Reported(p, Asserts), NEW d \in Matches(task[p].home, task[p].ref)
             PROVE  docs[d].content \in AtLeast(task[p].ref, task[p].token)
  BY DEF OutcomeIsTrue, Asserts
<1> DEFINE t == task[p]
<1>1. AtLeastOf(docs, t.ref, t.token)
  BY DEF Reported, Trust, TruthInv, Honesty, Honest, Truthful
<1>2. d \in ActiveOf(docs, t.ref)
  BY DEF Matches, Active, ActiveOf
<1>3. QED
  BY <1>1, <1>2 DEF AtLeastOf, From, AtLeast, Versions

\* What holds as sweeps that keep apart go on.
LEMMA TrustInvariant ==
    ASSUME MirrorConditions, SweepConditions
    PROVE  ApartSpec => []Trust
<1>1. SyncInit => Trust
  BY MirrorInit, SweepStart, TruthStart DEF Trust
<1>2. Trust /\ [ApartNext]_allVars => Trust'
  <2> SUFFICES ASSUME Trust, [ApartNext]_allVars
               PROVE  Trust'
    OBVIOUS
  <2>1. TypedSync /\ MirrorInv /\ SweepInv
    BY DEF Trust, MirrorInv, Mirroring, Base
  <2>2. Stepping
    BY <2>1, ApartSteps DEF TypedSync
  <2>3. MirrorInv' /\ SweepInv'
    BY <2>1, <2>2, CallsDiffer, MirrorStep, SweepStep DEF Stepping
  <2>4. QED
    BY <2>2, <2>3, TruthStep DEF Trust
<1>3. QED
  BY <1>1, <1>2, PTL DEF ApartSpec

\* A push that reports its reference unchanged, created or replaced told the
\* truth, and goes on telling it until its coroutine ends, whatever the source
\* and the service do meanwhile: sweeps keep their calls apart, the item is
\* pushed before its dependents, and the sweep cache stands in for none of them.
THEOREM OutcomesAreTrue ==
    ASSUME MirrorConditions, SweepConditions
    PROVE  ApartSpec => []OutcomeIsTrue
<1>1. ApartSpec => []Trust
  BY TrustInvariant
<1>2. Trust => OutcomeIsTrue
  BY TruthTells
<1>3. QED
  BY <1>1, <1>2, PTL

-----------------------------------------------------------------------------
(* Pushes leave no dependent out.                                          *)

\* A dependent that is new is created, not skipped.
DependentsCreated ==
    \A i \in Primary : \A j \in Family(i) \ Primary : Policy[j].on_new = "create"

\* The call still has to push j.
ToPush(t, j) == \E m \in 1 .. Len(t.todo) : t.todo[m].item = j

\* A dependent that the cache has, the cursor has; a call that has not yet
\* ended has every dependent in the cursor or before it.
WholeIn(C, P, t, j) ==
    /\ t.pc \in PushPC /\ P[<<Home, j>>] # NotPushed => C[j] # NoRow
    /\ t.pc \in PushPC /\ t.todo # <<>> => C[j] # NoRow \/ ToPush(t, j)
    /\ t.pc = "done" /\ ~t.deferred /\ t.action \in {"created", "replaced"} => C[j] # NoRow

Whole(C, P, t) == \A j \in Family(t.ref) \ Primary : WholeIn(C, P, t, j)
WholeInv == \A p \in Tasks : Whole(cursor, pushed, task[p])

\* A row is never lost.
HoldsRow(j) == cursor[j] # NoRow => cursor'[j] # NoRow

-----------------------------------------------------------------------------
(* What a call becomes.                                                    *)

\* A call that neither pushes nor has just created or replaced its item.
LEMMA BlankWhole ==
    ASSUME NEW C, NEW P, NEW t, t.pc \notin PushPC,
           t.pc # "done" \/ t.deferred \/ t.action \notin {"created", "replaced"}
    PROVE  Whole(C, P, t)
  BY DEF Whole, WholeIn

\* What is to push is the item at the head and what is to push after it.
LEMMA ToPushNext ==
    ASSUME NEW t \in Task, t.todo # <<>>, NEW j, ToPush(t, j), Subject(t) # j
    PROVE  Tail(t.todo) # <<>> /\ \E m \in 1 .. Len(Tail(t.todo)) : Tail(t.todo)[m].item = j
<1> DEFINE rest == Tail(t.todo)
<1>1. t.todo \in Seq(SourceItem)
  BY DEF Task
<1>2. /\ Len(t.todo) \in Nat /\ Len(rest) = Len(t.todo) - 1 /\ Head(t.todo) = t.todo[1]
      /\ rest \in Seq(SourceItem)
      /\ \A k \in 1 .. Len(rest) : rest[k] = t.todo[k + 1]
  BY <1>1, HeadTailProperties, LenProperties
<1>3. PICK m \in 1 .. Len(t.todo) : t.todo[m].item = j
  BY DEF ToPush
<1>4. m # 1
  BY <1>2, <1>3 DEF Subject
<1> HIDE DEF rest
<1>5. m - 1 \in 1 .. Len(rest) /\ rest[m - 1].item = j
  <2>1. m - 1 \in 1 .. Len(rest) /\ (m - 1) + 1 = m
    BY <1>2, <1>3, <1>4
  <2>2. QED
    BY <1>2, <1>3, <2>1
<1>6. rest # <<>>
  BY <1>5, EmptySeq, LenProperties
<1>7. QED
  BY <1>5, <1>6 DEF rest

\* On to a dependent, or done.
LEMMA NextWhole ==
    ASSUME NEW C, NEW P, NEW t \in Task, t.todo # <<>>, NEW a,
           \A j \in Family(t.ref) \ Primary :
              /\ P[<<Home, j>>] # NotPushed => C[j] # NoRow
              /\ C[j] # NoRow \/ ToPush(t, j)
              /\ j = Subject(t) => C[j] # NoRow
    PROVE  Whole(C, P, NextItem(t, a))
<1> DEFINE rest == Tail(t.todo)
           main == IF IsPrimary(t) THEN a ELSE t.action
           l == DependentLibrary(t, Head(rest).item)
           n == NextItem(t, a)
<1>1. CASE rest = <<>>
  <2>1. n = Outcome(t, main, FALSE)
    BY <1>1 DEF NextItem
  <2> HIDE DEF main, rest, n
  <2>2. n.ref = t.ref /\ n.pc = "done"
    BY <2>1 DEF Outcome, Blank
  <2>3. \A j \in Family(t.ref) \ Primary : C[j] # NoRow
    BY <1>1, ToPushNext DEF rest
  <2>4. Whole(C, P, n)
    BY <2>2, <2>3 DEF Whole, WholeIn, PushPC
  <2>5. QED
    BY <2>4 DEF n
<1>2. CASE rest # <<>>
  <2>1. n = [Ask(t, "item", NoDoc) EXCEPT !.todo = rest, !.lib = l, !.action = main]
    BY <1>2 DEF NextItem
  <2> HIDE DEF l, main, rest, n
  <2>2. n.pc = "item" /\ n.ref = t.ref /\ n.todo = rest
    BY <2>1 DEF Ask, Task
  <2>3. ASSUME NEW j \in Family(t.ref) \ Primary, C[j] = NoRow
        PROVE  ToPush(n, j)
    <3>1. ToPush(t, j) /\ Subject(t) # j
      BY <2>3
    <3>2. \E m \in 1 .. Len(rest) : rest[m].item = j
      BY <3>1, ToPushNext DEF rest
    <3>3. QED
      BY <2>2, <3>2 DEF ToPush
  <2>4. Whole(C, P, n)
    BY <2>2, <2>3 DEF Whole, WholeIn
  <2>5. QED
    BY <2>4 DEF n
<1>3. QED
  BY <1>1, <1>2

\* A call that goes on with the same item.
LEMMA SameWhole ==
    ASSUME NEW C, NEW P, NEW t, NEW u, u.ref = t.ref, u.todo = t.todo, u.pc \in PushPC,
           \A j \in Family(t.ref) \ Primary :
              /\ P[<<Home, j>>] # NotPushed => C[j] # NoRow
              /\ u.todo # <<>> => C[j] # NoRow \/ ToPush(t, j)
    PROVE  Whole(C, P, u)
  BY DEF Whole, WholeIn, ToPush, PushPC

-----------------------------------------------------------------------------
(* The steps of a call.                                                    *)

\* What is handled has a row.
LEMMA HandledRow ==
    ASSUME MirrorConditions, Mirroring, NEW p \in Tasks, task[p].pc \in PushPC,
           task[p].todo # <<>>, NEW d \in DocIds, NEW a, Handled(p, d, a)
    PROVE  /\ cursor'[Subject(task[p])] # NoRow
           /\ \A j \in Items \ {Subject(task[p])} : cursor'[j] = cursor[j]
<1> DEFINE t == task[p]
           i == Subject(t)
           row == [token |-> Head(t.todo).token, doc |-> KeptDoc(i, d), lib |-> t.lib]
<1>1. t \in Task /\ i \in Items /\ t.lib = Home /\ cursor \in [Items -> Row \cup {NoRow}]
  BY PushFacts, DocFacts DEF Mirroring
<1>2. cursor' = [cursor EXCEPT ![i] = row]
  BY DEF Handled, Upsert
<1>3. row \in Row
  <2>1. Head(t.todo).token \in Tokens
    BY <1>1, SubjectType DEF SourceItem
  <2>2. t.lib \in Libraries
    BY <1>1, HomeFacts DEF MirrorConditions
  <2>3. KeptDoc(i, d) = d
    BY NoDocAssumption DEF KeptDoc
  <2>4. QED
    BY <2>1, <2>2, <2>3 DEF Row
<1> HIDE DEF row
<1>4. QED
  BY <1>1, <1>2, <1>3, RowAssumption

LEMMA PushWhole ==
    ASSUME MirrorConditions, DependentsCreated, Mirroring, NEW p \in Tasks,
           task[p].pc \in PushPC, Pushes(p), Subject(task[p]) \in Family(task[p].ref),
           Whole(cursor, pushed, task[p])
    PROVE  /\ Whole(cursor', pushed', task'[p])
           /\ \A j \in Items \ Primary : j # Subject(task[p]) => HoldsRow(j)
<1> DEFINE t == task[p]
           i == Subject(t)
           Deps == Family(t.ref) \ Primary
<1>1. /\ t \in Task /\ i \in Items /\ t.ref \in Primary /\ t.ref \in Items
      /\ task \in [Tasks -> Task] /\ cursor \in [Items -> Row \cup {NoRow}]
      /\ Deps \subseteq Items
  BY PushFacts, DocFacts, TaskFacts, FamilyItems DEF Mirroring, Base, TypedSync, TasksOK
<1>2. \A v : Become(p, v) => task'[p] = v
  BY <1>1 DEF Become
<1>3. \A j \in Deps : /\ pushed[<<Home, j>>] # NotPushed => cursor[j] # NoRow
                      /\ t.todo # <<>> => cursor[j] # NoRow \/ ToPush(t, j)
  BY DEF Whole, WholeIn
<1>4. \A j \in Deps : j # i => pushed'[<<Home, j>>] = pushed[<<Home, j>>]
  BY <1>1, CacheAside
<1>5. t.todo # <<>> => ToPush(t, i)
  <2>1. t.todo # <<>> => t.todo \in Seq(SourceItem) /\ Len(t.todo) \in Nat /\ Head(t.todo) = t.todo[1]
                       /\ 1 \in 1 .. Len(t.todo)
    BY <1>1, HeadTailProperties, LenProperties, EmptySeq DEF Task
  <2>2. QED
    BY <2>1 DEF ToPush, Subject
<1>6. CASE Defer(p)
  <2>1. \E a : Become(p, Outcome(t, a, TRUE))
    BY <1>6 DEF Defer
  <2>2. \A a : LET u == Outcome(t, a, TRUE) IN u.pc = "done" /\ u.deferred
    BY DEF Outcome, Blank
  <2>3. Whole(cursor', pushed', task'[p])
    BY <1>2, <2>1, <2>2, BlankWhole DEF PushPC
  <2>4. \A j \in Items \ Primary : cursor'[j] = cursor[j]
    BY <1>1, <1>6 DEF Defer, Restore
  <2>5. QED
    BY <2>3, <2>4 DEF HoldsRow
<1>7. ASSUME t.todo # <<>>, NEW d \in DocIds, NEW a, Handled(p, d, a)
      PROVE  /\ Whole(cursor', pushed', task'[p])
             /\ \A j \in Items \ Primary : j # i => HoldsRow(j)
  <2>1. cursor'[i] # NoRow /\ \A j \in Items \ {i} : cursor'[j] = cursor[j]
    BY <1>7, HandledRow
  <2>2. \A j \in Deps : /\ pushed'[<<Home, j>>] # NotPushed => cursor'[j] # NoRow
                        /\ cursor'[j] # NoRow \/ ToPush(t, j)
                        /\ j = i => cursor'[j] # NoRow
    BY <1>1, <1>3, <1>4, <1>7, <2>1
  <2>3. Whole(cursor', pushed', NextItem(t, a))
    BY <1>1, <1>7, <2>2, NextWhole
  <2>4. QED
    BY <1>2, <1>7, <2>1, <2>3 DEF Handled, HoldsRow
<1>8. CASE UNCHANGED <<cursor, pushed>> /\ \E a : a \notin Asserts /\ Become(p, Outcome(t, a, FALSE))
  <2>1. PICK a : a \notin Asserts /\ Become(p, Outcome(t, a, FALSE))
    BY <1>8
  <2>2. LET u == Outcome(t, a, FALSE) IN u.pc = "done" /\ u.action = a
    BY DEF Outcome, Blank
  <2>3. QED
    BY <1>2, <1>8, <2>1, <2>2, BlankWhole DEF PushPC, Asserts, HoldsRow
<1>9. CASE /\ UNCHANGED <<cursor, pushed>> /\ t.todo # <<>>
           /\ pushed[<<Home, i>>] # NotPushed /\ Become(p, NextItem(t, "noop_unchanged"))
  <2>1. Whole(cursor', pushed', NextItem(t, "noop_unchanged"))
    BY <1>1, <1>3, <1>9, NextWhole
  <2>2. QED
    BY <1>2, <1>9, <2>1 DEF HoldsRow
<1>10. ASSUME UNCHANGED pushed, RowAside(i), t.todo # <<>>, pushed[<<Home, i>>] = NotPushed,
              NEW pc \in {"find", "create", "revise", "poll"}, NEW d, Become(p, Ask(t, pc, d))
       PROVE  Whole(cursor', pushed', task'[p])
  <2> DEFINE u == Ask(t, pc, d)
  <2>1. u.pc = pc /\ u.ref = t.ref /\ u.todo = t.todo
    BY <1>1, AskFields
  <2>2. u.pc \in PushPC
    BY <2>1 DEF PushPC
  <2> HIDE DEF u
  <2>3. \A j \in Deps : /\ pushed'[<<Home, j>>] # NotPushed => cursor'[j] # NoRow
                        /\ cursor'[j] # NoRow \/ ToPush(t, j)
    BY <1>1, <1>3, <1>5, <1>10 DEF RowAside
  <2>4. Whole(cursor', pushed', u)
    BY <2>1, <2>2, <2>3, SameWhole
  <2>5. QED
    BY <1>2, <1>10, <2>4 DEF u
<1>11. ASSUME UNCHANGED pushed, RowAside(i), t.todo # <<>>, Policy[i].on_new = "skip",
              Become(p, NextItem(t, "skipped_new"))
       PROVE  Whole(cursor', pushed', task'[p])
  <2>1. i \notin Deps
    BY <1>1, <1>11 DEF DependentsCreated
  <2>2. \A j \in Deps : /\ pushed'[<<Home, j>>] # NotPushed => cursor'[j] # NoRow
                        /\ cursor'[j] # NoRow \/ ToPush(t, j)
                        /\ j = i => cursor'[j] # NoRow
    BY <1>1, <1>3, <1>11, <2>1 DEF RowAside
  <2>3. Whole(cursor', pushed', NextItem(t, "skipped_new"))
    BY <1>1, <1>11, <2>2, NextWhole
  <2>4. QED
    BY <1>2, <1>11, <2>3
<1>12. RowAside(i) => \A j \in Items \ Primary : j # i => HoldsRow(j)
  BY DEF RowAside, HoldsRow
<1>13. ASSUME UNCHANGED <<cursor, pushed>>, t.todo # <<>>, NEW row,
              Become(p, [Ask(t, "item", NoDoc) EXCEPT !.before = row])
       PROVE  /\ Whole(cursor', pushed', task'[p])
              /\ \A j \in Items \ Primary : j # i => HoldsRow(j)
  <2> DEFINE u == [Ask(t, "item", NoDoc) EXCEPT !.before = row]
  <2>1. u.pc = "item" /\ u.ref = t.ref /\ u.todo = t.todo
    BY <1>1 DEF Ask, Task
  <2>2. u.pc \in PushPC
    BY <2>1 DEF PushPC
  <2>3. task'[p] = u
    BY <1>2, <1>13
  <2> HIDE DEF u
  <2>4. Whole(cursor', pushed', u)
    BY <1>3, <1>13, <2>1, <2>2, SameWhole
  <2>5. QED
    BY <1>13, <2>3, <2>4 DEF HoldsRow
<1>14. QED
  BY <1>6, <1>7, <1>8, <1>9, <1>10, <1>11, <1>12, <1>13 DEF Pushes

\* What is fetched leaves no dependent out.
LEMMA ServedWhole ==
    ASSUME Mirroring, NEW p \in Tasks, task[p].pc \in PushPC, Serve(p),
           Whole(cursor, pushed, task[p])
    PROVE  Whole(cursor', pushed', task'[p])
<1> DEFINE t == task[p]
           Deps == Family(t.ref) \ Primary
<1>1. t \in Task /\ t.ref \in Primary /\ t.ref \in Items /\ task \in [Tasks -> Task]
  BY PushFacts, TaskFacts DEF Mirroring, Base, TypedSync, TasksOK
<1>2. UNCHANGED <<cursor, pushed>>
  BY DEF Serve, ServeFind, ServeFetch, ServeCreate, ServeRevise, ServeDelete, Waits
<1>3. \A j \in Deps : /\ pushed'[<<Home, j>>] # NotPushed => cursor'[j] # NoRow
                      /\ t.todo # <<>> => cursor'[j] # NoRow \/ ToPush(t, j)
  BY <1>2 DEF Whole, WholeIn
<1>4. ASSUME NEW a, NEW d, Reply(p, a, d)
      PROVE  Whole(cursor', pushed', task'[p])
  <2> DEFINE u == [t EXCEPT !.answer = a, !.got = d]
  <2>1. u.pc = t.pc /\ u.ref = t.ref /\ u.todo = t.todo
    BY <1>1 DEF Task
  <2>2. task'[p] = u
    BY <1>1, <1>4 DEF Reply
  <2> HIDE DEF u
  <2>3. Whole(cursor', pushed', u)
    BY <1>3, <2>1, SameWhole
  <2>4. QED
    BY <2>2, <2>3
<1>5. ASSUME Become(p, [t EXCEPT !.answer = "fetched", !.todo = Fetched(t)])
      PROVE  Whole(cursor', pushed', task'[p])
  <2> DEFINE u == [t EXCEPT !.answer = "fetched", !.todo = Fetched(t)]
  <2>1. u.pc = t.pc /\ u.ref = t.ref /\ u.todo = Fetched(t)
    BY <1>1 DEF Task
  <2>2. task'[p] = u
    BY <1>1, <1>5 DEF Become
  <2> HIDE DEF u
  <2>3. ASSUME NEW j \in Deps
        PROVE  ToPush(u, j)
    <3>1. PICK k \in 1 .. Len(Dependents[t.ref]) : j = Dependents[t.ref][k]
      BY <1>1 DEF Family
    <3> DEFINE todo == Fetched(t)
    <3>2. PICK m \in 1 .. Len(todo) : todo[m].item = j
      BY <1>1, <3>1, FetchedWhole
    <3> HIDE DEF todo
    <3>3. QED
      BY <2>1, <3>2 DEF ToPush, todo
  <2>4. Whole(cursor', pushed', u)
    BY <1>3, <2>1, <2>3 DEF Whole, WholeIn, PushPC
  <2>5. QED
    BY <2>2, <2>4
<1>6. QED
  BY <1>4, <1>5 DEF Serve, ServeFind, ServeFetch, ServeCreate, ServeRevise, ServeDelete

\* What deletes, or deleted, pushes nothing and says that it pushed nothing.
LEMMA PlainWhole ==
    ASSUME TypeInv, NEW p \in Tasks, task[p].pc \notin PushPC, Run(p) \/ Serve(p)
    PROVE  Whole(cursor', pushed', task'[p])
<1> DEFINE t == task[p]
<1>1. t \in Task /\ task \in [Tasks -> Task]
  BY TaskFacts DEF TasksOK
<1>2. \A v : Become(p, v) => task'[p] = v
  BY <1>1 DEF Become
<1>3. task'[p].pc \notin PushPC
      /\ (task'[p].pc # "done" \/ task'[p].action \notin {"created", "replaced"})
  <2>1. CASE Run(p)
    <3>1. ResumeDeleteLookup(p) \/ ResumeDelete(p) \/ DeletePoll(p)
      BY <2>1 DEF Run, ResumeLookup, ResumeFetch, PushItem, ResumeFind, ResumeCreate, ResumeRevise,
         Poll, PollTimeout, Resumes, PushPC
    <3>2. \/ \E a : a \notin Asserts /\ Become(p, Outcome(t, a, FALSE))
          \/ \E pc \in {"delete", "dpoll"} : \E d : Become(p, Ask(t, pc, d))
      BY <3>1 DEF ResumeDeleteLookup, ResumeDelete, DeletePoll, StartReap, Reaped, Raise, Asserts
    <3>3. \A a : Outcome(t, a, FALSE).pc = "done" /\ Outcome(t, a, FALSE).action = a
      BY DEF Outcome, Blank
    <3>4. \A pc, d : Ask(t, pc, d).pc = pc
      BY <1>1, AskFields
    <3>5. CASE \E a : a \notin Asserts /\ Become(p, Outcome(t, a, FALSE))
      <4>1. PICK a : a \notin Asserts /\ Become(p, Outcome(t, a, FALSE))
        BY <3>5
      <4>2. task'[p] = Outcome(t, a, FALSE)
        BY <1>2, <4>1
      <4>3. QED
        BY <3>3, <4>1, <4>2 DEF PushPC, Asserts
    <3>6. CASE \E pc \in {"delete", "dpoll"} : \E d : Become(p, Ask(t, pc, d))
      <4>1. PICK pc, d : pc \in {"delete", "dpoll"} /\ Become(p, Ask(t, pc, d))
        BY <3>6
      <4>2. task'[p] = Ask(t, pc, d)
        BY <1>2, <4>1
      <4>3. QED
        BY <3>4, <4>1, <4>2 DEF PushPC
    <3>7. QED
      BY <3>2, <3>5, <3>6
  <2>2. CASE Serve(p)
    <3>1. t.pc \in {"dlookup", "delete"} /\ \E a, d : Reply(p, a, d)
      BY <2>2 DEF Serve, ServeFind, ServeFetch, ServeCreate, ServeRevise, ServeDelete, Waits, PushPC
    <3>2. task'[p].pc = t.pc
      BY <1>1, <3>1 DEF Reply, Task
    <3>3. QED
      BY <3>1, <3>2 DEF PushPC
  <2>3. QED
    BY <2>1, <2>2
<1>4. QED
  BY <1>3, BlankWhole

\* The rows of the dependents of the other calls stay.
LEMMA OthersHoldRows ==
    ASSUME MirrorConditions, SweepConditions, DependentsCreated, Trust, WholeInv,
           NEW p \in Tasks, Run(p) \/ Serve(p),
           NEW q \in Tasks \ {p}, q # Reaper, task[q].pc # "idle"
    PROVE  \A j \in Family(task[q].ref) \ Primary : HoldsRow(j)
<1>1. task[q].ref \in Items /\ Family(task[q].ref) \subseteq Items
  BY TaskFacts, FamilyItems DEF Trust, MirrorInv, Mirroring, Base, TypedSync
<1>2. CASE Serve(p)
  BY <1>2 DEF Serve, ServeFind, ServeFetch, ServeCreate, ServeRevise, ServeDelete, Waits, HoldsRow
<1>3. CASE Run(p) /\ task[p].pc \in PushPC
  <2>1. p # Reaper /\ task[p].pc # "idle" /\ Subject(task[p]) \in Family(task[p].ref)
    BY <1>3, PushFacts, Pushers DEF Trust, MirrorInv
  <2>2. Subject(task[p]) \notin Family(task[q].ref)
    BY <2>1, CallsApart DEF Trust
  <2>3. Pushes(p)
    BY <1>3, PushForms DEF Trust, MirrorInv, TruthInv
  <2>4. \A j \in Items \ Primary : j # Subject(task[p]) => HoldsRow(j)
    BY <1>3, <2>1, <2>3, PushWhole DEF Trust, MirrorInv, WholeInv
  <2>5. QED
    BY <1>1, <2>2, <2>4
<1>4. CASE Run(p) /\ task[p].pc \notin PushPC
  <2>1. ResumeDeleteLookup(p) \/ ResumeDelete(p) \/ DeletePoll(p)
    BY <1>4 DEF Run, ResumeLookup, ResumeFetch, PushItem, ResumeFind, ResumeCreate, ResumeRevise,
       Poll, PollTimeout, Resumes, PushPC
  <2>2. task[p].ref \in Primary
    BY <2>1 DEF ResumeDeleteLookup, ResumeDelete, DeletePoll, Resumes, Trust, MirrorInv, Mirroring,
       Base, GoneInv, DeletesGone, Deleting, Gone
  <2>3. UNCHANGED cursor \/ Delete(task[p].ref)
    BY <2>1 DEF ResumeDeleteLookup, ResumeDelete, DeletePoll, Reaped, Raise
  <2>4. cursor \in [Items -> Row \cup {NoRow}]
    BY DocFacts DEF Trust, MirrorInv, Mirroring
  <2>5. QED
    BY <1>1, <2>2, <2>3, <2>4 DEF Delete, HoldsRow
<1>5. QED
  BY <1>2, <1>3, <1>4

\* A call that nothing was done with or to.
LEMMA StillWhole ==
    ASSUME SweepInv, Silent(task[Reaper]), WholeInv, NEW q \in Tasks, task'[q] = task[q],
           task[q].pc \in PushPC => \A j \in Family(task[q].ref) : CacheKept(j),
           q # Reaper /\ task[q].pc # "idle"
              => \A j \in Family(task[q].ref) \ Primary : HoldsRow(j)
    PROVE  Whole(cursor', pushed', task'[q])
<1> DEFINE t == task[q]
<1>1. CASE q = Reaper
  <2>1. t.pc \notin PushPC /\ (t.pc # "done" \/ t.action \notin {"created", "replaced"})
    BY <1>1 DEF SweepInv, Deletes, PushPC, Silent, Asserts
  <2>2. QED
    BY <2>1, BlankWhole
<1>2. CASE q # Reaper
  BY <1>2 DEF WholeInv, Whole, WholeIn, CacheKept, HoldsRow, PushPC
<1>3. QED
  BY <1>1, <1>2

-----------------------------------------------------------------------------
(* The steps of sweeps.                                                    *)

LEMMA GoingWhole ==
    ASSUME MirrorConditions, SweepConditions, DependentsCreated, Trust, WholeInv,
           NEW p \in Tasks, Run(p) \/ Serve(p)
    PROVE  WholeInv'
<1>1. /\ \A q \in Tasks \ {p} : task'[q] = task[q]
      /\ \A q \in Tasks \ {p} : task[q].pc \in PushPC => \A j \in Family(task[q].ref) : CacheKept(j)
  BY OthersStay
<1>2. \A q \in Tasks \ {p} : Whole(cursor', pushed', task'[q])
  BY <1>1, OthersHoldRows, StillWhole DEF Trust, TruthInv
<1>3. Whole(cursor', pushed', task'[p])
  <2>1. Whole(cursor, pushed, task[p]) /\ TypeInv /\ Mirroring
    BY DEF WholeInv, Trust, MirrorInv, Mirroring, Base, TypedSync
  <2>2. CASE task[p].pc \notin PushPC
    BY <2>1, <2>2, PlainWhole
  <2>3. CASE task[p].pc \in PushPC /\ Run(p)
    <3>1. Pushes(p)
      BY <2>3, PushForms DEF Trust, MirrorInv, TruthInv
    <3>2. Subject(task[p]) \in Family(task[p].ref)
      BY <2>1, <2>3, PushFacts, Pushers DEF Trust
    <3>3. QED
      BY <2>1, <2>3, <3>1, <3>2, PushWhole
  <2>4. CASE task[p].pc \in PushPC /\ Serve(p)
    BY <2>1, <2>4, ServedWhole
  <2>5. QED
    BY <2>2, <2>3, <2>4
<1>4. QED
  BY <1>2, <1>3 DEF WholeInv

\* Nothing is done but to one call.
LEMMA OneWhole ==
    ASSUME Trust, WholeInv, UNCHANGED <<cursor, pushed>>, NEW p \in Tasks,
           NEW u, Become(p, u), Whole(cursor, pushed, u)
    PROVE  WholeInv'
<1>1. task \in [Tasks -> Task]
  BY DEF Trust, MirrorInv, Mirroring, Base, TypedSync, TypeInv, Local, TasksOK
<1>2. \A q \in Tasks : task'[q] = IF q = p THEN u ELSE task[q]
  BY <1>1 DEF Become
<1>3. \A q \in Tasks \ {p} : Whole(cursor', pushed', task'[q])
  BY <1>2, StillWhole DEF Trust, TruthInv, CacheKept, HoldsRow
<1>4. QED
  BY <1>2, <1>3 DEF WholeInv

\* A call is cut, or its outcome taken.
LEMMA EndingWhole ==
    ASSUME Trust, WholeInv, NEW p \in Tasks, Abort(p) \/ Collect(p)
    PROVE  WholeInv'
<1>1. PICK u : Become(p, u) /\ u.pc \notin PushPC /\ (u.pc = "done" => u.action = "error")
  <2>1. LET u == Outcome(task[p], "error", FALSE) IN u.pc = "done" /\ u.action = "error"
    BY DEF Outcome, Blank
  <2>2. Blank(AnItem, NoToken).pc = "idle"
    BY DEF Blank
  <2>3. QED
    BY <2>1, <2>2 DEF Abort, Raise, Collect, PushPC
<1>2. UNCHANGED <<cursor, pushed>>
  BY DEF Abort, Raise, Collect
<1>3. QED
  BY <1>1, <1>2, BlankWhole, OneWhole

\* A coroutine begins to push an item of whose dependents the cache has none.
LEMMA StartWhole ==
    ASSUME SweepConditions, Trust, WholeInv, NEW p \in Slots, StartItem(p)
    PROVE  WholeInv'
<1>1. PICK r \in Queued : PushRef(p, r.item, r.token)
  BY DEF StartItem, Queued
<1> DEFINE i == r.item
           t == Routed(i, r.token)
<1>2. /\ p \in Tasks /\ i \in Primary /\ i \in Items /\ r.token \in Tokens /\ Unpushed(i)
      /\ SourceOK /\ UNCHANGED <<cursor, pushed>>
  BY <1>1, WorkersAssumption, PrimaryAssumption DEF Trust, MirrorInv, QueueInv, Queued, TruthInv, Ahead,
     Mirroring, Base, TypedSync, RefsOK, TypeInv, PushRef, Starts, Tokens, Versions
<1>3. t \in Task /\ t.ref = i /\ t.todo = <<>>
  BY <1>2, RoutedType
<1>4. route[i] # Unrouted /\ TokenUnchanged(t) => Knows(i, route[i])
  <2>1. route[i] \in {Home, Unrouted}
    BY <1>2 DEF Trust, MirrorInv, Mirroring, Base, GoneInv, RoutesHome, Anywhere
  <2>2. QED
    BY <1>2, <1>3, <2>1 DEF TokenUnchanged, Knows, Trust, MirrorInv, Mirroring, RowInv, GoodRow
<1> HIDE DEF t
<1>5. \/ \E a \in {"unrouted", "noop_unchanged"} : Become(p, Outcome(t, a, FALSE))
      \/ Become(p, Ask(t, "fetch", NoDoc))
  BY <1>1, <1>4 DEF PushRef, t
<1>6. ASSUME NEW a \in {"unrouted", "noop_unchanged"}
      PROVE  Whole(cursor, pushed, Outcome(t, a, FALSE))
  <2>1. LET u == Outcome(t, a, FALSE) IN u.pc = "done" /\ u.action = a
    BY DEF Outcome, Blank
  <2>2. QED
    BY <2>1, BlankWhole DEF PushPC
<1>7. Whole(cursor, pushed, Ask(t, "fetch", NoDoc))
  <2> DEFINE u == Ask(t, "fetch", NoDoc)
  <2>1. u.pc = "fetch" /\ u.ref = i /\ u.todo = <<>>
    BY <1>3, AskFields
  <2> HIDE DEF u, i
  <2>2. Whole(cursor, pushed, u)
    BY <1>2, <2>1 DEF Whole, WholeIn, Unpushed
  <2>3. QED
    BY <2>2 DEF u
<1>8. QED
  BY <1>2, <1>5, <1>6, <1>7, OneWhole

\* The reaper begins to delete.
LEMMA ReapWhole ==
    ASSUME Trust, WholeInv, NEW d \in DocIds, Reap(d)
    PROVE  WholeInv'
<1> DEFINE i == docs[d].key
           t == [Blank(i, NoToken) EXCEPT !.home = docs[d].lib, !.lib = docs[d].lib]
<1>1. ReapOrphan(Reaper, i, d) /\ UNCHANGED <<cursor, pushed>> /\ Reaper \in Tasks
  BY WorkersAssumption DEF Reap, ReapOrphan, Starts
<1>2. PICK u : /\ Become(Reaper, u) /\ u.action \in {"none", "skipped_missing"}
               /\ u.pc \in {"delete", "done"}
  <2>1. \/ Become(Reaper, Outcome(t, "skipped_missing", FALSE))
        \/ Become(Reaper, Ask(t, "delete", d))
    BY <1>1 DEF ReapOrphan, StartReap
  <2>2. LET n == Ask(t, "delete", d) IN n.action = "none" /\ n.pc = "delete"
    BY DEF Ask, Blank
  <2>3. LET n == Outcome(t, "skipped_missing", FALSE)
        IN  n.action = "skipped_missing" /\ n.pc = "done"
    BY DEF Outcome, Blank
  <2> HIDE DEF t
  <2>4. QED
    BY <2>1, <2>2, <2>3
<1>3. Whole(cursor, pushed, u)
  BY <1>2, BlankWhole DEF PushPC
<1>4. QED
  BY <1>1, <1>2, <1>3, OneWhole

\* Nothing is done with the calls, and no row is lost.
LEMMA RestWhole ==
    ASSUME Trust, WholeInv, UNCHANGED task, \A j \in Items : HoldsRow(j),
           UNCHANGED pushed \/ \A j \in Items : pushed'[<<Home, j>>] = NotPushed
    PROVE  WholeInv'
<1>1. \A q \in Tasks : task[q].ref \in Items
  BY TaskFacts DEF Trust, MirrorInv, Mirroring, Base, TypedSync
<1>2. \A q \in Tasks : Family(task[q].ref) \subseteq Items
  BY <1>1, FamilyItems
<1>3. \A j \in Items : CacheKept(j)
  BY DEF CacheKept
<1>4. \A q \in Tasks : Whole(cursor', pushed', task'[q])
  BY <1>2, <1>3, StillWhole DEF Trust, TruthInv
<1>5. QED
  BY <1>4 DEF WholeInv

LEMMA SeedHoldsRows ==
    ASSUME MirrorConditions, Trust, NEW d \in DocIds, Seed(d)
    PROVE  \A j \in Items : HoldsRow(j)
<1> DEFINE i == docs[d].key
           row == [token |-> NoToken, doc |-> KeptDoc(i, d), lib |-> docs[d].lib]
<1>1. /\ i \in Items /\ docs[d].lib \in Libraries /\ cursor \in [Items -> Row \cup {NoRow}]
      /\ cursor' = [cursor EXCEPT ![i] = row]
  <2>1. docs[d].state = "active"
    BY DEF Seed, Active
  <2>2. docs[d].lib = Home /\ Home \in Libraries
    BY <2>1, HomeFacts DEF Trust, MirrorInv, Mirroring, Base, GoneInv, DocsHome, MirrorConditions
  <2>3. QED
    BY <2>2, DocFacts DEF Seed, Upsert, Trust, MirrorInv, Mirroring
<1>2. row \in Row
  BY <1>1, NoDocAssumption DEF KeptDoc, Row, Tokens
<1> HIDE DEF row, i
<1>3. QED
  BY <1>1, <1>2, RowAssumption DEF HoldsRow

\* A sweep is cancelled, and its calls are cut.
LEMMA CancelWhole ==
    ASSUME Trust, WholeInv, CancelSweep
    PROVE  WholeInv'
<1>1. /\ \A p \in Tasks : task'[p] = task[p] \/ task'[p].pc = "idle"
      /\ UNCHANGED <<cursor, pushed>>
  <2>1. Blank(AnItem, NoToken).pc = "idle"
    BY DEF Blank
  <2>2. QED
    BY <2>1 DEF CancelSweep, Cut
<1>2. ASSUME NEW p \in Tasks
      PROVE  Whole(cursor', pushed', task'[p])
  <2>1. CASE task'[p] = task[p]
    BY <1>1, <2>1, StillWhole DEF Trust, TruthInv, CacheKept, HoldsRow
  <2>2. CASE task'[p].pc = "idle"
    BY <2>2, BlankWhole DEF PushPC
  <2>3. QED
    BY <1>1, <2>1, <2>2
<1>3. QED
  BY <1>2 DEF WholeInv

\* Every step of sweeps that keep apart.
LEMMA WholeStep ==
    ASSUME MirrorConditions, SweepConditions, DependentsCreated, Trust, WholeInv, Stepping
    PROVE  WholeInv'
<1>1. ASSUME UNCHANGED <<cursor, task, pushed>>
      PROVE  WholeInv'
  BY <1>1, RestWhole DEF HoldsRow
<1>2. CASE StartSweep
  <2>1. UNCHANGED <<cursor, task>>
    BY <1>2 DEF StartSweep, ResetSweepCache
  <2>2. \A j \in Items : pushed'[<<Home, j>>] = NotPushed
    <3>1. Home \in Libraries
      BY HomeFacts DEF MirrorConditions
    <3>2. QED
      BY <1>2, <3>1 DEF StartSweep, ResetSweepCache
  <2>3. QED
    BY <2>1, <2>2, RestWhole DEF HoldsRow
<1>3. ASSUME NEW p \in Tasks, Abort(p) \/ Collect(p)
      PROVE  WholeInv'
  BY <1>3, EndingWhole
<1>4. CASE Sweep
  <2>1. CASE StartReaping \/ EndLibrary \/ (\E i \in Items : Enumerate(i))
             \/ \E l \in Libraries : ListLibrary(l)
    BY <1>1, <2>1 DEF StartReaping, EndLibrary, Enumerate, ListLibrary, vars
  <2>2. ASSUME NEW p \in Slots, EndItem(p)
        PROVE  WholeInv'
    BY <1>3, <2>2, WorkersAssumption DEF EndItem
  <2>3. QED
    BY <1>2, <1>4, <2>1, <2>2, StartWhole, ReapWhole DEF Sweep, SweepGoesOn
<1>5. CASE ReapingFails \/ EnumerationFails \/ CancelSweep
  BY <1>1, <1>3, <1>5, CancelWhole, WorkersAssumption DEF ReapingFails, EnumerationFails
<1>6. CASE Restart
  <2>1. \A p \in Tasks : task'[p].pc = "idle"
    <3>1. \A i : Blank(i, NoToken).pc = "idle"
      BY DEF Blank
    <3>2. QED
      BY <1>6, <3>1 DEF Restart, Crash
  <2>2. QED
    BY <2>1, BlankWhole DEF WholeInv, PushPC
<1>7. ASSUME NEW p \in Tasks, Proceed(p)
      PROVE  WholeInv'
  BY <1>3, <1>7, GoingWhole DEF Proceed
<1>8. \A p \in Tasks : ~Hook(p)
  BY DEF Hook, SweepConditions
<1>9. CASE Source \/ Service
  BY <1>1, <1>9 DEF Source, Edit, Vanish, Reroute, Service, Remove, Settle, Misfire
<1>10. ASSUME NEW d \in DocIds, Seed(d)
       PROVE  WholeInv'
  BY <1>10, SeedHoldsRows, RestWhole DEF Seed
<1>11. CASE UNCHANGED allVars \/ \E l \in Libraries : SkipLibrary(l)
  BY <1>1, <1>11 DEF SkipLibrary, allVars, vars
<1>12. QED
  BY <1>3, <1>4, <1>5, <1>6, <1>7, <1>8, <1>9, <1>10, <1>11
     DEF SyncNext, SweepFails, Beside, Seeder, Stepping

LEMMA WholeStart ==
    ASSUME SyncInit
    PROVE  WholeInv
<1>1. \A p \in Tasks : task[p].pc = "idle"
  <2>1. \A i : Blank(i, NoToken).pc = "idle"
    BY DEF Blank
  <2>2. QED
    BY <2>1 DEF SyncInit, Init
<1>2. QED
  BY <1>1, BlankWhole DEF WholeInv, PushPC

\* Rows there are, and rows name documents.
LEMMA WholeTells ==
    ASSUME Trust, WholeInv
    PROVE  CompletePush
<1> SUFFICES ASSUME NEW p \in Tasks, Reported(p, {"created", "replaced"}),
                    NEW k \in DOMAIN Dependents[task[p].ref]
             PROVE  LET i == Dependents[task[p].ref][k]
                    IN  Has(i) /\ cursor[i].doc # NoDoc
  BY DEF CompletePush
<1> DEFINE j == Dependents[task[p].ref][k]
<1>1. task[p].ref \in Items
  BY TaskFacts DEF Trust, MirrorInv, Mirroring, Base, TypedSync
<1>2. Dependents[task[p].ref] \in Seq(Items)
  BY <1>1, DependentsAssumption
<1>3. k \in 1 .. Len(Dependents[task[p].ref]) /\ j \in Items \ Primary
  BY <1>1, <1>2, PrimaryAssumption, LenProperties, ElementOfSeq
<1>4. Has(j)
  BY <1>3 DEF Reported, WholeInv, Whole, WholeIn, Family, Has
<1>5. QED
  BY <1>3, <1>4 DEF Trust, MirrorInv, Mirroring, RowInv, GoodRow

\* A parent that is reported created or replaced has every dependent in the
\* cursor with a document, where dependents that are new are created: a
\* dependent the sweep cache makes a call pass over got its row in this sweep,
\* and rows of dependents outlive the calls, though a revision that finds its
\* document gone drops the row of the item it pushes.
THEOREM PushesComplete ==
    ASSUME MirrorConditions, SweepConditions, DependentsCreated
    PROVE  ApartSpec => []CompletePush
<1>1. ApartSpec => []Trust
  BY TrustInvariant
<1>2. SyncInit => WholeInv
  BY WholeStart
<1>3. Trust /\ WholeInv /\ [ApartNext]_allVars => WholeInv'
  <2> SUFFICES ASSUME Trust, WholeInv, [ApartNext]_allVars
               PROVE  WholeInv'
    OBVIOUS
  <2>1. Stepping
    BY ApartSteps DEF Trust, MirrorInv, Mirroring, Base, TypedSync
  <2>2. QED
    BY <2>1, WholeStep
<1>4. Trust /\ WholeInv => CompletePush
  BY WholeTells
<1>5. QED
  BY <1>1, <1>2, <1>3, <1>4, PTL DEF ApartSpec
=============================================================================
