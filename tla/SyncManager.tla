----------------------------- MODULE SyncManager -----------------------------
(***************************************************************************)
(* sync.py: the single-flight sweep and its orphan reaper, composed with   *)
(* the Orchestrator whose push_ref and reap_orphan they call, and with the *)
(* webhook handlers that call push_ref and delete_by_ref beside them.      *)
(*                                                                         *)
(* A sweep's item coroutines take permits of the sweep's own semaphore.    *)
(* The ones a failed enumeration leaves behind keep running: they are the  *)
(* strays.  A cancelled sweep takes its own down with it.  The source has  *)
(* one primary kind, and its dependents are of other kinds.                *)
(***************************************************************************)
EXTENDS Orchestrator

CONSTANTS
    Primary,        \* items of the primary kinds: what iter_items yields
    Slots,          \* tasks that item coroutines run in
    Permits,        \* SYNC_CONCURRENCY: permits of one sweep's semaphore
    Hooks,          \* tasks that webhook handlers run in
    Reaper          \* the task the reaper's serial calls run in

ASSUME PrimaryAssumption ==
    /\ Primary \subseteq Items
    /\ \A i, j \in Primary : Policy[i] = Policy[j]
    /\ \A i \in Items : \A k \in DOMAIN Dependents[i] : Dependents[i][k] \notin Primary
ASSUME PermitsAssumption == Permits \in Nat \ {0}
ASSUME WorkersAssumption == /\ Tasks = Slots \cup Hooks \cup {Reaper}
                            /\ Slots \cap Hooks = {}
                            /\ Reaper \notin Slots \cup Hooks

VARIABLES
    phase,          \* where the sweep that holds the run lock is, or "idle"
    unlisted,       \* items iter_items has still to come to
    waiting,        \* enumerated references whose coroutine waits for a permit
    strays,         \* the same, of sweeps that ended before them
    owner,          \* whose coroutine a slot runs
    seen,           \* items the sweep enumerated
    targets,        \* seen_targets: libraries a push of this sweep ended in
    snapshot,       \* pre_sweep_cursor_libs
    scan,           \* libraries the reaper has still to list
    orphans         \* listed documents the reaper has still to delete

sweepVars == <<phase, unlisted, waiting, strays, owner, seen, targets,
               snapshot, scan, orphans>>
allVars   == <<vars, sweepVars>>

Ref == [item : Items, token : Tokens]

SyncTypeOK ==
    /\ TypeOK
    /\ phase \in {"idle", "sweeping", "listing", "reaping"}
    /\ unlisted \subseteq Primary
    /\ waiting \subseteq Ref /\ strays \subseteq Ref
    /\ owner \in [Slots -> {"none", "sweep", "stray"}]
    /\ seen \subseteq Items
    /\ targets \in [Items -> SUBSET Libraries]
    /\ snapshot \subseteq Libraries /\ scan \subseteq Libraries
    /\ orphans \subseteq DocIds

NoTargets == [i \in Items |-> {}]

SyncInit ==
    /\ Init
    /\ phase = "idle"
    /\ unlisted = {} /\ waiting = {} /\ strays = {}
    /\ owner = [p \in Slots |-> "none"]
    /\ seen = {} /\ targets = NoTargets
    /\ snapshot = {} /\ scan = {} /\ orphans = {}

-----------------------------------------------------------------------------
(* run_once: enumeration and the pushes it starts.                         *)

Running(kind) == {p \in Slots : owner[p] = kind}

\* The run lock is taken, the sweep cache cleared, the cursor's libraries noted.
StartSweep ==
    /\ phase = "idle"
    /\ ResetSweepCache
    /\ phase' = "sweeping"
    /\ unlisted' = Primary
    /\ snapshot' = {cursor[i].lib : i \in {j \in Primary : Has(j)}}
    /\ seen' = {} /\ targets' = NoTargets
    /\ UNCHANGED <<waiting, strays, owner, scan, orphans>>

\* iter_items comes to i, and yields it if the source still has it.
Enumerate(i) ==
    /\ phase = "sweeping"
    /\ i \in unlisted
    /\ LoopIdle
    /\ unlisted' = unlisted \ {i}
    /\ waiting' = waiting \cup {[item |-> j, token |-> version[j]] :
                                  j \in {i} \cap {x \in Items : live[x]}}
    /\ seen' = seen \cup ({i} \cap {x \in Items : live[x]})
    /\ UNCHANGED <<vars, phase, strays, owner, targets, snapshot, scan, orphans>>

\* iter_items raises, perhaps when it has yielded all there is: no reaping, and
\* the coroutines started are left running.
EnumerationFails ==
    /\ phase = "sweeping"
    /\ LoopIdle
    /\ Fault
    /\ phase' = "idle"
    /\ unlisted' = {} /\ waiting' = {}
    /\ strays' = strays \cup waiting
    /\ owner' = [p \in Slots |-> IF owner[p] = "sweep" THEN "stray" ELSE owner[p]]
    /\ UNCHANGED <<srcVars, cursor, pushed, task, ragVars,
                   seen, targets, snapshot, scan, orphans>>

\* The calls that belong to the sweep: its coroutines', and the reaper's.
SweepCalls == Running("sweep") \cup (IF phase = "reaping" THEN {Reaper} ELSE {})

\* The calls P are cut at their awaits and nobody takes their outcomes.
Cut(P) == task' = [p \in Tasks |-> IF p \in P THEN Blank(AnItem, NoToken) ELSE task[p]]

\* run_once is cancelled: it cancels its coroutines, awaits them and frees the
\* lock.  The process, the sweep cache, strays and webhooks go on.
CancelSweep ==
    /\ phase # "idle"
    /\ LoopIdle
    /\ Fault
    /\ Cut(SweepCalls)
    /\ phase' = "idle"
    /\ unlisted' = {} /\ waiting' = {}
    /\ owner' = [p \in Slots |-> IF owner[p] = "sweep" THEN "none" ELSE owner[p]]
    /\ seen' = {} /\ targets' = NoTargets
    /\ snapshot' = {} /\ scan' = {} /\ orphans' = {}
    /\ UNCHANGED <<srcVars, cursor, pushed, ragVars, strays>>

\* A waiting coroutine gets a permit and calls push_ref.
StartItem(p) ==
    /\ p \in Slots
    /\ owner[p] = "none"
    /\ \/ /\ Cardinality(Running("sweep")) < Permits
          /\ \E r \in waiting : /\ PushRef(p, r.item, r.token)
                                /\ waiting' = waiting \ {r}
          /\ owner' = [owner EXCEPT ![p] = "sweep"]
          /\ UNCHANGED strays
       \/ /\ Cardinality(Running("stray")) < Permits
          /\ \E r \in strays : /\ PushRef(p, r.item, r.token)
                               /\ strays' = strays \ {r}
          /\ owner' = [owner EXCEPT ![p] = "stray"]
          /\ UNCHANGED waiting
    /\ UNCHANGED <<phase, unlisted, seen, targets, snapshot, scan, orphans>>

\* _record_seen_target: the library of an outcome that established one.
Established(t) ==
    IF t.action \in {"error", "unrouted", "fetch_returned_none",
                     "skipped_missing", "deleted"}
    THEN {} ELSE {t.home}

\* push_ref returned or raised: the permit is given back.
EndItem(p) ==
    /\ p \in Slots
    /\ owner[p] # "none"
    /\ Collect(p)
    /\ owner' = [owner EXCEPT ![p] = "none"]
    /\ targets' = IF owner[p] = "sweep"
                  THEN [targets EXCEPT ![task[p].ref] = @ \cup Established(task[p])]
                  ELSE targets
    /\ UNCHANGED <<phase, unlisted, waiting, strays, seen, snapshot, scan, orphans>>

-----------------------------------------------------------------------------
(* _reap.                                                                  *)

\* Router.target_libraries: every library a rule names, whether or not an item
\* goes there now.
RouterTargets == {L \in SUBSET (Targets \ {Unrouted}) :
                     {route[i] : i \in Items} \ {Unrouted} \subseteq L}

Reaps == \A i \in Primary : Policy[i].on_missing = "delete"

\* Mutant of StartReaping: the coroutines that have a permit are not waited for.
ReapAtOnce ==
    /\ phase = "sweeping"
    /\ unlisted = {} /\ waiting = {}
    /\ LoopIdle
    /\ phase' = "listing"
    /\ \E L \in RouterTargets : scan' = IF Reaps THEN L \cup snapshot ELSE {}
    /\ UNCHANGED <<vars, unlisted, waiting, strays, owner, seen, targets, snapshot, orphans>>

\* Every coroutine of the sweep has ended: the libraries to look through.
StartReaping ==
    /\ phase = "sweeping"
    /\ unlisted = {} /\ waiting = {} /\ Running("sweep") = {}
    /\ LoopIdle
    /\ phase' = "listing"
    /\ \E L \in RouterTargets : scan' = IF Reaps THEN L \cup snapshot ELSE {}
    /\ UNCHANGED <<vars, unlisted, waiting, strays, owner, seen, targets, snapshot, orphans>>

\* Mutant of Expected: no target is taken for another target.
ExpectedWhereSeen(i, l) == i \in seen /\ l \in targets[i]

\* _document_still_expected
Expected(i, l) == i \in seen /\ (targets[i] = {} \/ l \in targets[i])

\* _list_by_prefix of one library; what is not expected there is an orphan.
ListLibrary(l) ==
    /\ phase = "listing"
    /\ l \in scan
    /\ LoopIdle
    /\ scan' = scan \ {l}
    /\ phase' = "reaping"
    /\ orphans' = {d \in DocIds : /\ Active(d) /\ docs[d].lib = l
                                  /\ docs[d].key \in Primary
                                  /\ ~Expected(docs[d].key, l)}
    /\ UNCHANGED <<vars, unlisted, waiting, strays, owner, seen, targets, snapshot>>

\* The listing times out or fails: the library is left for another sweep.
SkipLibrary(l) ==
    /\ phase = "listing"
    /\ l \in scan
    /\ LoopIdle
    /\ Fault
    /\ scan' = scan \ {l}
    /\ UNCHANGED <<srcVars, cursor, pushed, task, ragVars, phase, unlisted,
                   waiting, strays, owner, seen, targets, snapshot, orphans>>

Reap(d) ==
    /\ phase = "reaping"
    /\ d \in orphans
    /\ ReapOrphan(Reaper, docs[d].key, d)
    /\ orphans' = orphans \ {d}
    /\ UNCHANGED <<phase, unlisted, waiting, strays, owner, seen, targets, snapshot, scan>>

\* A transport error, which is no IronRagError, leaves _reap: the sweep ends.
ReapingFails ==
    /\ \/ /\ phase = "listing" /\ scan # {}
          /\ LoopIdle
          /\ Fault
          /\ UNCHANGED <<srcVars, cursor, pushed, task, ragVars>>
       \/ phase = "reaping" /\ Abort(Reaper)
    /\ phase' = "idle"
    /\ scan' = {} /\ orphans' = {}
    /\ seen' = {} /\ targets' = NoTargets /\ snapshot' = {}
    /\ UNCHANGED <<unlisted, waiting, strays, owner>>

\* The library is done; the last one ends the sweep and frees the lock.
EndLibrary ==
    /\ \/ phase = "reaping" /\ orphans = {} /\ task[Reaper].pc = "idle" /\ scan # {}
          /\ phase' = "listing"
          /\ UNCHANGED <<seen, targets, snapshot>>
       \/ /\ \/ phase = "reaping" /\ orphans = {} /\ task[Reaper].pc = "idle"
             \/ phase = "listing"
          /\ scan = {}
          /\ phase' = "idle"
          /\ seen' = {} /\ targets' = NoTargets /\ snapshot' = {}
    /\ LoopIdle
    /\ UNCHANGED <<vars, unlisted, waiting, strays, owner, scan, orphans>>

-----------------------------------------------------------------------------
\* A webhook handler pushes an item at a version it was told of, or deletes one
\* it was told has left.  The telling may be late: the version is an old one, the
\* item has left, or is back.
Hook(p) ==
    /\ p \in Hooks
    /\ \E i \in Primary : \/ \E tok \in Versions : PushRef(p, i, tok)
                          \/ (~live[i] \/ i \in CanReturn) /\ DeleteByRef(p, i)
    /\ UNCHANGED sweepVars

Restart ==
    /\ Crash
    /\ phase' = "idle"
    /\ unlisted' = {} /\ waiting' = {} /\ strays' = {}
    /\ owner' = [p \in Slots |-> "none"]
    /\ seen' = {} /\ targets' = NoTargets
    /\ snapshot' = {} /\ scan' = {} /\ orphans' = {}

SweepGoesOn ==
    \/ StartReaping \/ EndLibrary
    \/ \E i \in Items : Enumerate(i)
    \/ \E l \in Libraries : ListLibrary(l)
    \/ \E d \in DocIds : Reap(d)
    \/ \E p \in Slots : StartItem(p) \/ EndItem(p)

SweepFails == \/ EnumerationFails \/ CancelSweep \/ ReapingFails
              \/ \E l \in Libraries : SkipLibrary(l)

Proceed(p) == /\ Run(p) \/ Serve(p) \/ (p \notin Slots /\ Collect(p))
              /\ UNCHANGED sweepVars

Beside == \/ \E p \in Tasks : Proceed(p) \/ Hook(p) \/ (Abort(p) /\ UNCHANGED sweepVars)
          \/ (Source \/ Service \/ Seeder) /\ UNCHANGED sweepVars
          \/ Restart

Sweep == StartSweep \/ SweepGoesOn

SyncNext == Sweep \/ SweepFails \/ Beside

SyncSpec == SyncInit /\ [][SyncNext]_allVars

\* Sweeps that keep apart: the interval is long enough, and manual sweeps late
\* enough, that none starts while strays of an earlier one are still at work.
\* The code does not see to it.
StraysDone == strays = {} /\ Running("stray") = {}

StartApart == StartSweep /\ StraysDone

ApartNext == StartApart \/ SweepGoesOn \/ SweepFails \/ Beside

ApartSpec == SyncInit /\ [][ApartNext]_allVars

\* run_forever starts a sweep whenever none runs; coroutines, the service and
\* its operations make progress.
Fairness ==
    /\ WF_allVars(StartApart \/ SweepGoesOn)
    /\ \A p \in Tasks : WF_allVars(Proceed(p))
    /\ \A d \in DocIds, k \in OpKeys : WF_allVars(Settle(d, k) /\ UNCHANGED sweepVars)

FairSyncSpec == ApartSpec /\ Fairness

-----------------------------------------------------------------------------
(* What sweeps promise.                                                    *)

\* A call that reported its reference unchanged, created or replaced told the
\* truth: the item's document in that library carries that version or a later
\* one, as long as nobody deletes it.
OutcomeIsTrue ==
    \A p \in Tasks :
        Reported(p, {"noop_unchanged", "created", "replaced"}) =>
            \A d \in Matches(task[p].home, task[p].ref) :
                docs[d].content \in AtLeast(task[p].ref, task[p].token)

\* The states in which a call may still write on behalf of a push, or has left
\* the writing to the next sweep.
PushPC      == {"lookup", "fetch", "item", "find", "create", "revise", "poll"}
Busy(t)     == t.pc \in PushPC \/ (t.pc = "done" /\ t.deferred)
Concerns(t) == {t.ref} \cup {t.todo[k].item : k \in 1 .. Len(t.todo)}

\* No two calls push the same item, or dependents they share, at a time: sweeps
\* "cannot ... push duplicate operations to the same target"
\* (docs/ARCHITECTURE.md).
OneCallPerItem ==
    \A p, q \in Tasks :
        /\ Busy(task[p]) /\ Busy(task[q])
        /\ Concerns(task[p]) \cap Concerns(task[q]) # {}
        => p = q

\* What the source has, IronRAG has, at the version the source has it, and the
\* cursor says so.
Mirrored(i) ==
    IF live[i]
    THEN /\ Has(i) /\ cursor[i].token = version[i]
         /\ Active(cursor[i].doc)
         /\ docs[cursor[i].doc].content = Current(i)
    ELSE \A l \in Libraries : Matches(l, i) = {}

\* Once the source stops changing, sweeps bring IronRAG into line with it and
\* keep it there.
Convergence == <>[](\A i \in Primary : Mirrored(i))
=============================================================================
