# The IronRAG connector framework in TLA+

A verification project for `src/ironrag_connector`, the framework that mirrors
items of a source (a wiki, a ticket system) into IronRAG libraries. Paths below
are relative to that package unless they say otherwise.

## 1. The system

| component | state it keeps | operations |
|---|---|---|
| `state.py` `StateStore` | one SQLite row per `(kind, item_id)`: change token last handled, external key, IronRAG document, IronRAG library | `get`, `upsert`, `backfill_document_identity`, `delete`, `restore` |
| `orchestrator.py` `Orchestrator` | `_sweep_pushed`: `(library, external key) -> document` | `push_ref`, `push_item`, `_create`, `_revise`, `delete_by_ref`, `reap_orphan`, `reset_sweep_cache` |
| `ironrag.py` `IronRagClient` | an HTTP connection | find, list, create, revise, delete, poll an operation; catalog resolution; page walks |
| `sync.py` `SyncManager` | the run lock; per sweep: `seen`, `seen_targets`, the cursor's libraries before the sweep, the item coroutines | `run_once`, `_reap`, `_list_by_prefix`, `run_forever` |
| `routing.py` `Router`, `RoutingReloader` | the current configuration and its resolved libraries; the mtime last seen | `resolve`, `target_libraries`, `reload_if_changed` |
| `policy.py` | none: four decisions per item kind | `merged_with` |
| `source.py` `SourceAdapter` | the source itself (the connector's code) | `iter_items`, `fetch` |
| `server.py` | the app, the sweep tasks, the exit stack | lifespan, `/sync/run`, `/health`, webhooks |
| `pidfile.py` | a file with the pid of its holder | `acquire`, `release` |
| `seed.py` | none: a process of its own that writes the cursor | `seed_cursor` |
| `config.py`, `observability.py` | none | settings; logging |

How they interact. `run_forever` starts a sweep; a sweep enumerates the source
and starts one coroutine per item, at most `SYNC_CONCURRENCY` of them past the
semaphore, each of which calls `push_ref`. Webhook handlers call `push_ref` and
`delete_by_ref` at any time, outside the run lock. After a complete
enumeration the reaper lists every library a document could be in and calls
`reap_orphan` for the ones no item of the sweep accounts for. All of them
share the cursor, the sweep cache and the service. Everything runs in one
asyncio event loop, so a coroutine is atomic between two awaits and nothing is
atomic across one.

What is hard, and what correctness means:

* **A read before an await, used after it.** The cursor row, the sweep cache
  and the route are read before a request and relied on after it. Correct: a
  row never claims a version its document lacks (`FreshCursor`), an outcome
  reported is true (`OutcomeIsTrue`).
* **Who owns a document.** A create refused as a duplicate, a lookup by
  external key, a restore and a reap all move document ids about. Correct: a
  document id held for an item names that item's document
  (`CursorOwnsDocument`), and a row names a document of its library
  (`RowInLibrary`).
* **Several writes that belong together.** A page and its attachments are
  pushed one after another. Correct: a deferral is retried
  (`DeferredIsRetried`), a push reported complete is complete
  (`CompletePush`).
* **Deleting.** The reaper decides from what a sweep saw, while webhooks go on.
  Correct: it never deletes what the source has had, and routing has wanted
  there, all the sweep (`ReaperSparesLive`).
* **Failure.** An item times out at any await, the process dies at any await,
  an operation fails, an enumeration or a listing fails, a manual sweep is
  cancelled. Correct: once the source is quiet,
  sweeps converge (`Convergence`), and on the way no copy goes back to an
  earlier version or vanishes while its item is there (`ImplementsMirror`).
* **Configuration that changes under way.** The routing file is edited, broken
  or moved away while a reload of it awaits a catalog that changes page by page.
  Correct: what is in force is one snapshot, whole (`SnapshotIsWhole`), a library
  that is listed is found (`InvisibleIsHidden`), and a good file is in force in
  the end (`EditTakesEffect`).
* **Processes.** Two connectors start, stop and crash around one pidfile; three
  kinds of task start sweeps; a shutdown cancels them. Correct: one process at
  work (`OneHolder`, `OneAtWork`), one sweep in it (`OneSweep`), sweeps that go
  on and shutdowns that end (`SweepsGoOn`, `ShutdownEnds`).

`PROJECT.json` lists the hazards one by one, each at its line.

## 2. The modules

```
Identities            items, libraries, documents, versions, bytes
  CursorStore         state.py
  IronRag             the service, as the client's code relies on it (external)
    Orchestrator      orchestrator.py and seed.py, with the source and routing around them
      SyncManager     sync.py, and the webhook handlers of server.py
        ReaperHistory      SyncManager with a memory of the items there all the sweep
        MirrorRefinement   SyncManager implements
Mirror                     what the connector promises, abstractly
Catalog               ironrag.py, resolve_library_refs: the page walk over the catalog
  RoutingReload       routing.py, policy.py, and their part of server.py
Pidfile               pidfile.py, a step per system call
  Server              server.py: lifespans, and the tasks that run sweeps
MCOrchestrator, MCSyncManager, MCReaperHistory, MCRoutingReload, MCServer
                      instances for TLC
OrchestratorProofs    type correctness of Orchestrator
  OwnershipProofs     CursorOwnsDocument and RowInLibrary for Orchestrator
    SyncProofs        the same, and types, for SyncManager
      ReaperProofs    ReaperSparesLive
        MirrorProofs  FreshCursor, DeferredIsRetried, and that SyncManager implements
                      Mirror, while no two calls are about one item
          SweepProofs OneCallPerItem for sweeps that keep apart, and so the same for
                      them; OutcomeIsTrue and CompletePush for them
RoutingProofs         types, InvisibleIsHidden and SnapshotIsWhole for RoutingReload
ServerProofs          types, OneHolder, OneAtWork and OneSweep for Server
```

`Orchestrator` with `SyncManager`, `RoutingReload` with `Catalog`, and `Server`
with `Pidfile` are three families that share no state. What one of them takes
from another is an action in it: a routing reload is `Reroute` in `Orchestrator`,
since what it changes for an item is where the item goes; a sweep is one
`RunOnce` and one `EndSweep` in `Server`; a crash of `Server` is `Restart` in
`SyncManager` and `Die` in `RoutingReload`.

**CursorStore.** `cursor[i]` is the row of item `i` or `NoRow`. Each operator
is one SQL statement under the store's lock. `KeptDoc` is the `COALESCE` of
the upsert; `Backfill` is an `UPDATE`, which does nothing without a row and
leaves the token alone. `last_pushed_at` is never read back and is left out.

**IronRag** is not in this repository. It has what the client's code and
comments rely on, and every choice it leaves open is nondeterministic. Documents
of a library have an external key and bytes; a create that meets either is a
409 that may or may not name the document. Revisions and deletes are operations
under an idempotency key, applied later or never. `Forgotten` says after which
terminal statuses a key may be used afresh. A second mutation of a document is
refused or supersedes the first.

**Orchestrator.** `task[p]` is one call of `push_ref`, `delete_by_ref` or
`reap_orphan`; `pc` is the await it stands at. One action resumes it (`Resume…`,
`Poll`, `DeletePoll`) and does everything up to the next await; one action of
the service answers it (`Serve…`). `todo` holds the item being pushed and the
dependents after it; entering `push_item` for the next of them is the step
`PushItem`, which `RunsAlone` and `LoopIdle` keep from being interleaved with
other coroutines. `before` is `parent_cursor_before_push`.

| code | action or operator |
|---|---|
| `push_ref` up to its first await; resumed after `find_document`, after `fetch` | `PushRef`, `ResumeLookup`, `ResumeFetch` |
| its loop over dependents; `deferred`; an exception | `NextItem`, `Defer`, `Raise` |
| `push_item` | `PushItem`, `ResumeFind`, `PushChanged` |
| `_create` | `StartCreate`, `ResumeCreate` |
| `_revise` | `ResumeRevise`, `Poll`, `PollTimeout` |
| the writes of a version handled (created, replaced, adopted, skipped) | `Handled` |
| `delete_by_ref`, `reap_orphan` | `DeleteByRef`, `ResumeDeleteLookup`, `ReapOrphan`, `StartReap`, `ResumeDelete`, `DeletePoll`, `Reaped` |
| an item timeout, a transport error, a 5xx, a cancellation | `Abort` |
| the process dying and starting again | `Crash` |
| the source, routing, an operator, the service's operations | `Edit`, `Vanish`, `Reroute`, `Remove`, `Settle`, `Misfire` |
| `seed.py`: a document of the listing gets its row | `Seed` |

A change token is modelled as the version number: the source's contract is
that it changes whenever the content may have. The item a `fetch` returns
carries the token of the reference it was called with, but the bytes of the
moment, and its dependents carry tokens of the moment.

The seeder is a process of its own that takes no pidfile. It upserts a row
without a token as soon as a document is listed, so `Seed(d)` may come between any
two steps of the connector, even those the event loop does not interleave.

**SyncManager.** `phase` is where the sweep that holds the run lock is.
`waiting` are enumerated references whose coroutine has no permit yet, `owner[p]`
says whose coroutine slot `p` runs. `Enumerate` yields one item. `EnumerationFails`
is `iter_items` raising at any time, also after it has yielded its last item:
that it ends is no step of its own. A coroutine that a failed enumeration
leaves behind is a *stray*: it keeps its own sweep's semaphore and goes on.
`CancelSweep` is `run_once` cancelled, at `/sync/run` say: it cancels and awaits
its coroutines and the reaper's call, while the process, the sweep cache,
strays and webhooks go on. `StartReaping`, `ListLibrary`, `Reap` and
`EndLibrary` are `_reap`, `SkipLibrary` a listing that failed with an
`IronRagError`, `ReapingFails` an exception that `_reap` does not catch.
`Expected` is `_document_still_expected`. `Hook` is a webhook handler: a push
of an item at any version it has had, or the delete of an item that has left;
either may come late, when the item is at a newer version, has left, or is back.
`Restart` is `Crash` with the sweep's state lost as well.

`SyncSpec` is all of this. In `ApartSpec` a sweep starts only when the strays of
earlier ones have ended. Nothing in the code makes it wait; what stands for it
is time: by default an item is given up after 300 s and the interval is 1800 s
(`config.py:111-114`), counted from the end of the failed sweep. A manual sweep
that comes sooner, or strays that queue for permits longer than the interval,
break the assumption, and section 3 says what follows.

**ReaperHistory** adds the history variable `steady`: the items that have been in
the source, and routed to one place, since the sweep under way began. No step
of `SyncManager` reads it; `ReaperSparesLive` is stated with it.

**Mirror** says what all this is for: each item has a copy at some version and a
claim, the version on record. `Publish` brings the copy forward, never back;
`Claim` never exceeds the copy; `Withdraw` needs the item to have left. A claim
may go down, because an old reference is pushed again by a stray or a deferral
restores the row. **MirrorRefinement** gives the mapping: the copy is the oldest
version an active document of the item has (`Shown`), the claim is the token of
the cursor row while its document exists (`Claimed`). The refinement holds where
items do not return to the source, nobody removes documents by hand, bytes tell
versions apart, all items go to one library and no two calls are about one item
at a time; section 3 says what breaks it elsewhere.

**Catalog** is `resolve_library_refs` against a catalog whose libraries appear
and vanish between two pages. `walk` is the local state of `_find_library_row`
(the ref wanted, rows `received`, distinct rows `seen`, `total`) and of the loop
around it (refs `left`, libraries `found`). `ReadPage` is one page with every test
the code makes on it, in its order. `Results`, `Rank` and `Page` are the service,
as sets of places in the catalog: the substring hits for a ref, how many of them
come up to a place, and those of a page, clamped to `Clamp` rows, from an offset it
may ignore; `Rows` are the libraries at these places. `RequestFails` is every way `_catalog_payload`, `_catalog_page` and
`_catalog_array` raise. `healthy` is history for `InvisibleIsHidden`.

**RoutingReload** is the life of a routing snapshot.

| code | action or operator |
|---|---|
| `build_app`: `load_routing_config`, `build_policies` | `LoadAtStart` |
| `RoutingReloader.__init__` samples the mtime; the lifespan awaits `initialize` | `StartResolving`, `Initialized`, `StartupFails` |
| `reload_if_changed`: the lock, the mtime, nothing to do | `Sample` |
| the file does not load; it loads, and its refs are resolved | `LoadFails`, `Load`, then `Catalog`'s steps |
| resolution raises; the caller is cancelled | `ResolutionFails`, `CancelCaller` |
| `replace_config`, the policy table, the mtime | `Reloaded`, `Replace` |
| `Router.resolve`, `_facts_match`, `for_kind`, `merged_with` | `RouteOf`, `FirstMatch`, `ForKind`, `Merge` |
| the file is saved, broken, moved away; the process dies | `EditFile`, `Die` |

The file is changed by another process, so `EditFile` may come between the
sample of the mtime and the load, which no await separates. Facts are sets of
key and value pairs, so that a criterion on a list-valued fact is membership, as
in `_facts_match`.

**Pidfile** has a step for each call of `acquire` (`Look`, `ReadOld`,
`ProbeStale` or `ProbeBusy`, `UnlinkStale`, `OpenFile`, `WritePid`) and of `release`
(`CheckOwn`, `RemoveOwn`). `opened` tells whose open file still has the pidfile's
name: a file unlinked between open and write is written to no avail. Pids of
processes that end are given out again. `overlapped` is history: two processes
were in `acquire` at the same time.

**Server** is the lifespan around it: `stage` is where it is, `stack` what the
`AsyncExitStack` has to close, `task` the startup task, `run_forever` and
`/sync/run`. `RunOnce` is the guard of `run_once`: taken, or
`SyncAlreadyRunningError`. `Shutdown`, `StopWaiting` and `Cancelled` are the
`finally` of the lifespan, which cancels and awaits one task after the other;
`Close` pops the stack. A sweep under way ends by itself or through the
cancellation (`EndSweep`).

Named bounds: `MaxVersion` (versions an item goes through), `DocIds` (documents
the service may create), `MaxFaults` (aborted calls, crashes, failed operations,
failed enumerations and listings, cancelled sweeps together; in `Server` failed startups and
crashes), `CanVanish`, `CanReturn`, `Removable`, `Seedable`, `Targets`;
`MaxChanges` (libraries that appear or vanish), `MaxEdits` (edits of the routing
file), `MaxFailures` (failed requests, cancelled callers, crashes).

## 3. What TLC checks

Bytes differ between versions and items in every instance; IronRAG forgets a
key after any terminal status other than `ready`.

| run | instance | shows |
|---|---|---|
| `orch_calls` | two concurrent calls about a page `a` and its attachment `b`, one of them any handler; one fault; `d1` may be removed by hand or seeded | `TypeOK`, `CursorOwnsDocument` |
| `orch_routes` | two concurrent pushes of one item, two versions, routed back and forth between two libraries; its kind is not revised and refuses duplicates; `d1` may be seeded | `RowInLibrary` |
| `sync_sweeps` | sweeps over a page and its attachment with two slots and two permits, two versions, the page goes, a webhook deletes it beside whatever the sweep is doing, one fault, strays included; sweeps keep apart (`ApartSpec`) | `SyncTypeOK`, `FreshCursor`, `OutcomeIsTrue`, `DeferredIsRetried`, `CompletePush`, `OneCallPerItem` |
| `sync_webhooks` | one item, which leaves, appears and returns at any moment of a sweep, and whose route goes and comes back; a webhook handler beside the sweep, its calls perhaps late; one fault; `d1` may be seeded; sweeps and strays together (`WatchedSpec`, from `SyncSpec`) | `ReaperSparesLive` |
| `sync_convergence` | `a` and `b` with two slots and two permits, two versions, `a` leaves the source, one fault, strays included; sweeps keep apart; fair | `Convergence`, `ImplementsMirror` |
| `routing` | two refs, one a substring of the other, three libraries of which two go by one ref in turn, pages of one row; three edits among two good files, a broken one and none; three changes of the catalog, two failures; two callers; fair | `RoutingTypeOK`, `InvisibleIsHidden`, `SnapshotIsWhole`, `EditTakesEffect` |
| `server` | a process in mode `both` and one in mode `webhook`, three pids, two faults; fair | `ServerTypeOK`, `OneHolder`, `OneAtWork`, `OneSweep`, `SweepsGoOn`, `ShutdownEnds` |

Why the bounds are enough. Two concurrent calls are what every interleaving
hazard in the list needs: the code has no step at which a third call matters,
since all sharing is through the cursor row and the cache entry of one key. Two
versions give one stale and one fresh; three documents let one be deleted and
made anew beside another item's (`sync_convergence` never makes a third: a document
is withdrawn only after its item has left, for good). One fault at any await gives
each partial failure once, with unfaulted sweeps before and after it; it may be a
failed enumeration, so a stray is left at any await in each run. In
`sync_convergence` each item has a slot of its own (`OwnSlot`): where no two calls
are about one item, which `SweepProofs!OneAtATime` proves of `ApartSpec`, it makes
no difference which free slot a call takes. The webhook of `sync_sweeps` deletes and
does not push (`HookDeletes`), since one that pushes breaks the properties in ways
listed below; `sync_webhooks` has both. Three edits let a file be broken, mended and
changed during one reload; three changes of the catalog let a library vanish and come
back as another between two pages. Two processes and
three pids let a pid come back as another process's or as the starting one's own.
Between them the runs fire every action and every disjunct. `routing` does not
check deadlock: a connector whose routing file does not load ends, and stays down
while the file is as it is.

Each of the remaining runs checks one property that the repository's text
states, and finds it violated by what the code does:

| run | property | how |
|---|---|---|
| `sync_adopted` | `AdoptedIsRevised`: a duplicate adopted is revised by the next sweep (`orchestrator.py:24-26`) | it is recorded at the refused version's token (402), so the next sweep stops at the unchanged token |
| `sync_strays` | `OneCallPerItem`: sweeps "cannot ... push duplicate operations to the same target" (`docs/ARCHITECTURE.md:80-83`) | a failed enumeration returns without awaiting or cancelling the coroutines it started (`sync.py:224`), and the next sweep pushes an item one of them is still at |
| `sync_late_webhook` | `OutcomeIsTrue`: a webhook is pushed as a sweep would (`docs/ARCHITECTURE.md:190-192`) | the sweep cache of the last sweep answers it with `noop_unchanged` (`orchestrator.py:318`) |
| `sync_partial_push` | `ParentWithDependents`: dependents go in their parent's transaction (`source.py:93-94`) | a dependent's exception leaves the parent's row advanced (`orchestrator.py:263`), and so does a crash between the two pushes; only a deferral restores it |
| `catalog_offset` | `ScannedAll`: with a server that ignores `offset`, rows are counted once and an incomplete walk is not downgraded to "not visible" (`ironrag.py:487-489`, `513-514`) | the walk ends on rows received, repeats included (511), before distinct rows are counted |

`RowInLibrary` is stated for kinds with `on_duplicate_content: fail`: a
`duplicate_content` refusal that names no document is adopted with no id, and
the upsert then keeps the id of the library the item was in before.
Several properties hold only in part, and the passing runs are instances where
they do. What breaks them elsewhere is behaviour of the code, met while
modelling:

* `OneCallPerItem`, `OutcomeIsTrue`, `FreshCursor`, `ImplementsMirror` and
  `Convergence`, when a sweep starts beside the strays of an earlier one
  (`SyncSpec` without `ApartSpec`'s assumption): a stray stands at its create with
  the older bytes, the item is edited, and the next sweep's push, which found no
  document, sends its create after it. The stray's is served; the other is refused
  as a duplicate and adopts the older bytes at the newer token. Later sweeps see
  the token unchanged, so the item keeps the older bytes until it is edited again.
  One failed enumeration is enough, at any `SYNC_CONCURRENCY`: each sweep makes a
  semaphore of its own (`sync.py:149`).
* `OutcomeIsTrue`: a webhook is answered from the sweep cache (`sync_late_webhook`).
* `FreshCursor`: (a) a duplicate is adopted at the refused version's token
  (`sync_adopted`; a document removed by hand, or two calls that create one item,
  or the seeder's row lead there); (b) a webhook and a sweep revise one document,
  and the older bytes are applied last while the newer token is written last: there
  is no lock per item; (c) an item is routed to a second library, edited and pushed
  there, and routed back before the reaper came round: its first document is found
  and taken over at the newer token (`orchestrator.py:196-208`); (d) bytes come back
  under an idempotency key the service still remembers (`orchestrator.py:114`).
* `ReaperSparesLive` promises nothing to an item that appears in the source or
  returns to it when the enumeration has passed its place: a webhook creates its
  document, the listing finds it and the reaper deletes it. The next sweep makes it
  anew. The same goes for an item that is routed elsewhere and back meanwhile.
* `ImplementsMirror`: whatever breaks `FreshCursor`, and items that return.
* One mutation per external key in a sweep: two parents pushed at once both create
  or revise the dependent they share, since the sweep cache is read before the
  awaits of a push and written after them (`orchestrator.py:318`).
* `OneHolder`: two processes that are in `acquire` at once may both come to hold
  the pidfile; the property says that nothing else lets them.
* `EditTakesEffect`: a file saved between the load at start-up and the sample of its
  mtime (`routing.py:252`) is not loaded until it is saved again.

A call that reports its
write deferred while another call pushes the same item may leave the other's
newer row; `DeferredIsRetried` is therefore checked for sweeps, which push an
item once.

**Fairness** (`FairSyncSpec`, on top of `ApartSpec`). `WF(StartApart \/
SweepGoesOn)`: `run_forever` starts a sweep at every interval, strays end before
the next, and asyncio runs ready coroutines. `WF(Proceed(p))`: the
service answers a request, or the client's timeouts end it, and a coroutine that
is ready runs. `WF(Settle)`: an operation in flight ends. Nothing is assumed
of the source, of routing, of faults or of webhooks: they may stop, and with the
bounds they do. No strong fairness is needed.

`FairRoutingSpec`: `WF(Start)`, a process that ended is started again and its
startup goes on; `WF(Reload)`, sweeps and webhooks keep asking for a reload, and a
reload whose requests are answered goes on; `WF(Reading)`, requests are answered.
Nothing is assumed of edits, of the catalog or of failures.

`FairServerSpec`: `WF(Startup)` and `WF(Teardown)`, a process goes on with what it
began; `WF(RunOnce(periodic))`, the interval passes; `WF(EndSweep)`, a sweep ends,
by `Convergence`'s assumptions or by its cancellation. Nobody has to start a
process, send a request or stop a server.

Mutants: every property of every passing run has one in `PROJECT.json`, a
plausible bug in a definition of the code (the previous cursor not restored, the
cache entry under the parent's key, a poll that gives up and reports success, a
page taken for the last because it is short, the pidfile released first) that
makes it fail.

## 4. What is proved

TLAPS checks these for every value of the constants that satisfies the modules'
assumptions: any number of items, libraries, tasks, versions, any policies,
dependents and faults.

* `OrchestratorProofs!TypeCorrect`: `Spec => []TypeOK`. `TypeOK` is not
  inductive: that an upsert gets a library rests on where the call stands
  (`WellFormed`), and that `reap_orphan` gets one rests on every document with
  a key being in a library (`Housed`). `TypeInv` is the conjunction;
  `TypeInvariant` is `Spec => []TypeInv`.
* `OwnershipProofs!Ownership`: with `DistinctPayloads`,
  `Spec => []CursorOwnsDocument`. The invariant `OwnInv` follows a document id
  through every place that holds one: the cursor, the sweep cache, a call and
  the row it may restore (`Holds`). Since a duplicate refusal names a document by
  its bytes, it also says whose bytes documents (`DocsOwned`), operations in
  flight (`OpsOwned`) and items to push hold. Without `DistinctPayloads` the
  property is false by design: identical bytes under another key are adopted
  (`orchestrator.py:396`).
* `OwnershipProofs!RowsInLibrary`: `Spec => []RowInLibrary`, without a hypothesis.
  `LibInv` says, for items whose duplicates are refused, that the row and the row a
  call may restore name a document of their library (`RowLodged`), and that a call
  that revises or polls, or has been answered with a document, took it from the
  library it pushes to (`Lodged`), whatever routing says by then. A created document
  was in no library before (`Unhoused`), so none ever moves. For the other items a
  refused duplicate may be adopted with no document, and the upsert's `COALESCE`
  (`KeptDoc`) leaves the old library's. `SyncProofs!SyncRowsInLibrary` is the same
  for `SyncSpec`.
* `SyncProofs!SyncOwnership`: ownership for `SyncSpec`. `SyncStepIsStep` shows that
  every step of a sweep, of the reaper, of a webhook or of a restart is a step of
  `Orchestrator` on the variables they share, or changes none of them but the count
  of faults (`Aside`: calls cut, the cache kept); so `TypeInv` and `OwnInv` are kept. It needs that the
  references which wait for a permit are items with tokens (`RefsOK`).
* `SyncProofs!SyncTypeCorrect`: `SyncSpec => []SyncTypeOK`. The libraries a sweep
  records as targets come from finished calls, so it rests on `AllHomed`: a call
  that routing did not turn away is about a library, through every step it takes
  (`GoesOn`).
* `ServerProofs!PidfileExcludes`: `ServerSpec => []OneHolder`. `PidInv` says of the
  time before any overlap that the file holds its holder's pid, and that no process
  in `acquire` has got past the probe of that pid while its holder lives
  (`PidApart`); every step of `Server` is a step of one process on the pidfile, or
  leaves it alone.
* `ServerProofs!WorkExcludes` and `SweepsExclude`: `OneAtWork` and `OneSweep`, from
  `ServerInv`, which ties what is on the stack and which tasks may run to the
  stage of the lifespan, and the stage to the place in `acquire` or `release`.
* `RoutingProofs!OneSnapshot`: `RoutingSpec => []SnapshotIsWhole`. `RoutingInv` says
  who owns the walk (startup, a reload, nobody: `WalkOwned`), that the refs found,
  looked for and left are those of the configuration it is for (`Resolves`), and
  that every ref found is found under a library of its name (`Right`); what is in
  force is therefore resolved for the configuration in force.

* `RoutingProofs!ListedIsFound`: with `HonoursOffset = TRUE`,
  `RoutingSpec => []InvisibleIsHidden`. The invariant is `Ahead`: while the walk is
  healthy, the wanted library's rank among the results is greater than the number
  of rows received, so it is on this page or a later one. A library that appears
  before it moves it back, which is safe; one that vanishes ends `healthy`. A service
  that ignores the offset has no such order, and TLC shows with `catalog_offset` what
  that costs.
* `RoutingProofs!RoutingTypeCorrect` and `ServerProofs!ServerTypeCorrect`:
  `RoutingTypeOK` and `ServerTypeOK`. The first says of a catalog that changes under a
  walk that places in it stay places; the second rests on the stack being a prefix of
  what the lifespan opens, in its order.

The mirror is proved in three steps, of which each module takes the ones before it.

* `ReaperProofs!ReaperSpares`: `WatchedSpec => []ReaperSparesLive`, without a
  hypothesis: any libraries and routes, items that come, go and return, webhooks,
  seeders, strays beside a sweep. What makes a document an orphan is decided in one
  step and acted on in later ones; `SteadyInv` says of a `steady` item at each of
  them that it is still to be enumerated or has been seen (`SteadyListed`), that a
  coroutine of the sweep pushes it to the library routing sends it to
  (`SteadyPushed`), that no other library is its target (`SteadyTargets`), and that
  neither `orphans` nor the reaper's call has a document of it in that library
  (`SteadySpared`). Items outside `steady` do lose their documents (section 3), so
  that word cannot go. `GoneInv`, for one library (`OneLibrary`) and items that do
  not return, says more: whatever is deleted has left for good. `MirrorProofs`
  needs that.
* `MirrorProofs!FreshRows`, `DeferralIsKept` and `MirrorImplemented`:
  `SyncSpec /\ []OneCallPerItem` implies `[]FreshCursor`, `[]DeferredIsRetried` and
  `ImplementsMirror`, the refinement step by step. The hypotheses are
  `MirrorConditions`: one library, no returns, no removal by hand, bytes that tell
  items and versions apart, and `on_changed: replace`. Seeders, crashes, aborts,
  failed and superseded operations, reroutes to nowhere, dependents and any number of
  slots are all in. `MirrorInv` orders versions: a row is behind its document
  (`GoodRow`), a document behind what is in flight on it (`Forward`) and behind the
  source (`Behind`), an item has one active document (`OneActive`), and what a call is
  about to push is ahead of all of it (`Fits`). For a deferral it says in addition that
  `before`, the row the call may restore, does not hold the call's own token
  (`NotYet`). Section 3 says what breaks `FreshCursor` without each of these.
  `OneCallPerItem` is a hypothesis and not a fact because the code has no lock
  per item: a webhook and a sweep may push one item at once.
* `SweepProofs!OneAtATime`: without webhooks (`Hooks = {}`), where no item is a
  dependent of two (`SweepConditions`), `ApartSpec => []OneCallPerItem`: failed
  enumerations, cancelled sweeps, aborts and restarts are all in. `SweepInv` follows
  an item through a sweep: to be enumerated, waiting for a permit once, among the
  sweep's references or the strays', in one slot, done (`QueueOnce`, `QueueAhead`,
  `SlotsApart`), and a sweep ends with none of it left but strays
  (`BetweenSweeps`). `SweepsMirror` puts the two together: such sweeps implement
  `Mirror` outright. What the hypotheses exclude is what the code does not
  serialise: webhooks (`sync_late_webhook`), strays beside the next sweep
  (`sync_strays`) and a shared dependent.

* `SweepProofs!OutcomesAreTrue` and `PushesComplete`: under the conditions of both,
  `ApartSpec` implies `[]OutcomeIsTrue` and, where new dependents are
  created (`DependentsCreated`), `[]CompletePush`. Both are about the sweep cache,
  which answers for pushes that are over. `TruthInv` says that it has nothing of an
  item the sweep has still to come to (`Ahead`) and nothing of what a call is about to
  push (`Uncached`), so only a dependent is ever passed over for it; that a call pushes
  its own item first, at its reference's token, and has reported nothing of it until
  then; and that what it reports is true of every copy from then on (`Truthful`): an
  operation that comes late brings nothing older (`DocCalm`), and a document made
  anew is some call's on that item, of which there is one (`CallsApart`). `WholeInv`
  says that a dependent the cache has, the cursor has, and that a call has each
  dependent in the cursor or still before it (`ToPush`); a revision that finds its
  document gone drops the row of an item it then goes on to create. The row names a
  document by `RowInv`. With a webhook the first is false (`sync_late_webhook`), with a
  dependent of two parents the second: the cache answers for a push that then fails.
  `on_new: skip` leaves new dependents out on purpose.

`sync_sweeps` checks these properties under `ApartSpec` as the theorems have it,
and with a webhook that deletes, which `SweepConditions` exclude; a webhook that
pushes breaks `OneCallPerItem` at once. With an item that returns in place of the
webhook, which `MirrorConditions` exclude, TLC finds no violation either (836,348
distinct states).

Before a proof was begun TLC checked its invariants, on instances where it evaluated
the theorems' hypotheses to true: `MirrorInv`, `SweepInv`, `TruthInv` and `WholeInv` on
`sync_sweeps` without the webhook (22,311 distinct states), with two primary
items, two slots, two versions and one fault (693,919), and with one version and a
seeder of two documents (111,851); `SteadyInv` on `sync_webhooks`, `Ahead` on
`routing`, and `LibInv` on `orch_routes` with a fault (5.8 million). The seeder
together with an item that returns is what showed that `FreshCursor` needs `CanReturn = {}`: a document of the item's
first life is seeded while its second is being pushed.

The proofs have one lemma per action and one per operator that builds a task or
writes a row, and pass the state an invariant is about as a parameter, so that a
lemma can speak of the state after a step. They are about safety only: every invariant
and every action property that a passing run checks is a theorem, under the hypotheses
above. What stays with TLC, on the instances above, is liveness, which is beyond the
prover as `ENABLED` is: `Convergence`, `EditTakesEffect`, `SweepsGoOn`,
`ShutdownEnds`.

## 5. What is not modelled

* A request that is still under way when its call is aborted and is applied
  afterwards: `Abort` comes before the service answers or after it, and an
  admitted operation is applied whenever the service likes, but a request not
  yet answered is dropped.
* The page walk of `list_documents`: a listing is taken in one step. A page that
  misses a document leaves it to the next sweep, and every listed document is
  already stale by the time it is reaped, which the step-by-step `Reap` covers.
  `walk_all_documents` with its checkpoint has no caller in the framework.
* The lookup of the workspace of a ref: it is one of the requests that may fail,
  and refs are of one workspace.
* An operator who removes the pidfile of a live process, file systems where
  unlinking or writing fails, and what uvicorn does around the lifespan.
* Item coroutines a failed enumeration left behind when the lifespan closes the
  cursor: they raise, and are lost as in a crash.
* Idempotency keys that an adapter supplies with an item (`item.idempotency_key`,
  `orchestrator.py:450-454`): `RevisionKey` is the default, made of the item and its
  bytes. An adapter's own key is as good as the adapter makes it.
* Authentication of webhooks and of `/sync/run`, settings, logging, the tallies of
  a sweep's report.
* The source's adapters, the example adapter among them. The source has one
  primary kind.

Text that disagrees with the code outside any property here: `source.py:125-127`
has the reaper collect dependents' orphans, `sync.py:251-256` looks at primary
kinds only; `state.py:18` speaks of an fsync per write, `state.py:98` sets
`synchronous=NORMAL`; `docs/ARCHITECTURE.md:93-97` has the timeout of a mutation's
admission deferred, `orchestrator.py:495-497` defers only a timeout of the poll
that follows it, and one of the request itself is an error (`Abort`).

## 6. Plan

Done: cursor, orchestrator, seeder, sweeps, webhooks, the abstract mirror and its
refinement; routing, policies and the catalog; the pidfile and the server's
lifespan; the runs of section 3 and the theorems of section 4. Left: requests that
outlive the call that sent them.
