--------------------------- MODULE RoutingReload ---------------------------
(***************************************************************************)
(* routing.py (Router, RoutingReloader), policy.py and the part of         *)
(* server.py that builds and initializes them: how routing.yaml becomes    *)
(* the routes and push policies in force, at startup and by hot reload,    *)
(* while the file is edited and the catalog it is resolved against         *)
(* (Catalog) changes.  Reloads are asked for by the start of a sweep and   *)
(* by webhook requests, concurrently, under the reload lock.               *)
(***************************************************************************)
EXTENDS Catalog

CONSTANTS
    Files,          \* contents routing.yaml may have
    Configs,        \* the ones that load: RoutingConfig records
    FirstFile,      \* the file at first
    Kinds,          \* kinds of source items
    Facts,          \* key and value pairs an item's routing facts are made of
    Unset,          \* a field of an override that inherits; no default route
    Defaults,       \* PolicyDefaults().as_push_policy()
    Callers,        \* tasks that ask for a reload: sweeps, webhook requests
    Nobody,
    MaxEdits,       \* bound on edits of the file
    MaxFailures     \* bound on failed requests, cancelled callers and crashes

Fields == {"on_new", "on_changed", "on_missing", "on_duplicate_content"}

\* rules      match criteria and target, in the order of the file
\* default    the default route, or Unset
\* overrides  for some kinds, a PolicyOverride: a value, or Unset, per field
ASSUME ConfigsAssumption ==
    /\ Configs \subseteq Files /\ FirstFile \in Configs
    /\ \A c \in Configs :
          /\ c.rules \in Seq([match : (SUBSET Facts) \ {{}}, target : Refs])
          /\ c.default \in Refs \cup {Unset}
          /\ DOMAIN c.overrides \subseteq Kinds
          /\ \A k \in DOMAIN c.overrides : DOMAIN c.overrides[k] = Fields
ASSUME DefaultsAssumption == DOMAIN Defaults = Fields
ASSUME CallersAssumption  == Nobody \notin Callers
ASSUME BoundsAssumption   == MaxEdits \in Nat /\ MaxFailures \in Nat

VARIABLES
    file,           \* what the file holds, and its mtime
    life,           \* how far the process has come
    conf,           \* Router._config
    targets,        \* Router._resolved_targets
    policies,       \* PolicyOverrides: by_kind, and the default
    stamp,          \* RoutingReloader._mtime_ns
    built,          \* the mtime the reloader was built with
    holder,         \* who has the reload lock
    reload,         \* the reload under way: mtime sampled, config loaded
    failures

routerVars == <<life, conf, targets, policies, stamp, built, holder, reload>>
routingVars == <<catalogVars, file, routerVars, failures>>

NoReload == [mtime |-> 0, config |-> FirstFile]

Mtimes == 0 .. MaxEdits

\* Mutant of RefsIn: a config without a default route has a target for it.
RefsAndDefault(c) == {c.rules[n].target : n \in DOMAIN c.rules} \cup {c.default}

RefsIn(c) == {c.rules[n].target : n \in DOMAIN c.rules} \cup ({c.default} \ {Unset})

\* merged_with: a field that is set wins.
Merge(base, over) == [f \in Fields |-> IF over[f] = Unset THEN base[f] ELSE over[f]]

Policies(base, c) == [default |-> base,
                      by_kind |-> [k \in DOMAIN c.overrides |-> Merge(base, c.overrides[k])]]

ForKind(k) == IF k \in DOMAIN policies.by_kind THEN policies.by_kind[k] ELSE policies.default

RoutingTypeOK ==
    /\ CatalogTypeOK
    /\ file \in [content : Files, mtime : Mtimes]
    /\ life \in {"down", "loaded", "resolving", "up"}
    /\ conf \in Configs
    /\ DOMAIN targets \subseteq Refs /\ \A t \in DOMAIN targets : targets[t] \in LibraryIds
    /\ DOMAIN policies.by_kind \subseteq Kinds /\ DOMAIN policies.default = Fields
    /\ stamp \in Mtimes /\ built \in Mtimes
    /\ holder \in Callers \cup {Nobody}
    /\ reload \in [mtime : Mtimes, config : Configs]
    /\ failures \in 0 .. MaxFailures

RoutingInit ==
    /\ CatalogInit
    /\ file = [content |-> FirstFile, mtime |-> 0]
    /\ life = "down"
    /\ conf = FirstFile
    /\ targets = NoneFound
    /\ policies = Policies(Defaults, FirstFile)
    /\ stamp = 0 /\ built = 0
    /\ holder = Nobody
    /\ reload = NoReload
    /\ failures = 0

Failure == failures < MaxFailures /\ failures' = failures + 1

-----------------------------------------------------------------------------
(* Startup: build_app, and the start of the lifespan.                      *)

\* load_routing_config; a file that does not load ends the process.
LoadAtStart ==
    /\ life = "down"
    /\ file.content \in Configs
    /\ life' = "loaded"
    /\ conf' = file.content
    /\ policies' = Policies(Defaults, file.content)
    /\ UNCHANGED <<catalogVars, file, targets, stamp, built, holder, reload, failures>>

\* RoutingReloader(...) samples the mtime; the lifespan resolves the targets.
StartResolving ==
    /\ life = "loaded"
    /\ file.content # Unset
    /\ life' = "resolving"
    /\ stamp' = file.mtime /\ built' = file.mtime
    /\ Resolve(RefsIn(conf))
    /\ UNCHANGED <<catalog, changes, file, conf, targets, policies, holder, reload, failures>>

\* Every ref resolved: the connector starts to serve.
Initialized ==
    /\ life = "resolving" /\ walk.pc = "found"
    /\ life' = "up"
    /\ targets' = walk.found
    /\ walk' = NoWalk
    /\ UNCHANGED <<catalog, changes, file, conf, policies, stamp, built, holder, reload, failures>>

\* The process ends and leaves nothing: its startup failed, or it crashed.
Stop == /\ life' = "down"
        /\ conf' = FirstFile
        /\ targets' = NoneFound
        /\ policies' = Policies(Defaults, FirstFile)
        /\ stamp' = 0 /\ built' = 0
        /\ holder' = Nobody
        /\ reload' = NoReload
        /\ walk' = NoWalk
        /\ UNCHANGED <<catalog, changes, file>>

StartupFails == /\ \/ life = "loaded" /\ file.content = Unset
                   \/ life = "resolving" /\ walk.pc \in Verdicts \ {"found"}
                /\ Stop
                /\ UNCHANGED failures

Die == life # "down" /\ Failure /\ Stop

-----------------------------------------------------------------------------
(* reload_if_changed.                                                      *)

\* With the lock free, a caller samples the mtime: the file is gone or as it
\* was loaded and the lock is given back, or a reload begins.
Sample(p) ==
    /\ life = "up"
    /\ holder = Nobody
    /\ IF file.content = Unset \/ file.mtime = stamp
       THEN UNCHANGED <<holder, reload>>
       ELSE /\ holder' = p
            /\ reload' = [NoReload EXCEPT !.mtime = file.mtime]
    /\ UNCHANGED <<catalogVars, file, life, conf, targets, policies, stamp, built, failures>>

\* The reload is over: the snapshot in force stays.
GiveUp == /\ holder' = Nobody
          /\ reload' = NoReload
          /\ walk' = NoWalk
          /\ UNCHANGED <<catalog, changes, file, life, conf, targets, policies, stamp, built>>

Loading == holder # Nobody /\ walk.pc = "idle"

\* The file does not load, or is gone.
LoadFails == Loading /\ file.content \notin Configs /\ GiveUp /\ UNCHANGED failures

Load == /\ Loading
        /\ file.content \in Configs
        /\ reload' = [reload EXCEPT !.config = file.content]
        /\ Resolve(RefsIn(file.content))
        /\ UNCHANGED <<catalog, changes, file, life, conf, targets, policies, stamp,
                       built, holder, failures>>

ResolutionFails == /\ holder # Nobody /\ walk.pc \in Verdicts \ {"found"}
                   /\ GiveUp
                   /\ UNCHANGED failures

\* Mutant of Replace: the policies are merged over those in force.
ReplaceOver(c) ==
    /\ conf' = c
    /\ targets' = walk.found
    /\ policies' = [policies EXCEPT !.by_kind = Policies(policies.default, c).by_kind @@ @]

\* replace_config, and the policy table rebuilt in place.
Replace(c) ==
    /\ conf' = c
    /\ targets' = walk.found
    /\ policies' = Policies(Defaults, c)

\* Mutant of Reloaded: the mtime is sampled at the end.
ReloadedAsOfNow ==
    /\ holder # Nobody /\ walk.pc = "found"
    /\ Replace(reload.config)
    /\ stamp' = file.mtime
    /\ holder' = Nobody
    /\ reload' = NoReload
    /\ walk' = NoWalk
    /\ UNCHANGED <<catalog, changes, file, life, built, failures>>

\* Every ref resolved: the snapshot is swapped whole.
Reloaded ==
    /\ holder # Nobody /\ walk.pc = "found"
    /\ Replace(reload.config)
    /\ stamp' = reload.mtime
    /\ holder' = Nobody
    /\ reload' = NoReload
    /\ walk' = NoWalk
    /\ UNCHANGED <<catalog, changes, file, life, built, failures>>

\* The caller is cancelled while its reload awaits the catalog.
CancelCaller == /\ holder # Nobody /\ walk.pc = "reading"
                /\ Failure
                /\ GiveUp

-----------------------------------------------------------------------------
(* Router.resolve, as every push uses it.                                  *)

FirstMatch(c, facts) ==
    LET hits == {n \in DOMAIN c.rules : c.rules[n].match \subseteq facts}
    IN  IF hits = {} THEN c.default ELSE c.rules[Min(hits)].target

\* The library an item with these facts goes to, or Unset if it is unrouted.
RouteOf(facts) ==
    LET t == FirstMatch(conf, facts) IN IF t = Unset THEN Unset ELSE targets[t]

-----------------------------------------------------------------------------
\* The operator saves the file, or moves it away (Unset).
EditFile == /\ file.mtime < MaxEdits
            /\ \E f \in Files \ {file.content} :
                  file' = [content |-> f, mtime |-> file.mtime + 1]
            /\ UNCHANGED <<catalogVars, routerVars, failures>>

Reading == ReadPage /\ UNCHANGED <<file, routerVars, failures>>

Refused == RequestFails /\ Failure /\ UNCHANGED <<file, routerVars>>

Start == LoadAtStart \/ StartResolving \/ Initialized \/ StartupFails

Reload == (\E p \in Callers : Sample(p)) \/ LoadFails \/ Load \/ ResolutionFails \/ Reloaded

RoutingNext == \/ Start \/ Reload \/ Reading
               \/ Refused \/ Die \/ CancelCaller \/ EditFile
               \/ CatalogChanges /\ UNCHANGED <<file, routerVars, failures>>

RoutingSpec == RoutingInit /\ [][RoutingNext]_routingVars

\* The process is restarted when it ended; sweeps and webhooks keep asking for
\* reloads; requests are answered.
FairRoutingSpec == /\ RoutingSpec
                   /\ WF_routingVars(Start)
                   /\ WF_routingVars(Reload)
                   /\ WF_routingVars(Reading)

-----------------------------------------------------------------------------
\* A connector that serves has one snapshot in force, whole: no bag of facts
\* meets an unresolved target or a library of another name, nothing is resolved
\* that the config does not name, and each kind has the policy the config gives
\* it over the defaults, with nothing left of a snapshot before.
SnapshotIsWhole ==
    life = "up" =>
        /\ DOMAIN targets = RefsIn(conf)
        /\ \A facts \in SUBSET Facts :
              RouteOf(facts) # Unset => RefOf[RouteOf(facts)] = FirstMatch(conf, facts)
        /\ \A k \in Kinds :
              ForKind(k) = IF k \in DOMAIN conf.overrides
                           THEN Merge(Defaults, conf.overrides[k]) ELSE Defaults

\* The file in place loads, what it names is listed, and it is not the one the
\* reloader was built with.
Acceptable == /\ life = "up"
              /\ file.content \in Configs
              /\ \A t \in RefsIn(file.content) : Visible(t)
              /\ file.mtime # built

\* An acceptable edit of the routing file is in force in the end, whatever
\* edits, failures and broken files came before it.
EditTakesEffect == <>[]Acceptable => <>[](conf = file.content)
=============================================================================
