------------------------------- MODULE Server -------------------------------
(***************************************************************************)
(* server.py: the life of connector processes that share a pidfile -       *)
(* build_app, the lifespan's startup and shutdown, and the tasks that run  *)
(* sweeps in between (the startup task, sync.py's run_forever and          *)
(* /sync/run), each going through run_once's guard.  What a sweep does is  *)
(* SyncManager; how startup resolves the routing targets, RoutingReload.   *)
(***************************************************************************)
EXTENDS Pidfile, Sequences

CONSTANTS
    RunMode,        \* settings.run_mode of each process
    RunOnStartup,   \* settings.sync_run_on_startup
    MaxFaults       \* bound on failed startups and crashes

ASSUME RunModeAssumption == RunMode \in [Procs -> {"poll", "webhook", "both"}]
ASSUME MaxFaultsAssumption == MaxFaults \in Nat

VARIABLES
    stage,          \* how far the process's lifespan has come
    stack,          \* the AsyncExitStack: resources to close, the last first
    task,           \* the tasks that run sweeps
    faults

serverVars == <<stage, stack, task, faults>>
vars       == <<pidVars, serverVars>>

Stages  == {"off", "acquiring", "initializing", "up", "cancelling_sync",
            "cancelling_startup", "closing"}
Sweeps  == {"startup", "periodic", "manual"}
Running(p) == {k \in Sweeps : task[p][k] = "running"}

Resources == <<"pidfile", "state", "adapter", "ironrag">>

\* A task waits (to start, or for the interval or a request to come), runs a
\* sweep, or is over.
ServerTypeOK ==
    /\ PidTypeOK
    /\ stage \in [Procs -> Stages]
    /\ \A p \in Procs : \E n \in 0 .. Len(Resources) : stack[p] = SubSeq(Resources, 1, n)
    /\ task \in [Procs -> [Sweeps -> {"none", "waiting", "running", "over"}]]
    /\ faults \in 0 .. MaxFaults

NoTasks == [k \in Sweeps |-> "none"]

ServerInit == /\ PidInit
              /\ stage = [p \in Procs |-> "off"]
              /\ stack = [p \in Procs |-> <<>>]
              /\ task = [p \in Procs |-> NoTasks]
              /\ faults = 0

Fault == faults < MaxFaults /\ faults' = faults + 1

Passes(p, from, to) == stage[p] = from /\ stage' = [stage EXCEPT ![p] = to]

TaskBecomes(p, k, s) == task' = [task EXCEPT ![p][k] = s]

-----------------------------------------------------------------------------
(* Startup.                                                                *)

Boot(p) == /\ Passes(p, "off", "acquiring")
           /\ Spawn(p)
           /\ UNCHANGED <<stack, task, faults>>

Acquires(p) == Acquire(p) /\ UNCHANGED serverVars

RefuseSecond(p) == /\ Passes(p, "acquiring", "off")
                   /\ ProbeBusy(p)
                   /\ UNCHANGED <<stack, task, faults>>

\* The pidfile is held, and what there is to close is on the stack.
Acquired(p) == /\ Passes(p, "acquiring", "initializing")
               /\ WritePid(p)
               /\ stack' = [stack EXCEPT ![p] = Resources]
               /\ UNCHANGED <<task, faults>>

\* The tasks of the run mode; a request may come in any mode.
Tasks(p) ==
    [k \in Sweeps |->
        IF k = "manual" \/ (RunMode[p] # "webhook" /\ (k = "startup" => RunOnStartup))
        THEN "waiting" ELSE "none"]

\* router.initialize resolved every target.
Initialized(p) == /\ Passes(p, "initializing", "up")
                  /\ task' = [task EXCEPT ![p] = Tasks(p)]
                  /\ UNCHANGED <<pidVars, stack, faults>>

\* It raised: what was opened is closed again.
InitializeFails(p) == /\ Passes(p, "initializing", "closing")
                      /\ Fault
                      /\ UNCHANGED <<pidVars, stack, task>>

-----------------------------------------------------------------------------
(* Sweeps.                                                                 *)

\* A startup task runs once; the loop waits for the next interval and the
\* endpoint for the next request.
AfterSweep(k) == IF k = "startup" THEN "over" ELSE "waiting"

\* Requests come while the server is up; a task that is cancelled before it
\* starts a sweep starts none.
MayRun(p, k) == stage[p] \in {"up"} \cup (IF k = "startup" THEN {"cancelling_sync"} ELSE {})

\* Mutant of RunOnce: a sweep under way is no obstacle.
RunRegardless(p, k) ==
    /\ task[p][k] = "waiting"
    /\ MayRun(p, k)
    /\ TaskBecomes(p, k, "running")
    /\ UNCHANGED <<pidVars, stage, stack, faults>>

\* Mutant of RunOnce: the loop does not outlive a sweep it may not start.
RunOrDie(p, k) ==
    /\ task[p][k] = "waiting"
    /\ MayRun(p, k)
    /\ TaskBecomes(p, k, IF Running(p) = {} THEN "running" ELSE "over")
    /\ UNCHANGED <<pidVars, stage, stack, faults>>

\* run_once: with another sweep under way SyncAlreadyRunningError is logged, or
\* answered with a 409; else the run lock is taken.
RunOnce(p, k) ==
    /\ task[p][k] = "waiting"
    /\ MayRun(p, k)
    /\ TaskBecomes(p, k, IF Running(p) = {} THEN "running" ELSE AfterSweep(k))
    /\ UNCHANGED <<pidVars, stage, stack, faults>>

\* The sweep returns or raises, and the lock is free; a loop that was told to
\* stop does.
EndSweep(p, k) ==
    /\ task[p][k] = "running"
    /\ TaskBecomes(p, k, IF k = "periodic" /\ stage[p] # "up" THEN "over" ELSE AfterSweep(k))
    /\ UNCHANGED <<pidVars, stage, stack, faults>>

-----------------------------------------------------------------------------
(* Shutdown.                                                               *)

\* The server stops once the requests it has are answered.
Shutdown(p) == /\ task[p]["manual"] # "running"
               /\ Passes(p, "up", "cancelling_sync")
               /\ UNCHANGED <<pidVars, stack, task, faults>>

\* Mutant of StopWaiting: the startup task is not cancelled.
StopLoop(p) ==
    /\ stage[p] = "cancelling_sync" /\ task[p]["periodic"] = "waiting"
    /\ TaskBecomes(p, "periodic", "over")
    /\ UNCHANGED <<pidVars, stage, stack, faults>>

\* A cancelled task ends, at once if it was waiting.
StopWaiting(p) ==
    /\ \/ /\ stage[p] = "cancelling_sync" /\ task[p]["periodic"] = "waiting"
          /\ TaskBecomes(p, "periodic", "over")
       \/ /\ stage[p] = "cancelling_startup" /\ task[p]["startup"] = "waiting"
          /\ TaskBecomes(p, "startup", "over")
    /\ UNCHANGED <<pidVars, stage, stack, faults>>

\* Mutant of Cancelled: a cancelled task is not waited for.
CancelOnly(p) ==
    /\ \/ Passes(p, "cancelling_sync", "cancelling_startup")
       \/ Passes(p, "cancelling_startup", "closing")
    /\ UNCHANGED <<pidVars, stack, task, faults>>

\* sync_task, then startup_task: cancelled, and awaited.
Cancelled(p) ==
    /\ \/ /\ task[p]["periodic"] \in {"none", "over"}
          /\ Passes(p, "cancelling_sync", "cancelling_startup")
       \/ /\ task[p]["startup"] \in {"none", "over"}
          /\ Passes(p, "cancelling_startup", "closing")
    /\ UNCHANGED <<pidVars, stack, task, faults>>

\* Mutant of Close: what was opened first is taken off the stack.
CloseOldest(p) ==
    /\ stage[p] = "closing" /\ stack[p] # <<>>
    /\ stack' = [stack EXCEPT ![p] = Tail(@)]
    /\ UNCHANGED <<pidVars, stage, task, faults>>

\* Mutant of Close: the pidfile is released first.
CloseFirst(p) ==
    /\ stage[p] = "closing"
    /\ \/ /\ at[p] # "released"
          /\ CheckOwn(p) \/ RemoveOwn(p)
          /\ UNCHANGED serverVars
       \/ /\ at[p] = "released" /\ stack[p] # <<>>
          /\ stack' = [stack EXCEPT ![p] = SubSeq(@, 1, Len(@) - 1)]
          /\ UNCHANGED <<pidVars, stage, task, faults>>

\* The resources are closed, last opened first; the pidfile is released last.
Close(p) ==
    /\ stage[p] = "closing"
    /\ \/ /\ Len(stack[p]) > 1
          /\ stack' = [stack EXCEPT ![p] = SubSeq(@, 1, Len(@) - 1)]
          /\ UNCHANGED <<pidVars, stage, task, faults>>
       \/ /\ Len(stack[p]) = 1 /\ at[p] # "released"
          /\ CheckOwn(p) \/ RemoveOwn(p)
          /\ UNCHANGED serverVars
       \/ /\ Len(stack[p]) = 1 /\ at[p] = "released"
          /\ stack' = [stack EXCEPT ![p] = <<>>]
          /\ UNCHANGED <<pidVars, stage, task, faults>>

\* The lifespan is over, and so is the process.
Exit(p) == /\ stack[p] = <<>>
           /\ Passes(p, "closing", "off")
           /\ Gone(p)
           /\ task' = [task EXCEPT ![p] = NoTasks]
           /\ UNCHANGED <<stack, faults>>

\* The process dies where it stands: nothing is closed or released.
Crash(p) == /\ stage[p] # "off"
            /\ Fault
            /\ Gone(p)
            /\ stage' = [stage EXCEPT ![p] = "off"]
            /\ stack' = [stack EXCEPT ![p] = <<>>]
            /\ task' = [task EXCEPT ![p] = NoTasks]

-----------------------------------------------------------------------------
Startup(p)  == Acquires(p) \/ RefuseSecond(p) \/ Acquired(p) \/ Initialized(p)
Teardown(p) == StopWaiting(p) \/ Cancelled(p) \/ Close(p) \/ Exit(p)

ServerNext ==
    \E p \in Procs : \/ Boot(p) \/ Startup(p) \/ InitializeFails(p)
                     \/ \E k \in Sweeps : RunOnce(p, k) \/ EndSweep(p, k)
                     \/ Shutdown(p) \/ Teardown(p) \/ Crash(p)

ServerSpec == ServerInit /\ [][ServerNext]_vars

\* A process that was started goes on, the loop's interval passes, and every
\* sweep ends; nobody has to send a request or stop the server.
FairServerSpec ==
    /\ ServerSpec
    /\ \A p \in Procs :
          /\ WF_vars(Startup(p))
          /\ WF_vars(RunOnce(p, "periodic"))
          /\ \A k \in Sweeps : WF_vars(EndSweep(p, k))
          /\ WF_vars(Teardown(p))

-----------------------------------------------------------------------------
\* What a process opened for its sweeps: more than the pidfile is left to close.
AtWork(p) == Len(stack[p]) > 1

\* Unless two processes were in acquire at once, no two of them have the cursor
\* store and the IronRAG client open in a lifespan at the same time: a shutdown
\* releases the pidfile only after everything else is closed.
OneAtWork == ~overlapped => \A p, q \in Procs : AtWork(p) /\ AtWork(q) => p = q

\* Startup, periodic and manual sweeps of a process never overlap, and none runs
\* in a process that does not hold the pidfile or has begun to close what the
\* sweep uses.
OneSweep ==
    \A p \in Procs : Running(p) # {} =>
        /\ \A k, l \in Running(p) : k = l
        /\ stack[p] = Resources
        /\ Holds(p)

\* A process that polls and stays up sweeps again and again, whatever requests
\* got in the way of its own sweeps.
SweepsGoOn ==
    \A p \in Procs : RunMode[p] # "webhook" =>
        (<>[](stage[p] = "up") => []<>(Running(p) # {}))

\* A server that is told to stop stops, whatever its tasks are doing.
ShutdownEnds ==
    \A p \in Procs : stage[p] = "cancelling_sync" ~> stage[p] = "off"
=============================================================================
