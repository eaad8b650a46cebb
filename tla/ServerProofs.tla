---------------------------- MODULE ServerProofs ----------------------------
(***************************************************************************)
(* Proofs about Server: whatever the number of processes, the pids, the    *)
(* run modes and the crashes, the pidfile keeps two connectors apart       *)
(* unless they were in acquire at the same time, and no sweep runs beside  *)
(* another one of its process or beyond what the lifespan holds open.      *)
(***************************************************************************)
EXTENDS Server, SequenceTheorems, TLAPS

(* The pidfile by itself.                                                  *)

\* What the steps of acquire and release keep true at all times.
PidBase == /\ PidTypeOK
           /\ \A p \in Procs : at[p] = "down" <=> pid[p] = NoPid
           /\ \A p, q \in Procs : pid[p] = pid[q] /\ pid[p] # NoPid => p = q

\* What they keep true as long as no two processes were in acquire at once: the
\* file holds its holder's pid, and nobody in acquire is past the probe of it.
PidApart == ~overlapped =>
    /\ \A p, q \in Procs : at[p] \in Acquiring /\ at[q] \in Acquiring => p = q
    /\ \A p \in Procs : at[p] = "write" => p \in opened
    /\ \A p \in Procs : Holds(p) =>
          /\ content = pid[p]
          /\ \A q \in Procs : /\ at[q] \notin {"unlink", "open", "write"}
                              /\ at[q] = "probe" => old[q] = pid[p]

PidInv == PidBase /\ PidApart

LEMMA PidInvInit == PidInit => PidInv
  BY PidsAssumption DEF PidInit, PidInv, PidBase, PidApart, PidTypeOK, Places, Acquiring, Holds

LEMMA SpawnKeeps == ASSUME PidInv, NEW p \in Procs, Spawn(p) PROVE PidInv'
<1>1. PICK i \in Pids : ~Alive(i) /\ pid' = [pid EXCEPT ![p] = i]
  BY DEF Spawn
<1>2. PidBase'
  BY <1>1, PidsAssumption DEF PidInv, PidBase, PidTypeOK, Spawn, Moves, Places, Alive
<1>3. PidApart'
  BY <1>1 DEF PidInv, PidBase, PidApart, PidTypeOK, Spawn, Moves, Acquiring, Holds
<1> QED BY <1>2, <1>3 DEF PidInv

LEMMA GoneKeeps == ASSUME PidInv, NEW p \in Procs, Gone(p) PROVE PidInv'
<1>1. PidBase'
  BY DEF PidInv, PidBase, PidTypeOK, Gone, Places
<1>2. PidApart'
  BY DEF PidInv, PidBase, PidApart, PidTypeOK, Gone, Acquiring, Holds
<1> QED BY <1>1, <1>2 DEF PidInv

LEMMA LookKeeps == ASSUME PidInv, NEW p \in Procs, Look(p) PROVE PidInv'
<1>1. PidBase'
  BY DEF PidInv, PidBase, PidTypeOK, Look, Moves, Places, Acquiring
<1>2. ASSUME ~overlapped' PROVE ~overlapped /\ \A q \in Procs \ {p} : at[q] \notin Acquiring
  BY <1>2 DEF Look
<1>3. ASSUME ~overlapped', NEW h \in Procs, Holds(h) PROVE at'[p] = "read"
  BY <1>2, <1>3, PidsAssumption DEF PidInv, PidBase, PidApart, PidTypeOK, Look, Moves, Holds
<1>4. PidApart'
  BY <1>2, <1>3 DEF PidInv, PidBase, PidApart, PidTypeOK, Look, Moves, Acquiring, Holds
<1> QED BY <1>1, <1>4 DEF PidInv

LEMMA ReadOldKeeps == ASSUME PidInv, NEW p \in Procs, ReadOld(p) PROVE PidInv'
<1>1. PidBase'
  BY DEF PidInv, PidBase, PidTypeOK, ReadOld, Moves, Places, Acquiring
<1>2. ASSUME ~overlapped, NEW h \in Procs, Holds(h)
      PROVE at'[p] = "probe" /\ old'[p] = pid[h]
  BY <1>2, PidsAssumption DEF PidInv, PidBase, PidApart, PidTypeOK, ReadOld, Moves, Holds
<1>3. PidApart'
  BY <1>2 DEF PidInv, PidBase, PidApart, PidTypeOK, ReadOld, Moves, Acquiring, Holds
<1> QED BY <1>1, <1>3 DEF PidInv

\* The probed process is gone, so it holds nothing.
LEMMA ProbeStaleKeeps == ASSUME PidInv, NEW p \in Procs, ProbeStale(p) PROVE PidInv'
<1>1. PidBase'
  BY DEF PidInv, PidBase, PidTypeOK, ProbeStale, Moves, Places, Acquiring
<1>2. ASSUME ~overlapped, NEW h \in Procs PROVE ~Holds(h)
  BY <1>2 DEF PidInv, PidBase, PidApart, PidTypeOK, ProbeStale, Moves, Alive
<1>3. PidApart'
  BY <1>2 DEF PidInv, PidBase, PidApart, PidTypeOK, ProbeStale, Moves, Acquiring, Holds
<1> QED BY <1>1, <1>3 DEF PidInv

LEMMA UnlinkStaleKeeps == ASSUME PidInv, NEW p \in Procs, UnlinkStale(p) PROVE PidInv'
<1>1. PidBase'
  BY DEF PidInv, PidBase, PidTypeOK, UnlinkStale, Moves, Places, Acquiring
<1>2. ASSUME ~overlapped, NEW h \in Procs PROVE ~Holds(h)
  BY <1>2 DEF PidInv, PidApart, UnlinkStale, Moves
<1>3. PidApart'
  BY <1>2 DEF PidInv, PidBase, PidApart, PidTypeOK, UnlinkStale, Moves, Acquiring, Holds
<1> QED BY <1>1, <1>3 DEF PidInv

LEMMA OpenFileKeeps == ASSUME PidInv, NEW p \in Procs, OpenFile(p) PROVE PidInv'
<1>1. PidBase'
  BY DEF PidInv, PidBase, PidTypeOK, OpenFile, Moves, Places, Acquiring
<1>2. ASSUME ~overlapped, NEW h \in Procs PROVE ~Holds(h)
  BY <1>2 DEF PidInv, PidApart, OpenFile, Moves
<1>3. PidApart'
  BY <1>2 DEF PidInv, PidBase, PidApart, PidTypeOK, OpenFile, Moves, Acquiring, Holds
<1> QED BY <1>1, <1>3 DEF PidInv

LEMMA WritePidKeeps == ASSUME PidInv, NEW p \in Procs, WritePid(p) PROVE PidInv'
<1>1. pid[p] \in Pids
  BY DEF PidInv, PidBase, PidTypeOK, WritePid, Moves
<1>2. PidBase'
  BY <1>1 DEF PidInv, PidBase, PidTypeOK, WritePid, Moves, Places, Acquiring
<1>3. ASSUME ~overlapped, NEW h \in Procs PROVE ~Holds(h)
  BY <1>3 DEF PidInv, PidApart, WritePid, Moves
<1>4. ASSUME ~overlapped, NEW q \in Procs, q # p PROVE at[q] \notin Acquiring
  BY <1>4 DEF PidInv, PidApart, WritePid, Moves, Acquiring
<1>5. PidApart'
  BY <1>3, <1>4 DEF PidInv, PidBase, PidApart, PidTypeOK, WritePid, Moves, Acquiring, Holds
<1> QED BY <1>2, <1>5 DEF PidInv

LEMMA CheckOwnKeeps == ASSUME PidInv, NEW p \in Procs, CheckOwn(p) PROVE PidInv'
<1>1. PidBase'
  BY DEF PidInv, PidBase, PidTypeOK, CheckOwn, Moves, Places
<1>2. PidApart'
  BY DEF PidInv, PidBase, PidApart, PidTypeOK, CheckOwn, Moves, Acquiring, Holds
<1> QED BY <1>1, <1>2 DEF PidInv

LEMMA RemoveOwnKeeps == ASSUME PidInv, NEW p \in Procs, RemoveOwn(p) PROVE PidInv'
<1>1. PidBase'
  BY DEF PidInv, PidBase, PidTypeOK, RemoveOwn, Moves, Places
<1>2. ASSUME ~overlapped, NEW h \in Procs, h # p PROVE ~Holds(h)
  BY <1>2, PidsAssumption DEF PidInv, PidBase, PidApart, PidTypeOK, RemoveOwn, Moves, Holds
<1>3. ASSUME ~overlapped, NEW q \in Procs PROVE at[q] \notin {"unlink", "open", "write"}
  BY <1>3 DEF PidInv, PidApart, RemoveOwn, Moves, Holds
<1>4. PidApart'
  BY <1>2, <1>3 DEF PidInv, PidBase, PidApart, PidTypeOK, RemoveOwn, Moves, Acquiring, Holds
<1> QED BY <1>1, <1>4 DEF PidInv

LEMMA PidStepKeeps == ASSUME PidInv, NEW p \in Procs, PidStep(p) PROVE PidInv'
  BY SpawnKeeps, LookKeeps, ReadOldKeeps, ProbeStaleKeeps, UnlinkStaleKeeps, OpenFileKeeps,
     WritePidKeeps, GoneKeeps, CheckOwnKeeps, RemoveOwnKeeps
     DEF PidStep, Acquire, ProbeBusy

LEMMA HoldersAgree == PidInv => OneHolder
  BY DEF PidInv, PidBase, PidApart, OneHolder, Holds, PidTypeOK

\* Every step of the server is a step of the pidfile of one process, or none.
LEMMA ServerStepIsPidStep ==
    ASSUME [ServerNext]_vars
    PROVE  (\E p \in Procs : PidStep(p)) \/ UNCHANGED pidVars
<1>1. CASE UNCHANGED vars
  BY <1>1 DEF vars
<1>2. ASSUME NEW p \in Procs, Startup(p) PROVE PidStep(p) \/ UNCHANGED pidVars
  BY <1>2 DEF Startup, Acquires, RefuseSecond, Acquired, Initialized, PidStep
<1>3. ASSUME NEW p \in Procs, Teardown(p) PROVE PidStep(p) \/ UNCHANGED pidVars
  BY <1>3 DEF Teardown, StopWaiting, Cancelled, Close, Exit, PidStep
<1>4. ASSUME NEW p \in Procs, NEW k \in Sweeps, RunOnce(p, k) \/ EndSweep(p, k)
      PROVE  UNCHANGED pidVars
  BY <1>4 DEF RunOnce, EndSweep
<1>5. ASSUME NEW p \in Procs, Boot(p) \/ InitializeFails(p) \/ Shutdown(p) \/ Crash(p)
      PROVE  PidStep(p) \/ UNCHANGED pidVars
  BY <1>5 DEF Boot, InitializeFails, Shutdown, Crash, PidStep
<1> QED BY <1>1, <1>2, <1>3, <1>4, <1>5 DEF ServerNext

LEMMA PidInvAlways == ServerSpec => []PidInv
<1>1. ServerInit => PidInv
  BY PidInvInit DEF ServerInit
<1>2. PidInv /\ [ServerNext]_vars => PidInv'
  <2> SUFFICES ASSUME PidInv, [ServerNext]_vars PROVE PidInv'
    OBVIOUS
  <2>1. CASE UNCHANGED pidVars
    BY <2>1 DEF PidInv, PidBase, PidApart, PidTypeOK, Holds, pidVars
  <2>2. ASSUME NEW p \in Procs, PidStep(p) PROVE PidInv'
    BY <2>2, PidStepKeeps
  <2> QED BY <2>1, <2>2, ServerStepIsPidStep
<1> QED BY <1>1, <1>2, PTL DEF ServerSpec

\* Unless two processes were in acquire at once, the pidfile has one holder.
THEOREM PidfileExcludes == ServerSpec => []OneHolder
  BY PidInvAlways, HoldersAgree, PTL

-----------------------------------------------------------------------------
(* The lifespan.                                                           *)

Kept == {"pidfile", "state", "adapter", "ironrag"}

\* Everything is open.
Serving == {"initializing", "up", "cancelling_sync", "cancelling_startup"}

\* What a process has open and running in each stage of its lifespan.
Staged(p) ==
    /\ stage[p] \in Serving => stack[p] = Resources /\ at[p] = "held"
    /\ Len(stack[p]) > 1 => at[p] = "held"
    /\ stage[p] \in {"off", "acquiring", "initializing", "closing"} => Running(p) = {}
    /\ stage[p] \in {"cancelling_sync", "cancelling_startup"} => "manual" \notin Running(p)
    /\ stage[p] = "cancelling_startup" => "periodic" \notin Running(p)
    /\ \A k, l \in Running(p) : k = l

ServerInv ==
    /\ PidTypeOK
    /\ stage \in [Procs -> Stages]
    /\ stack \in [Procs -> Seq(Kept)]
    /\ task \in [Procs -> [Sweeps -> {"none", "waiting", "running", "over"}]]
    /\ \A p \in Procs : Staged(p)

LEMMA ResourcesSeq == Resources \in Seq(Kept) /\ Len(Resources) = 4
<1>1. Resources \in Seq(Kept)
  BY DEF Resources, Kept
<1>2. Len(Resources) = 4
  BY DEF Resources
<1> QED BY <1>1, <1>2

\* One process moves at a time.
LEMMA OthersStay ==
    ASSUME ServerInv, NEW p \in Procs, PidTypeOK',
           stage' \in [Procs -> Stages], stack' \in [Procs -> Seq(Kept)],
           task' \in [Procs -> [Sweeps -> {"none", "waiting", "running", "over"}]],
           \A q \in Procs : q # p => /\ at'[q] = at[q] /\ stage'[q] = stage[q]
                                    /\ stack'[q] = stack[q] /\ task'[q] = task[q],
           Staged(p)'
    PROVE  ServerInv'
<1>1. ASSUME NEW q \in Procs, q # p PROVE Staged(q)'
  <2>1. Running(q)' = Running(q)
    BY <1>1 DEF Running
  <2> QED BY <1>1, <2>1 DEF ServerInv, Staged
<1> QED BY <1>1 DEF ServerInv

LEMMA ServerInvInit == ServerInit => ServerInv
<1> SUFFICES ASSUME ServerInit PROVE ServerInv
  OBVIOUS
<1>1. PidTypeOK
  BY PidInvInit DEF ServerInit, PidInv, PidBase
<1>2. stack \in [Procs -> Seq(Kept)] /\ \A p \in Procs : Len(stack[p]) = 0
  BY DEF ServerInit
<1> QED BY <1>1, <1>2 DEF ServerInit, ServerInv, Staged, Stages, Serving, Sweeps, NoTasks, Running

\* A step of the pidfile moves its own process only.
LEMMA PidStepIsOwn ==
    ASSUME PidInv, NEW p \in Procs, PidStep(p), NEW q \in Procs, q # p
    PROVE  at'[q] = at[q]
  BY DEF PidInv, PidBase, PidTypeOK, PidStep, Acquire, Spawn, Look, ReadOld, ProbeStale,
         UnlinkStale, OpenFile, WritePid, ProbeBusy, CheckOwn, RemoveOwn, Gone, Moves

LEMMA BootKeeps == ASSUME PidInv, ServerInv, NEW p \in Procs, Boot(p) PROVE ServerInv'
<1>1. PidTypeOK' /\ \A q \in Procs : q # p => at'[q] = at[q]
  BY PidStepKeeps, PidStepIsOwn DEF Boot, PidStep, PidInv, PidBase
<1>2. at[p] = "down"
  BY DEF Boot, Spawn, Moves
<1>3. Staged(p)'
  BY <1>2 DEF ServerInv, Staged, Boot, Passes, Serving, Running, Stages
<1> QED BY <1>1, <1>3, OthersStay DEF ServerInv, Boot, Passes, Stages

LEMMA AcquiresKeeps == ASSUME PidInv, ServerInv, NEW p \in Procs, Acquires(p) PROVE ServerInv'
<1>1. PidTypeOK' /\ \A q \in Procs : q # p => at'[q] = at[q]
  BY PidStepKeeps, PidStepIsOwn DEF Acquires, PidStep, PidInv, PidBase
<1>2. at[p] # "held"
  BY DEF Acquires, Acquire, Look, ReadOld, ProbeStale, UnlinkStale, OpenFile, Moves
<1>3. Staged(p)'
  BY <1>2 DEF ServerInv, Staged, Acquires, serverVars, Running
<1> QED BY <1>1, <1>3, OthersStay DEF ServerInv, Acquires, serverVars

\* Steps of the pidfile that are also steps of the lifespan.
LEMMA PidMoved == ASSUME PidInv, NEW p \in Procs, PidStep(p)
                  PROVE  PidTypeOK' /\ \A q \in Procs : q # p => at'[q] = at[q]
  BY PidStepKeeps, PidStepIsOwn DEF PidInv, PidBase

\* Only what is running matters to a process whose lifespan stands still.
LEMMA TasksMove ==
    ASSUME ServerInv, NEW p \in Procs, NEW k \in Sweeps,
           NEW s \in {"none", "waiting", "running", "over"}, TaskBecomes(p, k, s),
           UNCHANGED <<pidVars, stage, stack>>,
           s = "running" => /\ Running(p) = {}
                            /\ \/ stage[p] = "up"
                               \/ stage[p] = "cancelling_sync" /\ k = "startup"
    PROVE  ServerInv'
<1>1. Running(p)' = IF s = "running" THEN Running(p) \cup {k} ELSE Running(p) \ {k}
  BY DEF Running, ServerInv, TaskBecomes
<1>2. Staged(p)'
  BY <1>1 DEF ServerInv, Staged, pidVars, Serving, Sweeps
<1>3. \A q \in Procs : q # p => task'[q] = task[q]
  BY DEF ServerInv, TaskBecomes
<1>4. task' \in [Procs -> [Sweeps -> {"none", "waiting", "running", "over"}]]
  BY DEF ServerInv, TaskBecomes
<1> QED BY <1>2, <1>3, <1>4, OthersStay DEF ServerInv, pidVars, PidTypeOK

LEMMA RunOnceKeeps == ASSUME ServerInv, NEW p \in Procs, NEW k \in Sweeps, RunOnce(p, k)
                      PROVE  ServerInv'
  BY TasksMove DEF RunOnce, MayRun, AfterSweep

LEMMA EndSweepKeeps == ASSUME ServerInv, NEW p \in Procs, NEW k \in Sweeps, EndSweep(p, k)
                       PROVE  ServerInv'
  BY TasksMove DEF EndSweep, AfterSweep

LEMMA StopWaitingKeeps == ASSUME ServerInv, NEW p \in Procs, StopWaiting(p) PROVE ServerInv'
  BY TasksMove DEF StopWaiting, Sweeps

\* The lifespan moves on, its tasks as they are.
LEMMA StageMoves ==
    ASSUME ServerInv, NEW p \in Procs, NEW s \in Stages, NEW t \in Stages, Passes(p, s, t),
           UNCHANGED <<pidVars, stack, task>>, Staged(p)'
    PROVE  ServerInv'
  BY OthersStay DEF ServerInv, Passes, pidVars, PidTypeOK

LEMMA InitializeFailsKeeps == ASSUME ServerInv, NEW p \in Procs, InitializeFails(p)
                              PROVE  ServerInv'
<1>1. Running(p)' = Running(p)
  BY DEF InitializeFails, Running
<1>2. Staged(p)'
  BY <1>1 DEF ServerInv, Staged, InitializeFails, Passes, pidVars, Serving
<1> QED BY <1>2, StageMoves DEF InitializeFails, Stages

LEMMA ShutdownKeeps == ASSUME ServerInv, NEW p \in Procs, Shutdown(p) PROVE ServerInv'
<1>1. Running(p)' = Running(p) /\ "manual" \notin Running(p)
  BY DEF Shutdown, Running
<1>2. Staged(p)'
  BY <1>1 DEF ServerInv, Staged, Shutdown, Passes, pidVars, Serving
<1> QED BY <1>2, StageMoves DEF Shutdown, Stages

LEMMA CancelledKeeps == ASSUME ServerInv, NEW p \in Procs, Cancelled(p) PROVE ServerInv'
<1>1. Running(p)' = Running(p)
  BY DEF Cancelled, Running
<1>2. CASE Passes(p, "cancelling_sync", "cancelling_startup") /\ task[p]["periodic"] # "running"
  <2>1. "periodic" \notin Running(p)
    BY <1>2 DEF Running
  <2>2. Staged(p)'
    BY <1>1, <1>2, <2>1 DEF ServerInv, Staged, Cancelled, Passes, pidVars, Serving
  <2> QED BY <1>2, <2>2, StageMoves DEF Cancelled, Stages
<1>3. CASE Passes(p, "cancelling_startup", "closing") /\ task[p]["startup"] # "running"
  <2>1. Running(p) = {}
    BY <1>3 DEF Running, ServerInv, Staged, Passes, Sweeps
  <2>2. Staged(p)'
    BY <1>1, <1>3, <2>1 DEF ServerInv, Staged, Cancelled, Passes, pidVars, Serving
  <2> QED BY <1>3, <2>2, StageMoves DEF Cancelled, Stages
<1> QED BY <1>2, <1>3 DEF Cancelled

LEMMA InitializedKeeps == ASSUME ServerInv, NEW p \in Procs, Initialized(p) PROVE ServerInv'
<1>1. Running(p)' = {}
  BY DEF Initialized, Running, Tasks, ServerInv
<1>2. Staged(p)'
  BY <1>1 DEF ServerInv, Staged, Initialized, Passes, pidVars, Serving
<1>3. task' \in [Procs -> [Sweeps -> {"none", "waiting", "running", "over"}]]
  BY DEF ServerInv, Initialized, Tasks
<1> QED BY <1>2, <1>3, OthersStay DEF ServerInv, Initialized, Passes, pidVars, PidTypeOK, Stages

LEMMA RefuseSecondKeeps == ASSUME PidInv, ServerInv, NEW p \in Procs, RefuseSecond(p)
                           PROVE  ServerInv'
<1>1. PidTypeOK' /\ \A q \in Procs : q # p => at'[q] = at[q]
  BY PidMoved DEF RefuseSecond, PidStep
<1>2. at[p] # "held"
  BY DEF RefuseSecond, ProbeBusy
<1>3. Running(p)' = Running(p)
  BY DEF RefuseSecond, Running
<1>4. Staged(p)'
  BY <1>2, <1>3 DEF ServerInv, Staged, RefuseSecond, Passes, Serving
<1> QED BY <1>1, <1>4, OthersStay DEF ServerInv, RefuseSecond, Passes, Stages

LEMMA AcquiredKeeps == ASSUME PidInv, ServerInv, NEW p \in Procs, Acquired(p)
                       PROVE  ServerInv'
<1>1. PidTypeOK' /\ \A q \in Procs : q # p => at'[q] = at[q]
  BY PidMoved DEF Acquired, PidStep
<1>2. at'[p] = "held" /\ stack'[p] = Resources
  BY DEF Acquired, WritePid, Moves, ServerInv, PidTypeOK
<1>3. Running(p)' = Running(p)
  BY DEF Acquired, Running
<1>4. Staged(p)'
  BY <1>2, <1>3 DEF ServerInv, Staged, Acquired, Passes, Serving
<1> QED BY <1>1, <1>4, ResourcesSeq, OthersStay DEF ServerInv, Acquired, Passes, Stages

LEMMA GoneLeaves ==
    ASSUME PidInv, ServerInv, NEW p \in Procs, Gone(p), stage' = [stage EXCEPT ![p] = "off"],
           stack' = [stack EXCEPT ![p] = <<>>], task' = [task EXCEPT ![p] = NoTasks]
    PROVE  ServerInv'
<1>1. PidTypeOK' /\ \A q \in Procs : q # p => at'[q] = at[q]
  BY PidMoved DEF PidStep
<1>2. Running(p)' = {}
  BY DEF Running, NoTasks, ServerInv
<1>3. Len(stack'[p]) = 0
  BY DEF ServerInv
<1>4. Staged(p)'
  BY <1>2, <1>3 DEF ServerInv, Staged, Serving
<1>5. task' \in [Procs -> [Sweeps -> {"none", "waiting", "running", "over"}]]
  BY DEF ServerInv, NoTasks
<1> QED BY <1>1, <1>4, <1>5, OthersStay DEF ServerInv, Stages

LEMMA CrashKeeps == ASSUME PidInv, ServerInv, NEW p \in Procs, Crash(p) PROVE ServerInv'
  BY GoneLeaves DEF Crash

LEMMA ExitKeeps == ASSUME PidInv, ServerInv, NEW p \in Procs, Exit(p) PROVE ServerInv'
<1>1. stack' = [stack EXCEPT ![p] = <<>>]
  BY DEF Exit, ServerInv
<1> QED BY <1>1, GoneLeaves DEF Exit, Passes

LEMMA CloseKeeps == ASSUME PidInv, ServerInv, NEW p \in Procs, Close(p) PROVE ServerInv'
<1>1. stage[p] = "closing" /\ stage' = stage /\ task' = task
  BY DEF Close, serverVars
<1>2. Running(p)' = Running(p)
  BY <1>1 DEF Running
<1>3. CASE Len(stack[p]) = 1 /\ (CheckOwn(p) \/ RemoveOwn(p)) /\ UNCHANGED serverVars
  <2>1. PidTypeOK' /\ \A q \in Procs : q # p => at'[q] = at[q]
    BY <1>3, PidMoved DEF PidStep
  <2>2. stack' = stack
    BY <1>3 DEF serverVars
  <2>3. Len(stack[p]) = 1
    BY <1>3
  <2>4. Staged(p)'
    BY <1>1, <1>2, <2>2, <2>3 DEF ServerInv, Staged, Serving
  <2> QED BY <1>1, <2>1, <2>2, <2>4, OthersStay DEF ServerInv
<1>4. ASSUME NEW s \in Seq(Kept), stack' = [stack EXCEPT ![p] = s],
             Len(s) < Len(stack[p]), UNCHANGED pidVars
      PROVE  ServerInv'
  <2>1. stack' \in [Procs -> Seq(Kept)] /\ stack'[p] = s
    BY <1>4 DEF ServerInv
  <2>2. Staged(p)'
    BY <1>1, <1>2, <1>4, <2>1 DEF ServerInv, Staged, pidVars, Serving
  <2> QED BY <1>1, <1>4, <2>1, <2>2, OthersStay DEF ServerInv, pidVars, PidTypeOK
<1>5. stack[p] \in Seq(Kept)
  BY DEF ServerInv
<1>6. ASSUME Len(stack[p]) > 1
      PROVE  LET s == SubSeq(stack[p], 1, Len(stack[p]) - 1)
             IN  s \in Seq(Kept) /\ Len(s) < Len(stack[p])
  BY <1>5, <1>6
<1>7. <<>> \in Seq(Kept) /\ Len(<<>>) = 0
  OBVIOUS
<1>8. CASE /\ Len(stack[p]) > 1 /\ UNCHANGED pidVars
           /\ stack' = [stack EXCEPT ![p] = SubSeq(@, 1, Len(@) - 1)]
  <2> DEFINE s == SubSeq(stack[p], 1, Len(stack[p]) - 1)
  <2>1. stack' = [stack EXCEPT ![p] = s]
    BY <1>8
  <2>2. s \in Seq(Kept) /\ Len(s) < Len(stack[p])
    BY <1>6, <1>8
  <2> HIDE DEF s
  <2> QED BY <1>4, <1>8, <2>1, <2>2
<1>9. CASE /\ Len(stack[p]) = 1 /\ UNCHANGED pidVars
           /\ stack' = [stack EXCEPT ![p] = <<>>]
  <2> DEFINE s == <<>>
  <2>1. stack' = [stack EXCEPT ![p] = s]
    BY <1>9
  <2>2. s \in Seq(Kept) /\ Len(s) < Len(stack[p])
    BY <1>7, <1>9
  <2> HIDE DEF s
  <2> QED BY <1>4, <1>9, <2>1, <2>2
<1> QED BY <1>3, <1>8, <1>9 DEF Close

LEMMA ServerInvAlways == ServerSpec => []ServerInv
<1>1. PidInv /\ ServerInv /\ [ServerNext]_vars => ServerInv'
  <2> SUFFICES ASSUME PidInv, ServerInv, [ServerNext]_vars PROVE ServerInv'
    OBVIOUS
  <2>1. CASE UNCHANGED vars
    BY <2>1 DEF vars, pidVars, serverVars, ServerInv, Staged, Running, PidTypeOK
  <2>2. ASSUME NEW p \in Procs, Boot(p) \/ InitializeFails(p) \/ Shutdown(p) \/ Crash(p)
        PROVE  ServerInv'
    BY <2>2, BootKeeps, InitializeFailsKeeps, ShutdownKeeps, CrashKeeps
  <2>3. ASSUME NEW p \in Procs, Startup(p) PROVE ServerInv'
    BY <2>3, AcquiresKeeps, RefuseSecondKeeps, AcquiredKeeps, InitializedKeeps DEF Startup
  <2>4. ASSUME NEW p \in Procs, Teardown(p) PROVE ServerInv'
    BY <2>4, StopWaitingKeeps, CancelledKeeps, CloseKeeps, ExitKeeps DEF Teardown
  <2>5. ASSUME NEW p \in Procs, NEW k \in Sweeps, RunOnce(p, k) \/ EndSweep(p, k)
        PROVE  ServerInv'
    BY <2>5, RunOnceKeeps, EndSweepKeeps
  <2> QED BY <2>1, <2>2, <2>3, <2>4, <2>5 DEF ServerNext
<1> QED BY <1>1, ServerInvInit, PidInvAlways, PTL DEF ServerSpec

\* Unless two processes were in acquire at once, only one has the cursor store
\* and the clients open in a lifespan, however the others start, stop and crash.
THEOREM WorkExcludes == ServerSpec => []OneAtWork
<1>1. ServerInv /\ OneHolder => OneAtWork
  BY DEF ServerInv, Staged, OneHolder, OneAtWork, AtWork, Holds
<1> QED BY <1>1, ServerInvAlways, PidfileExcludes, PTL

\* A process runs one sweep at a time, under the pidfile and with everything open.
THEOREM SweepsExclude == ServerSpec => []OneSweep
<1>1. ServerInv => OneSweep
  BY DEF ServerInv, Staged, OneSweep, Holds, Stages, Serving, Running
<1> QED BY <1>1, ServerInvAlways, PTL


-----------------------------------------------------------------------------
(* The type invariant.                                                     *)

\* What is open was opened in order, and is closed from the end.
Prefix(s) == \E n \in 0 .. Len(Resources) : s = SubSeq(Resources, 1, n)

StackInv == faults \in 0 .. MaxFaults /\ \A p \in Procs : Prefix(stack[p])

LEMMA FirstOf ==
    ASSUME NEW S, NEW s \in Seq(S), NEW n \in Nat, n <= Len(s)
    PROVE  /\ SubSeq(s, 1, n) \in Seq(S) /\ Len(SubSeq(s, 1, n)) = n
           /\ \A k \in 1 .. n : SubSeq(s, 1, n)[k] = s[k]
<1>1. Len(s) \in Nat
  BY LenProperties
<1>2. \A k \in 1 .. n : s[k] \in S
  <2>1. TAKE k \in 1 .. n
  <2>2. k \in 1 .. Len(s)
    BY <1>1
  <2>3. QED
    BY <2>2, ElementOfSeq
<1>3. 1 \in Int /\ n \in Int
  OBVIOUS
<1>4. /\ SubSeq(s, 1, n) \in Seq(S)
      /\ Len(SubSeq(s, 1, n)) = IF 1 <= n THEN n - 1 + 1 ELSE 0
      /\ \A k \in 1 .. n - 1 + 1 : SubSeq(s, 1, n)[k] = s[1 + k - 1]
  BY <1>2, <1>3, SubSeqProperties
<1>5. (IF 1 <= n THEN n - 1 + 1 ELSE 0) = n
  OBVIOUS
<1>6. n - 1 + 1 = n /\ \A k \in 1 .. n : 1 + k - 1 = k
  OBVIOUS
<1>7. QED
  BY <1>4, <1>5, <1>6

LEMMA PrefixFacts ==
    /\ Prefix(<<>>) /\ Prefix(Resources)
    /\ \A s : Prefix(s) /\ Len(s) > 1 => Prefix(SubSeq(s, 1, Len(s) - 1))
<1> DEFINE R == Resources
<1>1. R \in Seq(Kept) /\ Len(R) = 4
  BY ResourcesSeq
<1> HIDE DEF R
<1>2. R = SubSeq(R, 1, 4) /\ <<>> = SubSeq(R, 1, 0)
  BY <1>1, SubSeqFull, SubSeqEmpty
<1>3. ASSUME NEW n \in 0 .. 4, NEW s, s = SubSeq(R, 1, n), Len(s) > 1
      PROVE  n - 1 \in 0 .. 4 /\ SubSeq(s, 1, Len(s) - 1) = SubSeq(R, 1, n - 1)
  <2>1. s \in Seq(Kept) /\ Len(s) = n
    BY <1>1, <1>3, FirstOf
  <2>2. \A k \in 1 .. n : s[k] = R[k]
    BY <1>1, <1>3, FirstOf
  <2>3. PICK m \in 0 .. 4 : m = n - 1
    BY <1>3, <2>1
  <2>4. m \in Nat /\ m <= Len(s) /\ m <= Len(R) /\ m <= n
    BY <1>1, <2>1, <2>3
  <2>5. /\ SubSeq(s, 1, m) \in Seq(Kept) /\ Len(SubSeq(s, 1, m)) = m
        /\ \A k \in 1 .. m : SubSeq(s, 1, m)[k] = s[k]
    BY <2>1, <2>4, FirstOf
  <2>6. /\ SubSeq(R, 1, m) \in Seq(Kept) /\ Len(SubSeq(R, 1, m)) = m
        /\ \A k \in 1 .. m : SubSeq(R, 1, m)[k] = R[k]
    BY <1>1, <2>4, FirstOf
  <2>7. \A k \in 1 .. m : SubSeq(s, 1, m)[k] = SubSeq(R, 1, m)[k]
    BY <2>2, <2>4, <2>5, <2>6
  <2>8. SubSeq(s, 1, m) = SubSeq(R, 1, m)
    BY <2>5, <2>6, <2>7, SeqEqual
  <2>9. QED
    BY <2>1, <2>3, <2>8
<1>4. QED
  BY <1>1, <1>2, <1>3 DEF Prefix, R

LEMMA StackInvInit == ServerInit => StackInv
  BY PrefixFacts, MaxFaultsAssumption DEF ServerInit, StackInv

LEMMA StackInvStep == ServerInv /\ StackInv /\ [ServerNext]_vars => StackInv'
<1> SUFFICES ASSUME ServerInv, StackInv, [ServerNext]_vars PROVE StackInv'
  OBVIOUS
<1>1. faults' \in 0 .. MaxFaults
  <2>1. faults' = faults \/ Fault
    BY DEF ServerNext, Boot, Startup, Acquires, RefuseSecond, Acquired, Initialized,
           InitializeFails, RunOnce, EndSweep, Shutdown, Teardown, StopWaiting, Cancelled,
           Close, Exit, Crash, vars, serverVars
  <2>2. QED
    BY <2>1, MaxFaultsAssumption DEF StackInv, Fault
<1>2. ASSUME NEW p \in Procs, NEW s, Prefix(s), stack' = [stack EXCEPT ![p] = s]
      PROVE  \A q \in Procs : Prefix(stack'[q])
  BY <1>2 DEF StackInv, ServerInv
<1>3. ASSUME NEW p \in Procs, Acquired(p) PROVE \A q \in Procs : Prefix(stack'[q])
  BY <1>2, <1>3, PrefixFacts DEF Acquired
<1>4. ASSUME NEW p \in Procs, Close(p), stack' # stack
      PROVE  \A q \in Procs : Prefix(stack'[q])
  <2>1. CASE Len(stack[p]) > 1 /\ stack' = [stack EXCEPT ![p] = SubSeq(@, 1, Len(@) - 1)]
    <3> DEFINE s == SubSeq(stack[p], 1, Len(stack[p]) - 1)
    <3>1. Prefix(s)
      BY <2>1, PrefixFacts DEF StackInv
    <3>2. stack' = [stack EXCEPT ![p] = s]
      BY <2>1
    <3> HIDE DEF s
    <3>3. QED
      BY <1>2, <3>1, <3>2
  <2>2. CASE stack' = [stack EXCEPT ![p] = <<>>]
    BY <1>2, <2>2, PrefixFacts
  <2>3. QED
    BY <1>4, <2>1, <2>2 DEF Close, serverVars
<1>5. ASSUME NEW p \in Procs, Crash(p) PROVE \A q \in Procs : Prefix(stack'[q])
  BY <1>2, <1>5, PrefixFacts DEF Crash
<1>6. \/ stack' = stack
      \/ \E p \in Procs : Acquired(p) \/ (Close(p) /\ stack' # stack) \/ Crash(p)
  BY DEF ServerNext, Boot, Startup, Acquires, RefuseSecond, Initialized,
         InitializeFails, RunOnce, EndSweep, Shutdown, Teardown, StopWaiting, Cancelled,
         Exit, vars, serverVars
<1>7. QED
  BY <1>1, <1>3, <1>4, <1>5, <1>6 DEF StackInv

\* Every reachable state of the processes and their pidfile is well typed: in
\* particular what a lifespan has open is always what it opened first.
THEOREM ServerTypeCorrect == ServerSpec => []ServerTypeOK
<1>1. ServerInv /\ StackInv => ServerTypeOK
  BY DEF ServerInv, StackInv, Prefix, ServerTypeOK
<1>2. QED
  BY <1>1, StackInvInit, StackInvStep, ServerInvAlways, PTL DEF ServerSpec
=============================================================================
