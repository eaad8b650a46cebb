------------------------------ MODULE Pidfile ------------------------------
(***************************************************************************)
(* pidfile.py: PidfileLock.acquire and release, one step per system call,  *)
(* by processes that start, end and crash around one pidfile.  A process   *)
(* that ends gives its pid back; a later one may get it.                   *)
(***************************************************************************)
EXTENDS Naturals

CONSTANTS
    Procs,          \* processes that may run at the same time
    Pids,
    NoPid

ASSUME PidsAssumption == {NoPid, "empty", "absent"} \cap Pids = {}

VARIABLES
    pid,            \* each live process's pid
    at,             \* where it is in acquire or release
    old,            \* old_pid: the pid it read from the file
    content,        \* what the pidfile holds: a pid, "empty", or "absent"
    opened,         \* processes whose open file is the pidfile of now
    overlapped      \* history: two processes were in acquire at once

pidVars == <<pid, at, old, content, opened, overlapped>>

\* Between the calls of acquire, and of release.
Acquiring == {"read", "probe", "unlink", "open", "write"}
Places    == Acquiring \cup {"down", "look", "held", "remove", "released"}

PidTypeOK == /\ pid \in [Procs -> Pids \cup {NoPid}]
             /\ at \in [Procs -> Places]
             /\ old \in [Procs -> Pids \cup {NoPid}]
             /\ content \in Pids \cup {"empty", "absent"}
             /\ opened \subseteq Procs
             /\ overlapped \in BOOLEAN

PidInit == /\ pid = [p \in Procs |-> NoPid]
           /\ at = [p \in Procs |-> "down"]
           /\ old = [p \in Procs |-> NoPid]
           /\ content = "absent"
           /\ opened = {}
           /\ overlapped = FALSE

Moves(p, from, to) == at[p] = from /\ at' = [at EXCEPT ![p] = to]

Alive(i) == \E q \in Procs : pid[q] = i

Spawn(p) == /\ Moves(p, "down", "look")
            /\ \E i \in Pids : ~Alive(i) /\ pid' = [pid EXCEPT ![p] = i]
            /\ UNCHANGED <<old, content, opened, overlapped>>

\* exists(): nothing in the way, or a file to read.
Look(p) == /\ Moves(p, "look", IF content = "absent" THEN "open" ELSE "read")
           /\ overlapped' = (overlapped \/ \E q \in Procs \ {p} : at[q] \in Acquiring)
           /\ UNCHANGED <<pid, old, content, opened>>

\* read_text(): a file that is gone or holds no pid counts as stale.
ReadOld(p) == /\ Moves(p, "read", IF content \in Pids THEN "probe" ELSE "unlink")
              /\ old' = [old EXCEPT ![p] = IF content \in Pids THEN content ELSE NoPid]
              /\ UNCHANGED <<pid, content, opened, overlapped>>

\* Mutant of ProbeStale: a process that is there does not count.
ProbeAny(p) == /\ Moves(p, "probe", "unlink")
               /\ UNCHANGED <<pid, old, content, opened, overlapped>>

\* kill(old_pid, 0): there is no such process.
ProbeStale(p) == /\ ~Alive(old[p])
                 /\ Moves(p, "probe", "unlink")
                 /\ UNCHANGED <<pid, old, content, opened, overlapped>>

\* The process is gone, and its open files with it.
Gone(p) == /\ at' = [at EXCEPT ![p] = "down"]
           /\ pid' = [pid EXCEPT ![p] = NoPid]
           /\ old' = [old EXCEPT ![p] = NoPid]
           /\ opened' = opened \ {p}
           /\ UNCHANGED <<content, overlapped>>

\* A process with that pid lives, be it this one: PidfileBusyError ends startup.
ProbeBusy(p) == at[p] = "probe" /\ Alive(old[p]) /\ Gone(p)

UnlinkStale(p) == /\ Moves(p, "unlink", "open")
                  /\ content' = "absent" /\ opened' = {}
                  /\ UNCHANGED <<pid, old, overlapped>>

\* write_text() opens the file, creating or truncating it,
OpenFile(p) == /\ Moves(p, "open", "write")
               /\ content' = "empty" /\ opened' = opened \cup {p}
               /\ UNCHANGED <<pid, old, overlapped>>

\* and writes the pid, into a file that has lost its name if it was unlinked.
WritePid(p) == /\ Moves(p, "write", "held")
               /\ content' = IF p \in opened THEN pid[p] ELSE content
               /\ opened' = opened \ {p}
               /\ UNCHANGED <<pid, old, overlapped>>

\* release: the file is removed if it still holds this process's pid.
CheckOwn(p) == /\ Moves(p, "held", IF content = pid[p] THEN "remove" ELSE "released")
               /\ UNCHANGED <<pid, old, content, opened, overlapped>>

RemoveOwn(p) == /\ Moves(p, "remove", "released")
                /\ content' = "absent" /\ opened' = {}
                /\ UNCHANGED <<pid, old, overlapped>>

Acquire(p) == Look(p) \/ ReadOld(p) \/ ProbeStale(p) \/ UnlinkStale(p) \/ OpenFile(p)

PidStep(p) == \/ Spawn(p) \/ Acquire(p) \/ WritePid(p) \/ ProbeBusy(p)
              \/ CheckOwn(p) \/ RemoveOwn(p) \/ Gone(p)

-----------------------------------------------------------------------------
Holds(p) == at[p] \in {"held", "remove"}

\* Unless two processes were in acquire at the same time, at most one of them is
\* past it and has not released the pidfile: whatever crashed before, whatever
\* pid was given out again, and however a release meets an acquire.
OneHolder == ~overlapped => \A p, q \in Procs : Holds(p) /\ Holds(q) => p = q
=============================================================================
