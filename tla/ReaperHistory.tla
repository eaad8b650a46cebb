--------------------------- MODULE ReaperHistory ---------------------------
(***************************************************************************)
(* SyncManager with a memory: which items the source has had, and routing  *)
(* has sent to one place, ever since the sweep under way began.  The       *)
(* sweeps do not see it; what the reaper may do is said with it.           *)
(***************************************************************************)
EXTENDS SyncManager

VARIABLE steady     \* items that have been live, and routed alike, all the sweep

\* What a step leaves of them; when a sweep begins, that is all the source has.
Remembered ==
    steady' = {i \in (IF phase = "idle" THEN Items ELSE steady) :
                  phase' # "idle" /\ live[i] /\ live'[i] /\ route'[i] = route[i]}

WatchedInit == SyncInit /\ steady = {}

WatchedNext == SyncNext /\ Remembered

WatchedSpec == WatchedInit /\ [][WatchedNext]_<<allVars, steady>>

\* The reaper never sets out to delete a document of an item that the source
\* has had ever since the sweep began, in the library where routing has sent it
\* all that time.  An item that appears or returns once the enumeration is past
\* its place has no such promise.
ReaperSparesLive ==
    LET t == task[Reaper]
    IN  t.pc = "delete" /\ t.ref \in steady => t.lib # route[t.ref]
=============================================================================
