------------------------------ MODULE DaemonLock ------------------------------
(* The lock that keeps one refresh daemon per herdr server: the file           *)
(* daemon.lock, the processes that race for it, the goroutine keepLockFresh    *)
(* that keeps it fresh, and the stop request.                                  *)
(*                                                                             *)
(* A file lives on while a process holds it open, although its name was        *)
(* removed or given to a new file.  Only the file that the name leads to is    *)
(* modelled; `linked` says which of the processes about to write have that     *)
(* file open, and a write of any other process goes to a file nobody can find. *)
(*                                                                             *)
(* Time is counted in ticks.  The code compares wall-clock times; the model    *)
(* keeps the ages themselves, up to StaleAfter, past which the code no longer  *)
(* tells them apart.                                                           *)
EXTENDS Integers, FiniteSets

CONSTANTS Daemons,            \* process ids: each is used for one process only
          NoFile,             \* "pid" in the lock file when there is none
          Unwritten,          \* "pid" in a file created and not yet written
          Former,             \* pid of a daemon that crashed before Init
          Leftovers,          \* what daemon.lock may hold at first
          HeartbeatInterval,  \* ticks between two heartbeats (10 s in the code)
          MaxLate,            \* how late a heartbeat may start or be in writing
          MaxMissed,          \* heartbeats in a row that may fail to write
          FaultyReads,        \* whether ReadFile of the lock may fail
          StaleAfter          \* age at which a lock is taken over (90 s)

Period == HeartbeatInterval + MaxLate

ASSUME TimingAssumption ==
    /\ HeartbeatInterval \in Nat \ {0}
    /\ MaxLate \in Nat
    /\ MaxMissed \in Nat
    /\ FaultyReads \in BOOLEAN
    /\ StaleAfter \in Nat
    /\ (MaxMissed + 2) * Period < StaleAfter

ASSUME NamesAssumption ==
    /\ {NoFile, Unwritten, Former} \cap Daemons = {}
    /\ NoFile # Unwritten /\ NoFile # Former /\ Unwritten # Former
    /\ Leftovers \subseteq {NoFile, Unwritten, Former}

VARIABLES
    pid,        \* the pid in daemon.lock, Unwritten, or NoFile
    age,        \* the age of its heartbeat_unix
    linked,     \* the processes about to write that hold this very file open
    main,       \* main[p]: where the main goroutine of p is
    beat,       \* beat[p]: where keepLockFresh of p is
    since,      \* since[p]: ticks since `last`, the start of the last heartbeat
    missed,     \* missed[p]: heartbeats in a row that returned without a write
    stop,       \* the file daemon.stop exists
    stopped,    \* stopped[p]: p leaves its loop because of a stop request
    displaced   \* ghost: ticks p has worked under the present lock, another's

file == <<pid, age, linked>>
goroutine == <<beat, since, missed>>
vars == <<file, main, goroutine, stop, stopped, displaced>>

Readable == pid \notin {NoFile, Unwritten}
OwnedByAnother(p) == pid \in Daemons \ {p}
InBeat(p) == beat[p] \in {"write", "create", "fill"}
Working == {p \in Daemons : beat[p] # "off"}

(* No lock, one left by a daemon that is gone, fresh or stale, or an empty one. *)
Init ==
    /\ pid \in Leftovers
    /\ age \in {0, StaleAfter}
    /\ linked = {}
    /\ main = [p \in Daemons |-> "idle"]
    /\ beat = [p \in Daemons |-> "off"]
    /\ since = [p \in Daemons |-> 0]
    /\ missed = [p \in Daemons |-> 0]
    /\ stop \in BOOLEAN
    /\ stopped = [p \in Daemons |-> FALSE]
    /\ displaced = [p \in Daemons |-> 0]

-------------------------------------------------------------------------------
(* Steps on the file system that several operations share.                     *)

(* The name leads nowhere, or to a new empty file; displacement starts afresh. *)
Relink(to, holders) ==
    /\ pid' = to
    /\ age' = 0
    /\ linked' = holders
    /\ displaced' = [q \in Daemons |-> 0]

(* The first half of createLock, OpenFile with O_EXCL.                         *)
CreateFile(p) == pid = NoFile /\ Relink(Unwritten, {p})

(* Remove; that there was nothing to remove is no error to any caller.         *)
RemoveFile == Relink(NoFile, {})

(* Write p's record to the file p has open, and close it.                      *)
WriteHeld(p) ==
    /\ pid' = IF p \in linked THEN p ELSE pid
    /\ age' = IF p \in linked THEN 0 ELSE age
    /\ linked' = linked \ {p}

CloseHeld(p) == linked' = linked \ {p} /\ UNCHANGED <<pid, age>>

GoTo(p, step) == main' = [main EXCEPT ![p] = step]
BeatTo(p, step) == beat' = [beat EXCEPT ![p] = step]

(* keepLockFresh returns, or its process ends.                                 *)
BeatEnds(p) ==
    /\ BeatTo(p, "off")
    /\ since' = [since EXCEPT ![p] = 0]
    /\ missed' = [missed EXCEPT ![p] = 0]
    /\ displaced' = [displaced EXCEPT ![p] = 0]

-------------------------------------------------------------------------------
(* AcquireDaemonLock and the start of Run.                                     *)

DaemonAlive == Readable /\ age < StaleAfter

(* A focus event, or the startup hook, starts a daemon when none looks alive.  *)
EnsureRunning(p) ==
    /\ main[p] = "idle"
    /\ ~DaemonAlive
    /\ GoTo(p, "create")
    /\ UNCHANGED <<file, goroutine, stop, stopped, displaced>>

(* `daemon --foreground` goes straight to Run.                                 *)
RunForeground(p) ==
    /\ main[p] = "idle"
    /\ GoTo(p, "create")
    /\ UNCHANGED <<file, goroutine, stop, stopped, displaced>>

(* The first createLock: open the file, or find that it exists.                *)
TryCreate(p) ==
    /\ main[p] = "create"
    /\ \/ CreateFile(p) /\ GoTo(p, "fill")
       \/ pid # NoFile /\ GoTo(p, "inspect") /\ UNCHANGED <<file, displaced>>
    /\ UNCHANGED <<goroutine, stop, stopped>>

(* The second half of createLock, in either attempt.                           *)
FillLock(p) ==
    /\ main[p] = "fill"
    /\ WriteHeld(p)
    /\ GoTo(p, "clear")
    /\ UNCHANGED <<goroutine, stop, stopped, displaced>>

(* A readable, fresh lock means a daemon is running.  A file that cannot be    *)
(* read, for whatever reason, counts as a leftover.                            *)
InspectLock(p) ==
    /\ main[p] = "inspect"
    /\ \/ DaemonAlive /\ GoTo(p, "gone")
       \/ (~DaemonAlive \/ FaultyReads) /\ GoTo(p, "remove")
    /\ UNCHANGED <<file, goroutine, stop, stopped, displaced>>

RemoveStale(p) ==
    /\ main[p] = "remove"
    /\ RemoveFile
    /\ GoTo(p, "recreate")
    /\ UNCHANGED <<goroutine, stop, stopped>>

(* The second createLock: whoever finds the name taken leaves it to the other. *)
RetryCreate(p) ==
    /\ main[p] = "recreate"
    /\ \/ CreateFile(p) /\ GoTo(p, "fill")
       \/ pid # NoFile /\ GoTo(p, "gone") /\ UNCHANGED <<file, displaced>>
    /\ UNCHANGED <<goroutine, stop, stopped>>

(* Any other error of the file system ends the attempt.  A failed write leaves *)
(* the empty file behind.                                                      *)
AcquireFails(p) ==
    /\ main[p] \in {"create", "fill", "remove", "recreate"}
    /\ CloseHeld(p)
    /\ GoTo(p, "gone")
    /\ UNCHANGED <<goroutine, stop, stopped, displaced>>

(* ClearStop, then keepLockFresh starts with last := time.Now().               *)
StartLoop(p) ==
    /\ main[p] = "clear"
    /\ stop' = FALSE
    /\ GoTo(p, "loop")
    /\ BeatTo(p, "wait")
    /\ UNCHANGED <<file, since, missed, stopped, displaced>>

-------------------------------------------------------------------------------
(* keepLockFresh and Heartbeat.                                                *)

RequestStop ==
    /\ ~stop
    /\ stop' = TRUE
    /\ UNCHANGED <<file, main, goroutine, stopped, displaced>>

(* keepLockFresh cancels the context and returns: the loop ends.               *)
LeaveLoop(p) ==
    /\ BeatEnds(p)
    /\ main' = [main EXCEPT ![p] = IF @ = "loop" THEN "release" ELSE @]

(* A bug: the process exits on the spot, and the deferred release never runs.  *)
StopSeenExiting(p) ==
    /\ beat[p] = "wait"
    /\ stop
    /\ stop' = FALSE
    /\ stopped' = [stopped EXCEPT ![p] = main[p] = "loop"]
    /\ BeatEnds(p)
    /\ GoTo(p, "gone")
    /\ UNCHANGED file

StopSeen(p) ==
    /\ beat[p] = "wait"
    /\ stop
    /\ stop' = FALSE
    /\ stopped' = IF main[p] = "loop" THEN [stopped EXCEPT ![p] = TRUE] ELSE stopped
    /\ LeaveLoop(p)
    /\ UNCHANGED file

(* The context was cancelled by a signal: keepLockFresh returns, unless its    *)
(* ticker was ready too and select took that.                                  *)
CancelSeen(p) ==
    /\ beat[p] = "wait"
    /\ main[p] # "loop"
    /\ BeatEnds(p)
    /\ UNCHANGED <<file, main, stop, stopped>>

BeatDue(p) == beat[p] = "wait" /\ since[p] >= HeartbeatInterval

(* A bug: another's pid is taken for a passing trouble.                        *)
OpenLockIgnoringOwner(p) ==
    /\ BeatDue(p)
    /\ since' = [since EXCEPT ![p] = 0]
    /\ \/ pid = p /\ BeatTo(p, "write") /\ linked' = linked \cup {p}
       \/ pid = NoFile /\ BeatTo(p, "create") /\ UNCHANGED linked
       \/ pid \notin {p, NoFile} /\ UNCHANGED <<beat, linked>>
    /\ UNCHANGED <<pid, age, main, missed, stop, stopped, displaced>>

(* Heartbeat opens the lock and reads it: ours, missing, unreadable (true) or  *)
(* another's (false, and the daemon retires).                                  *)
OpenLock(p) ==
    /\ BeatDue(p)
    /\ \/ /\ pid = p
          /\ BeatTo(p, "write")
          /\ linked' = linked \cup {p}
          /\ since' = [since EXCEPT ![p] = 0]
          /\ UNCHANGED <<main, missed, displaced>>
       \/ /\ pid \in {NoFile, Unwritten}
          /\ BeatTo(p, IF pid = NoFile THEN "create" ELSE "wait")
          /\ since' = [since EXCEPT ![p] = 0]
          /\ UNCHANGED <<linked, main, missed, displaced>>
       \/ /\ pid \notin {p, NoFile, Unwritten}
          /\ LeaveLoop(p)
          /\ UNCHANGED linked
    /\ UNCHANGED <<pid, age, stop, stopped>>

(* Heartbeat answers true although it could not open, create or write the lock *)
(* file.  At most MaxMissed in a row: the next attempt comes a period later.   *)
MissBeat(p) ==
    /\ BeatDue(p) \/ beat[p] \in {"create", "write"}
    /\ missed[p] < MaxMissed
    /\ missed' = [missed EXCEPT ![p] = @ + 1]
    /\ since' = [since EXCEPT ![p] = IF beat[p] = "wait" THEN 0 ELSE @]
    /\ CloseHeld(p)
    /\ BeatTo(p, "wait")
    /\ UNCHANGED <<main, stop, stopped, displaced>>

BeatDone(p) ==
    /\ BeatTo(p, "wait")
    /\ missed' = [missed EXCEPT ![p] = 0]
    /\ UNCHANGED <<main, since, stop, stopped, displaced>>

(* A bug: the record is written back with its old heartbeat_unix.              *)
WriteLockUnchanged(p) == beat[p] = "write" /\ CloseHeld(p) /\ BeatDone(p)

(* A bug: the record replaces whatever the name leads to.                      *)
WriteLockByName(p) ==
    /\ beat[p] = "write"
    /\ pid' = p /\ age' = 0
    /\ linked' = linked \ {p}
    /\ BeatDone(p)

(* WriteAt on the opened file, which may have lost its name meanwhile.         *)
WriteLock(p) == beat[p] = "write" /\ WriteHeld(p) /\ BeatDone(p)

(* createLock inside Heartbeat: false only when another took the name.         *)
RecreateLock(p) ==
    /\ beat[p] = "create"
    /\ \/ CreateFile(p) /\ BeatTo(p, "fill") /\ UNCHANGED <<main, since, missed>>
       \/ pid # NoFile /\ LeaveLoop(p) /\ UNCHANGED file
    /\ UNCHANGED <<stop, stopped>>

(* The write of that createLock, or its failure: Heartbeat answers true.       *)
RefillLock(p) ==
    /\ beat[p] = "fill"
    /\ WriteHeld(p) \/ CloseHeld(p)
    /\ BeatDone(p)

-------------------------------------------------------------------------------
(* The end of a process.                                                       *)

(* SIGINT or SIGTERM cancels the context of Run.  Run does not wait for        *)
(* keepLockFresh: its heartbeats may go on until the process has ended.        *)
Cancel(p) ==
    /\ main[p] = "loop"
    /\ GoTo(p, "release")
    /\ UNCHANGED <<file, goroutine, stop, stopped, displaced>>

(* ReleaseDaemonLock reads the lock, after the sweep under way has ended.      *)
ReleaseRead(p) ==
    /\ main[p] = "release"
    /\ \/ /\ pid = p
          /\ GoTo(p, "unlink")
          /\ UNCHANGED <<file, displaced>>
       \/ pid # p /\ GoTo(p, "exit") /\ UNCHANGED <<file, displaced>>
       \/ \* the lock could not be read: it stays, as after a crash
          FaultyReads /\ GoTo(p, "abandon") /\ UNCHANGED <<file, displaced>>
    /\ UNCHANGED <<goroutine, stop, stopped>>

(* ... and removes whatever the name leads to by now.                          *)
ReleaseUnlink(p) ==
    /\ main[p] = "unlink"
    /\ RemoveFile
    /\ GoTo(p, "exit")
    /\ UNCHANGED <<goroutine, stop, stopped>>

(* Run has returned and the process ends, keepLockFresh with it, which may     *)
(* have found the lock missing and have created it again since.                *)
Exit(p) ==
    /\ main[p] \in {"exit", "abandon"}
    /\ GoTo(p, IF main[p] = "exit" THEN "gone" ELSE "dead")
    /\ BeatEnds(p)
    /\ CloseHeld(p)
    /\ UNCHANGED <<stop, stopped>>

(* The process dies: its open files are closed, the files on disk stay.        *)
Crash(p) ==
    /\ main[p] \notin {"idle", "gone", "dead"}
    /\ GoTo(p, "dead")
    /\ BeatEnds(p)
    /\ CloseHeld(p)
    /\ UNCHANGED <<stop, stopped>>

(* A tick passes, unless a heartbeat of a working daemon would then be more    *)
(* than MaxLate late, or a daemon is between its lock and its goroutine.       *)
Tick ==
    /\ \A p \in Daemons : main[p] # "clear" /\ (beat[p] # "off" => since[p] < Period)
    /\ age' = IF age < StaleAfter THEN age + 1 ELSE age
    /\ since' = [p \in Daemons |-> IF beat[p] # "off" THEN since[p] + 1 ELSE since[p]]
    /\ displaced' = [p \in Daemons |->
                       IF beat[p] # "off" /\ OwnedByAnother(p)
                            /\ displaced[p] < StaleAfter
                       THEN displaced[p] + 1 ELSE displaced[p]]
    /\ UNCHANGED <<pid, linked, main, beat, missed, stop, stopped>>

-------------------------------------------------------------------------------
Acquire(p) == TryCreate(p) \/ FillLock(p) \/ InspectLock(p) \/ RemoveStale(p)
              \/ RetryCreate(p) \/ StartLoop(p)
KeepFresh(p) == StopSeen(p) \/ CancelSeen(p) \/ OpenLock(p) \/ WriteLock(p)
                \/ RecreateLock(p) \/ RefillLock(p)
Release(p) == ReleaseRead(p) \/ ReleaseUnlink(p) \/ Exit(p)

Next ==
    \/ \E p \in Daemons :
         \/ EnsureRunning(p) \/ RunForeground(p)
         \/ Acquire(p) \/ AcquireFails(p)
         \/ KeepFresh(p) \/ MissBeat(p)
         \/ Cancel(p) \/ Release(p) \/ Crash(p)
    \/ RequestStop
    \/ Tick

Spec == Init /\ [][Next]_vars

(* Started processes are scheduled and time passes.  Nobody is obliged to      *)
(* start a daemon, to stop one, to fail or to crash.                           *)
FairSpec ==
    /\ Spec
    /\ WF_vars(Tick)
    /\ \A p \in Daemons : /\ WF_vars(Acquire(p))
                          /\ WF_vars(KeepFresh(p))
                          /\ WF_vars(Release(p))

-------------------------------------------------------------------------------
MainSteps == {"idle", "create", "fill", "inspect", "remove", "recreate", "clear",
              "loop", "release", "unlink", "exit", "abandon", "gone", "dead"}
BeatSteps == {"off", "wait", "write", "create", "fill"}

(* Every variable has its type, and a process holds the lock file open only    *)
(* while it is about to write it (createLock and Heartbeat close the file on   *)
(* every return).                                                              *)
TypeOK ==
    /\ pid \in Daemons \cup {NoFile, Unwritten, Former}
    /\ age \in 0..StaleAfter
    /\ linked \subseteq {p \in Daemons : main[p] = "fill" \/ beat[p] \in {"write", "fill"}}
    /\ main \in [Daemons -> MainSteps]
    /\ beat \in [Daemons -> BeatSteps]
    /\ since \in [Daemons -> 0..Period]
    /\ missed \in [Daemons -> 0..MaxMissed]
    /\ stop \in BOOLEAN
    /\ stopped \in [Daemons -> BOOLEAN]
    /\ displaced \in [Daemons -> 0..StaleAfter]

(* A working daemon that has the lock is never judged dead, whatever its sweep *)
(* is doing and although MaxMissed heartbeats in a row may come to nothing:    *)
(* its heartbeat is younger than staleAfter (daemon.go LockStaleAfter).        *)
NeverJudgedDead ==
    \A p \in Daemons : beat[p] # "off" /\ pid = p => age < StaleAfter

(* A daemon whose lock was taken over does not work on beside the new owner:   *)
(* it finds out and stops in less than staleAfter (Heartbeat answers false).   *)
OverlapBounded == \A p \in Daemons : displaced[p] < StaleAfter

(* A daemon that obeyed a stop request leaves no lock of its own behind, which *)
(* would keep the next one from starting (StopRequested and Heartbeat are both *)
(* called by keepLockFresh, never side by side).                               *)
StoppedLeavesNoLock ==
    \A p \in Daemons : main[p] = "gone" /\ stopped[p] => pid # p

(* A late heartbeat never turns the lock of a new owner back into the old      *)
(* owner's: a readable pid is never overwritten by another (WriteAt on the     *)
(* opened file, not through the name).                                         *)
LateWriteNeverSteals == [][Readable /\ Readable' => pid' = pid]_vars

(* When no more daemons start, one is left at most, however the race for the   *)
(* lock went; unless the lock file was left empty by a process that died, or   *)
(* failed to write, between its creation and its first write.                  *)
Convergence == <>[](Cardinality(Working) <= 1 \/ pid = Unwritten)

(* state.go:299-301 says of the takeover that, however many processes try to   *)
(* take a lock over at once, only one wins.                                    *)
OnlyOneWins == Cardinality(Working) <= 1
===============================================================================
