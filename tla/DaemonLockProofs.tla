--------------------------- MODULE DaemonLockProofs ---------------------------
(* Proofs about DaemonLock, for every set of daemons and every timing that     *)
(* satisfies TimingAssumption.                                                 *)
EXTENDS DaemonLock, TLAPS

USE TimingAssumption, NamesAssumption

-------------------------------------------------------------------------------

(* Every step of the model is one of its named actions.                        *)
LEMMA NextCases ==
    ASSUME Next
    PROVE  \/ \E p \in Daemons :
                \/ EnsureRunning(p) \/ RunForeground(p) \/ TryCreate(p) \/ FillLock(p)
                \/ InspectLock(p) \/ RemoveStale(p) \/ RetryCreate(p) \/ StartLoop(p)
                \/ AcquireFails(p) \/ StopSeen(p) \/ CancelSeen(p) \/ OpenLock(p)
                \/ WriteLock(p) \/ RecreateLock(p) \/ RefillLock(p) \/ MissBeat(p)
                \/ Cancel(p) \/ ReleaseRead(p) \/ ReleaseUnlink(p) \/ Exit(p) \/ Crash(p)
           \/ RequestStop
           \/ Tick
  BY DEF Next, Acquire, KeepFresh, Release

-------------------------------------------------------------------------------
(* Type correctness: TypeOK, strengthened by where the two goroutines of a     *)
(* process can be at the same time.                                            *)
Lifecycle ==
    \A p \in Daemons :
      /\ beat[p] # "off" => main[p] \in {"loop", "release", "unlink", "exit", "abandon"}
      /\ beat[p] = "off" => since[p] = 0 /\ missed[p] = 0 /\ displaced[p] = 0

TypeInv == TypeOK /\ Lifecycle

LEMMA PeriodPositive == Period \in Nat \ {0}
  BY DEF Period

LEMMA TypeInvInit == Init => TypeInv
  BY PeriodPositive DEF Init, TypeInv, TypeOK, Lifecycle, MainSteps, BeatSteps

LEMMA TypeInvStep == TypeInv /\ [Next]_vars => TypeInv'
  <1> SUFFICES ASSUME TypeInv, [Next]_vars PROVE TypeInv'
    OBVIOUS
  <1> USE PeriodPositive DEF TypeInv, TypeOK, Lifecycle, MainSteps, BeatSteps, GoTo, BeatTo,
           file, goroutine
  <1>1. ASSUME NEW p \in Daemons, EnsureRunning(p) PROVE TypeInv'
    BY <1>1 DEF EnsureRunning
  <1>2. ASSUME NEW p \in Daemons, RunForeground(p) PROVE TypeInv'
    BY <1>2 DEF RunForeground
  <1>3. ASSUME NEW p \in Daemons, TryCreate(p) PROVE TypeInv'
    BY <1>3 DEF TryCreate, CreateFile, Relink
  <1>4. ASSUME NEW p \in Daemons, FillLock(p) PROVE TypeInv'
    BY <1>4 DEF FillLock, WriteHeld
  <1>5. ASSUME NEW p \in Daemons, InspectLock(p) PROVE TypeInv'
    BY <1>5 DEF InspectLock
  <1>6. ASSUME NEW p \in Daemons, RemoveStale(p) PROVE TypeInv'
    BY <1>6 DEF RemoveStale, RemoveFile, Relink
  <1>7. ASSUME NEW p \in Daemons, RetryCreate(p) PROVE TypeInv'
    BY <1>7 DEF RetryCreate, CreateFile, Relink
  <1>8. ASSUME NEW p \in Daemons, StartLoop(p) PROVE TypeInv'
    BY <1>8 DEF StartLoop
  <1>9. ASSUME NEW p \in Daemons, AcquireFails(p) PROVE TypeInv'
    BY <1>9 DEF AcquireFails, CloseHeld
  <1>10. ASSUME NEW p \in Daemons, StopSeen(p) PROVE TypeInv'
    <2>1. stopped' \in [Daemons -> BOOLEAN] /\ stop' \in BOOLEAN
      BY <1>10, Zenon DEF StopSeen
    <2>2. TypeOK'
      BY <1>10, <2>1 DEF StopSeen, LeaveLoop, BeatEnds
    <2>3. Lifecycle'
      BY <1>10 DEF StopSeen, LeaveLoop, BeatEnds
    <2>4. QED
      BY <2>2, <2>3
  <1>11. ASSUME NEW p \in Daemons, CancelSeen(p) PROVE TypeInv'
    BY <1>11 DEF CancelSeen, BeatEnds
  <1>12. ASSUME NEW p \in Daemons, OpenLock(p) PROVE TypeInv'
    BY <1>12 DEF OpenLock, LeaveLoop, BeatEnds, BeatDue
  <1>13. ASSUME NEW p \in Daemons, WriteLock(p) PROVE TypeInv'
    BY <1>13 DEF WriteLock, WriteHeld, BeatDone
  <1>14. ASSUME NEW p \in Daemons, RecreateLock(p) PROVE TypeInv'
    BY <1>14 DEF RecreateLock, CreateFile, Relink, LeaveLoop, BeatEnds
  <1>15. ASSUME NEW p \in Daemons, RefillLock(p) PROVE TypeInv'
    BY <1>15 DEF RefillLock, WriteHeld, CloseHeld, BeatDone
  <1>16. ASSUME NEW p \in Daemons, MissBeat(p) PROVE TypeInv'
    BY <1>16 DEF MissBeat, CloseHeld, BeatDue
  <1>17. ASSUME NEW p \in Daemons, Cancel(p) PROVE TypeInv'
    BY <1>17 DEF Cancel
  <1>18. ASSUME NEW p \in Daemons, ReleaseRead(p) PROVE TypeInv'
    BY <1>18 DEF ReleaseRead
  <1>19. ASSUME NEW p \in Daemons, ReleaseUnlink(p) PROVE TypeInv'
    BY <1>19 DEF ReleaseUnlink, RemoveFile, Relink
  <1>20. ASSUME NEW p \in Daemons, Exit(p) PROVE TypeInv'
    BY <1>20 DEF Exit, BeatEnds, CloseHeld
  <1>21. ASSUME NEW p \in Daemons, Crash(p) PROVE TypeInv'
    BY <1>21 DEF Crash, BeatEnds, CloseHeld
  <1>22. CASE RequestStop
    BY <1>22 DEF RequestStop
  <1>23. CASE Tick
    BY <1>23 DEF Tick
  <1>24. CASE UNCHANGED vars
    BY <1>24 DEF vars
  <1>25. QED
    BY <1>1, <1>2, <1>3, <1>4, <1>5, <1>6, <1>7, <1>8, <1>9, <1>10, <1>11, <1>12, <1>13,
       <1>14, <1>15, <1>16, <1>17, <1>18, <1>19, <1>20, <1>21, <1>22, <1>23, <1>24, NextCases

(* Every variable keeps its type, and only processes about to write hold the   *)
(* lock file open.                                                             *)
THEOREM TypeCorrect == Spec => []TypeOK
  <1>1. Spec => []TypeInv
    BY TypeInvInit, TypeInvStep, PTL DEF Spec
  <1>2. QED
    BY <1>1, PTL DEF TypeInv

-------------------------------------------------------------------------------
(* Whose file it is.  A process that is about to write the file the name leads *)
(* to either made it and finds it empty, or found its own pid in it; and a     *)
(* daemon's pid is in the file only when that daemon wrote it there.           *)
FileInv ==
    /\ \A p \in linked : pid = IF beat[p] = "write" THEN p ELSE Unwritten
    /\ \A p, q \in linked : p = q
    /\ \A p \in Daemons : pid = p =>
         /\ beat[p] = "write" => p \in linked
         /\ beat[p] \notin {"create", "fill"}
         /\ main[p] \notin {"idle", "create", "fill", "inspect", "remove", "recreate"}
    /\ \A p \in Daemons :
         stopped[p] =>
           /\ beat[p] = "off"
           /\ main[p] \in {"release", "unlink", "exit", "abandon", "gone", "dead"}
           /\ main[p] = "exit" => pid # p
    /\ StoppedLeavesNoLock

LEMMA FileInvInit == Init => FileInv
  BY DEF Init, FileInv, StoppedLeavesNoLock

LEMMA FileInvStep == TypeInv /\ FileInv /\ [Next]_vars => FileInv'
  <1> SUFFICES ASSUME TypeInv, FileInv, [Next]_vars PROVE FileInv'
    OBVIOUS
  <1> USE DEF TypeInv, TypeOK, Lifecycle, FileInv, StoppedLeavesNoLock, MainSteps,
           BeatSteps, GoTo, BeatTo, file, goroutine
  <1>1. ASSUME NEW p \in Daemons, EnsureRunning(p) PROVE FileInv'
    BY <1>1 DEF EnsureRunning
  <1>2. ASSUME NEW p \in Daemons, RunForeground(p) PROVE FileInv'
    BY <1>2 DEF RunForeground
  <1>3. ASSUME NEW p \in Daemons, TryCreate(p) PROVE FileInv'
    BY <1>3 DEF TryCreate, CreateFile, Relink
  <1>4. ASSUME NEW p \in Daemons, FillLock(p) PROVE FileInv'
    BY <1>4 DEF FillLock, WriteHeld
  <1>5. ASSUME NEW p \in Daemons, InspectLock(p) PROVE FileInv'
    BY <1>5 DEF InspectLock
  <1>6. ASSUME NEW p \in Daemons, RemoveStale(p) PROVE FileInv'
    BY <1>6 DEF RemoveStale, RemoveFile, Relink
  <1>7. ASSUME NEW p \in Daemons, RetryCreate(p) PROVE FileInv'
    BY <1>7 DEF RetryCreate, CreateFile, Relink
  <1>8. ASSUME NEW p \in Daemons, StartLoop(p) PROVE FileInv'
    BY <1>8 DEF StartLoop
  <1>9. ASSUME NEW p \in Daemons, AcquireFails(p) PROVE FileInv'
    BY <1>9 DEF AcquireFails, CloseHeld
  <1>10. ASSUME NEW p \in Daemons, StopSeen(p) PROVE FileInv'
    BY <1>10 DEF StopSeen, LeaveLoop, BeatEnds
  <1>11. ASSUME NEW p \in Daemons, CancelSeen(p) PROVE FileInv'
    BY <1>11 DEF CancelSeen, BeatEnds
  <1>12. ASSUME NEW p \in Daemons, OpenLock(p) PROVE FileInv'
    BY <1>12 DEF OpenLock, LeaveLoop, BeatEnds, BeatDue
  <1>13. ASSUME NEW p \in Daemons, WriteLock(p) PROVE FileInv'
    BY <1>13 DEF WriteLock, WriteHeld, BeatDone
  <1>14. ASSUME NEW p \in Daemons, RecreateLock(p) PROVE FileInv'
    BY <1>14 DEF RecreateLock, CreateFile, Relink, LeaveLoop, BeatEnds
  <1>15. ASSUME NEW p \in Daemons, RefillLock(p) PROVE FileInv'
    BY <1>15 DEF RefillLock, WriteHeld, CloseHeld, BeatDone
  <1>16. ASSUME NEW p \in Daemons, MissBeat(p) PROVE FileInv'
    BY <1>16 DEF MissBeat, CloseHeld, BeatDue
  <1>17. ASSUME NEW p \in Daemons, Cancel(p) PROVE FileInv'
    BY <1>17 DEF Cancel
  <1>18. ASSUME NEW p \in Daemons, ReleaseRead(p) PROVE FileInv'
    BY <1>18 DEF ReleaseRead
  <1>19. ASSUME NEW p \in Daemons, ReleaseUnlink(p) PROVE FileInv'
    BY <1>19 DEF ReleaseUnlink, RemoveFile, Relink
  <1>20. ASSUME NEW p \in Daemons, Exit(p) PROVE FileInv'
    BY <1>20 DEF Exit, BeatEnds, CloseHeld
  <1>21. ASSUME NEW p \in Daemons, Crash(p) PROVE FileInv'
    BY <1>21 DEF Crash, BeatEnds, CloseHeld
  <1>22. CASE RequestStop
    BY <1>22 DEF RequestStop
  <1>23. CASE Tick
    BY <1>23 DEF Tick
  <1>24. CASE UNCHANGED vars
    BY <1>24 DEF vars
  <1>25. QED
    BY <1>1, <1>2, <1>3, <1>4, <1>5, <1>6, <1>7, <1>8, <1>9, <1>10, <1>11,
       <1>12, <1>13, <1>14, <1>15, <1>16, <1>17, <1>18, <1>19, <1>20, <1>21, <1>22,
       <1>23, <1>24, NextCases

LEMMA FileInvariant == Spec => [](TypeInv /\ FileInv)
  BY TypeInvInit, TypeInvStep, FileInvInit, FileInvStep, PTL DEF Spec

(* A daemon that obeyed a stop request leaves no lock of its own behind.       *)
THEOREM StoppedDaemonLeavesNoLock == Spec => []StoppedLeavesNoLock
  BY FileInvariant, PTL DEF FileInv

-------------------------------------------------------------------------------
(* Time.  Span(k) is the length of k heartbeat periods.                        *)
Span(k) == k * Period

LEMMA SpanNat == \A k \in Nat : Span(k) \in Nat
  BY PeriodPositive DEF Span

LEMMA SpanNext == \A k \in Nat : Span(k + 1) = Span(k) + Period
  BY PeriodPositive DEF Span

LEMMA SpanMonotonic == \A j, k \in Nat : j <= k => Span(j) <= Span(k)
  BY PeriodPositive DEF Span

(* How long ago the last heartbeat that came to something may have been: the   *)
(* ones missed since, and the one under way, each cost a period at most.       *)
Slack(p) == since[p] + Span(missed[p]) + (IF InBeat(p) THEN Period ELSE 0)

TimeInv ==
    /\ \A p \in Daemons :
         /\ beat[p] # "off" /\ pid = p => age <= Slack(p)
         /\ displaced[p] <= Slack(p)
         /\ InBeat(p) => displaced[p] <= since[p]
         /\ displaced[p] > 0 => OwnedByAnother(p)
         /\ main[p] = "clear" /\ pid = p => age = 0

LEMMA TimeInvInit == Init => TimeInv
  BY SpanNat, PeriodPositive DEF Init, TimeInv, Slack, InBeat

LEMMA TimeInvStep == TypeInv /\ FileInv /\ TimeInv /\ [Next]_vars => TimeInv'
  <1> SUFFICES ASSUME TypeInv, FileInv, TimeInv, [Next]_vars PROVE TimeInv'
    OBVIOUS
  <1> USE SpanNat, PeriodPositive
      DEF TypeInv, TypeOK, Lifecycle, FileInv, TimeInv, Slack, InBeat, OwnedByAnother,
          MainSteps, BeatSteps, GoTo, BeatTo, file, goroutine
  <1>1. ASSUME NEW p \in Daemons, EnsureRunning(p) PROVE TimeInv'
    BY <1>1 DEF EnsureRunning
  <1>2. ASSUME NEW p \in Daemons, RunForeground(p) PROVE TimeInv'
    BY <1>2 DEF RunForeground
  <1>3. ASSUME NEW p \in Daemons, TryCreate(p) PROVE TimeInv'
    BY <1>3 DEF TryCreate, CreateFile, Relink
  <1>4. ASSUME NEW p \in Daemons, FillLock(p) PROVE TimeInv'
    BY <1>4 DEF FillLock, WriteHeld
  <1>5. ASSUME NEW p \in Daemons, InspectLock(p) PROVE TimeInv'
    BY <1>5 DEF InspectLock
  <1>6. ASSUME NEW p \in Daemons, RemoveStale(p) PROVE TimeInv'
    BY <1>6 DEF RemoveStale, RemoveFile, Relink
  <1>7. ASSUME NEW p \in Daemons, RetryCreate(p) PROVE TimeInv'
    BY <1>7 DEF RetryCreate, CreateFile, Relink
  <1>8. ASSUME NEW p \in Daemons, StartLoop(p) PROVE TimeInv'
    BY <1>8 DEF StartLoop
  <1>9. ASSUME NEW p \in Daemons, AcquireFails(p) PROVE TimeInv'
    BY <1>9 DEF AcquireFails, CloseHeld
  <1>10. ASSUME NEW p \in Daemons, StopSeen(p) PROVE TimeInv'
    BY <1>10 DEF StopSeen, LeaveLoop, BeatEnds
  <1>11. ASSUME NEW p \in Daemons, CancelSeen(p) PROVE TimeInv'
    BY <1>11 DEF CancelSeen, BeatEnds
  <1>12. ASSUME NEW p \in Daemons, OpenLock(p) PROVE TimeInv'
    BY <1>12 DEF OpenLock, LeaveLoop, BeatEnds, BeatDue
  <1>13. ASSUME NEW p \in Daemons, WriteLock(p) PROVE TimeInv'
    BY <1>13 DEF WriteLock, WriteHeld, BeatDone
  <1>14. ASSUME NEW p \in Daemons, RecreateLock(p) PROVE TimeInv'
    BY <1>14 DEF RecreateLock, CreateFile, Relink, LeaveLoop, BeatEnds
  <1>15. ASSUME NEW p \in Daemons, RefillLock(p) PROVE TimeInv'
    BY <1>15 DEF RefillLock, WriteHeld, CloseHeld, BeatDone
  <1>16. ASSUME NEW p \in Daemons, MissBeat(p) PROVE TimeInv'
    <2>1. Span(missed[p] + 1) = Span(missed[p]) + Period
      BY SpanNext
    <2>2. Span(missed[p]) \in Nat /\ Span(missed[p] + 1) \in Nat
      BY <2>1
    <2>3. QED
      BY <1>16, <2>1, <2>2 DEF MissBeat, CloseHeld, BeatDue
  <1>17. ASSUME NEW p \in Daemons, Cancel(p) PROVE TimeInv'
    BY <1>17 DEF Cancel
  <1>18. ASSUME NEW p \in Daemons, ReleaseRead(p) PROVE TimeInv'
    BY <1>18 DEF ReleaseRead
  <1>19. ASSUME NEW p \in Daemons, ReleaseUnlink(p) PROVE TimeInv'
    BY <1>19 DEF ReleaseUnlink, RemoveFile, Relink
  <1>20. ASSUME NEW p \in Daemons, Exit(p) PROVE TimeInv'
    BY <1>20 DEF Exit, BeatEnds, CloseHeld
  <1>21. ASSUME NEW p \in Daemons, Crash(p) PROVE TimeInv'
    BY <1>21 DEF Crash, BeatEnds, CloseHeld
  <1>22. CASE RequestStop
    BY <1>22 DEF RequestStop
  <1>23. CASE Tick
    BY <1>23 DEF Tick
  <1>24. CASE UNCHANGED vars
    BY <1>24 DEF vars
  <1>25. QED
    BY <1>1, <1>2, <1>3, <1>4, <1>5, <1>6, <1>7, <1>8, <1>9, <1>10, <1>11,
       <1>12, <1>13, <1>14, <1>15, <1>16, <1>17, <1>18, <1>19, <1>20, <1>21, <1>22,
       <1>23, <1>24, NextCases

LEMMA TimeInvariant == Spec => [](TypeInv /\ FileInv /\ TimeInv)
  BY TypeInvInit, TypeInvStep, FileInvInit, FileInvStep, TimeInvInit, TimeInvStep, PTL
     DEF Spec

(* The slack of a daemon never reaches staleAfter.                             *)
LEMMA SlackBound ==
    ASSUME TypeInv, NEW p \in Daemons
    PROVE  Slack(p) \in Nat /\ Slack(p) < StaleAfter
  <1>1. /\ missed[p] \in Nat /\ missed[p] <= MaxMissed
        /\ since[p] \in Nat /\ since[p] <= Period
    BY PeriodPositive DEF TypeInv, TypeOK
  <1>2. Span(missed[p]) \in Nat /\ Span(missed[p]) <= Span(MaxMissed)
    BY <1>1, SpanNat, SpanMonotonic
  <1>3. Span(MaxMissed) + Period + Period < StaleAfter
    BY SpanNat, SpanNext, PeriodPositive DEF Span
  <1>4. QED
    BY <1>1, <1>2, <1>3, SpanNat, PeriodPositive DEF Slack

(* While a working daemon has the lock, nobody can find the lock stale.        *)
THEOREM LiveDaemonNeverJudgedDead == Spec => []NeverJudgedDead
  <1>1. TypeInv /\ TimeInv => NeverJudgedDead
    BY SlackBound DEF TypeInv, TypeOK, TimeInv, NeverJudgedDead
  <1>2. QED
    BY <1>1, TimeInvariant, PTL

(* A daemon whose lock was taken over stops before staleAfter has passed.      *)
THEOREM DisplacedDaemonStops == Spec => []OverlapBounded
  <1>1. TypeInv /\ TimeInv => OverlapBounded
    BY SlackBound DEF TypeInv, TypeOK, TimeInv, OverlapBounded
  <1>2. QED
    BY <1>1, TimeInvariant, PTL

(* A readable pid in the lock file is never overwritten with another one: the  *)
(* only writes are those of WriteHeld, which reach the named file only from a  *)
(* process that made it or found its own pid in it.                            *)
THEOREM OwnerNeverOverwritten == Spec => LateWriteNeverSteals
  <1>1. ASSUME TypeInv, FileInv, [Next]_vars PROVE Readable /\ Readable' => pid' = pid
    <2>1. ASSUME NEW p \in Daemons, WriteHeld(p), Readable PROVE pid' = pid
      BY <1>1, <2>1 DEF FileInv, WriteHeld, Readable
    <2>2. ASSUME NEW p \in Daemons, NEW S, \/ Relink(Unwritten, S) \/ Relink(NoFile, S)
          PROVE ~Readable'
      BY <2>2 DEF Relink, Readable
    <2>3. pid' = pid \/ ~Readable' \/ \E p \in Daemons : WriteHeld(p)
      BY <1>1, <2>2, NextCases
         DEF EnsureRunning, RunForeground, TryCreate, FillLock, InspectLock, RemoveStale,
             RetryCreate, StartLoop, AcquireFails, StopSeen, CancelSeen, OpenLock,
             WriteLock, RecreateLock, RefillLock, MissBeat, Cancel, ReleaseRead,
             ReleaseUnlink, Exit, Crash, RequestStop, Tick, CreateFile, RemoveFile, CloseHeld,
             Readable, file, vars
    <2>4. QED
      BY <2>1, <2>3
  <1>2. QED
    BY <1>1, FileInvariant, PTL DEF LateWriteNeverSteals, Spec
===============================================================================
