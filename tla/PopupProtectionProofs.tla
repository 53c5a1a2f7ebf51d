------------------------- MODULE PopupProtectionProofs -------------------------
(* What holds of the protection records for any number of popups and hooks.    *)
EXTENDS PopupProtection, TLAPS

(* Every step of the model is one of its named actions.                        *)
LEMMA NextCases ==
    ASSUME Next
    PROVE  \/ \E x \in Processes :
                \/ EnterLock(x) \/ EnterFails(x) \/ ReadPhase(x) \/ CommitPhase(x)
                \/ LeaveLock(x) \/ Crash(x)
           \/ \E p \in Popups :
                \/ Confirm(p) \/ CallCreate(p) \/ GiveUp(p) \/ SeeAnswer(p)
                \/ InspectTree(p) \/ CompareUpstream(p) \/ UnsetUpstream(p)
                \/ Reject(p) \/ Create(p) \/ FailCreate(p)
           \/ \E h \in Hooks :
                \/ Redeliver(h) \/ CheckProtected(h) \/ FastForward(h) \/ SkipFreshen(h)
           \/ RemoveTree \/ DeleteBranch \/ Push
  BY DEF Next, Section, Popup, Server, Hook

(* A transition that is about to write still sees the phase it decided on: the *)
(* lock is its own, and nobody else writes without it.                         *)
DecisionStands == \A x \in Processes : pc[x] = "commit" => Writes(op[x], phase)

(* The inductive invariant.                                                    *)
RecordInv == TypeOK /\ DecisionStands

LEMMA InitRecord == Init => RecordInv
<1> SUFFICES ASSUME Init PROVE RecordInv
  OBVIOUS
<1> USE NamesAssumption DEF Init, Processes
<1>1. TypeOK
  BY DEF TypeOK, Steps, Kinds, Upstreams, InSection
<1>2. DecisionStands
  BY DEF DecisionStands
<1> QED BY <1>1, <1>2 DEF RecordInv

LEMMA TypeStep == TypeOK /\ [Next]_vars => TypeOK'
<1> SUFFICES ASSUME TypeOK, [Next]_vars PROVE TypeOK'
  OBVIOUS
<1> USE NamesAssumption DEF TypeOK, Processes, Steps, Kinds, Origins, Trees, Upstreams,
    InSection, GoTo,
        record, user, repo
<1>1. ASSUME NEW x \in Processes, EnterLock(x) PROVE TypeOK'
  BY <1>1 DEF EnterLock
<1>2. ASSUME NEW x \in Processes, EnterFails(x) PROVE TypeOK'
  BY <1>2 DEF EnterFails, AfterFailure
<1>3. ASSUME NEW x \in Processes, ReadPhase(x) PROVE TypeOK'
  BY <1>3 DEF ReadPhase
<1>4. ASSUME NEW x \in Processes, CommitPhase(x) PROVE TypeOK'
  <2>1. exposed' \in BOOLEAN
    BY <1>4, Zenon DEF CommitPhase
  <2>2. exposed' \in BOOLEAN => TypeOK'
    BY <1>4 DEF CommitPhase, Written
  <2> QED BY <2>1, <2>2
<1>5. ASSUME NEW x \in Processes, LeaveLock(x) PROVE TypeOK'
  BY <1>5 DEF LeaveLock, AfterSection, AfterFailure
<1>6. ASSUME NEW x \in Processes, Crash(x) PROVE TypeOK'
  BY <1>6 DEF Crash
<1>7. ASSUME NEW p \in Popups, Confirm(p) PROVE TypeOK'
  BY <1>7 DEF Confirm, NothingElseOpen
<1>8. ASSUME NEW p \in Popups, CallCreate(p) PROVE TypeOK'
  BY <1>8 DEF CallCreate
<1>9. ASSUME NEW p \in Popups, GiveUp(p) PROVE TypeOK'
  BY <1>9 DEF GiveUp
<1>10. ASSUME NEW p \in Popups, SeeAnswer(p) PROVE TypeOK'
  BY <1>10 DEF SeeAnswer
<1>11. ASSUME NEW p \in Popups, Reject(p) PROVE TypeOK'
  BY <1>11 DEF Reject
<1>12. ASSUME NEW p \in Popups, Create(p) PROVE TypeOK'
  <2>1. tree' \in Trees /\ branch' = TRUE /\ exposed' = FALSE /\ upstream' \in Upstreams
    BY <1>12 DEF Create, MakeBranch
  <2>2. /\ pc' \in [Processes -> Steps]
        /\ \A x \in Processes : InSection(x)' = InSection(x)
    BY <1>12 DEF Create
  <2>3. request' \in [Popups -> {"none", "sent", "created", "rejected", "failed"}]
    BY <1>12 DEF Create
  <2>4. UNCHANGED <<careful, phase, lock, op, choice, existing>>
    BY <1>12 DEF Create
  <2> QED BY <2>1, <2>2, <2>3, <2>4
<1>13. ASSUME NEW p \in Popups, FailCreate(p) PROVE TypeOK'
  <2>1. branch' \in BOOLEAN /\ upstream' \in Upstreams
    BY <1>13 DEF FailCreate, MakeBranch
  <2>2. request' \in [Popups -> {"none", "sent", "created", "rejected", "failed"}]
    BY <1>13 DEF FailCreate
  <2>3. UNCHANGED <<careful, phase, lock, pc, op, choice, existing, tree, exposed>>
    BY <1>13 DEF FailCreate
  <2> QED BY <2>1, <2>2, <2>3
<1>14. ASSUME NEW h \in Hooks, Redeliver(h) PROVE TypeOK'
  BY <1>14 DEF Redeliver
<1>15. ASSUME NEW h \in Hooks, CheckProtected(h) PROVE TypeOK'
  BY <1>15 DEF CheckProtected
<1>16. ASSUME NEW h \in Hooks, FastForward(h) PROVE TypeOK'
  BY <1>16 DEF FastForward
<1>17. ASSUME NEW h \in Hooks, SkipFreshen(h) PROVE TypeOK'
  BY <1>17 DEF SkipFreshen
<1>18. CASE RemoveTree
  BY <1>18 DEF RemoveTree
<1>19. CASE DeleteBranch
  BY <1>19 DEF DeleteBranch
<1>20. ASSUME NEW p \in Popups, InspectTree(p) PROVE TypeOK'
  BY <1>20 DEF InspectTree
<1>21. ASSUME NEW p \in Popups, CompareUpstream(p) PROVE TypeOK'
  BY <1>21 DEF CompareUpstream
<1>22. ASSUME NEW p \in Popups, UnsetUpstream(p) PROVE TypeOK'
  BY <1>22 DEF UnsetUpstream
<1>23. CASE Push
  BY <1>23 DEF Push
<1>24. CASE UNCHANGED vars
  BY <1>24 DEF vars
<1>25. QED
  BY <1>1, <1>2, <1>3, <1>4, <1>5, <1>6, <1>7, <1>8, <1>9, <1>10, <1>11,
     <1>12, <1>13, <1>14, <1>15, <1>16, <1>17, <1>18, <1>19, <1>20, <1>21, <1>22, <1>23,
     <1>24, NextCases

LEMMA DecisionStep == TypeOK /\ DecisionStands /\ [Next]_vars => DecisionStands'
<1> SUFFICES ASSUME TypeOK, DecisionStands, [Next]_vars PROVE DecisionStands'
  OBVIOUS
<1> USE NamesAssumption DEF TypeOK, Processes, InSection, DecisionStands, Writes, GoTo,
        record, user, repo
<1>1. ASSUME NEW x \in Processes, EnterLock(x) PROVE DecisionStands'
  BY <1>1 DEF EnterLock
<1>2. ASSUME NEW x \in Processes, EnterFails(x) PROVE DecisionStands'
  BY <1>2 DEF EnterFails, AfterFailure
<1>3. ASSUME NEW x \in Processes, ReadPhase(x) PROVE DecisionStands'
  BY <1>3 DEF ReadPhase
<1>4. ASSUME NEW x \in Processes, CommitPhase(x) PROVE DecisionStands'
  BY <1>4 DEF CommitPhase, Written
<1>5. ASSUME NEW x \in Processes, LeaveLock(x) PROVE DecisionStands'
  BY <1>5 DEF LeaveLock, AfterSection, AfterFailure
<1>6. ASSUME NEW x \in Processes, Crash(x) PROVE DecisionStands'
  BY <1>6 DEF Crash
<1>7. ASSUME NEW p \in Popups, Confirm(p) PROVE DecisionStands'
  BY <1>7 DEF Confirm, NothingElseOpen
<1>8. ASSUME NEW p \in Popups, CallCreate(p) PROVE DecisionStands'
  BY <1>8 DEF CallCreate
<1>9. ASSUME NEW p \in Popups, GiveUp(p) PROVE DecisionStands'
  BY <1>9 DEF GiveUp
<1>10. ASSUME NEW p \in Popups, SeeAnswer(p) PROVE DecisionStands'
  BY <1>10 DEF SeeAnswer
<1>11. ASSUME NEW p \in Popups, Reject(p) PROVE DecisionStands'
  BY <1>11 DEF Reject
<1>12. ASSUME NEW p \in Popups, Create(p) PROVE DecisionStands'
  BY <1>12 DEF Create, MakeBranch
<1>13. ASSUME NEW p \in Popups, FailCreate(p) PROVE DecisionStands'
  BY <1>13 DEF FailCreate, MakeBranch
<1>14. ASSUME NEW h \in Hooks, Redeliver(h) PROVE DecisionStands'
  BY <1>14 DEF Redeliver
<1>15. ASSUME NEW h \in Hooks, CheckProtected(h) PROVE DecisionStands'
  BY <1>15 DEF CheckProtected
<1>16. ASSUME NEW h \in Hooks, FastForward(h) PROVE DecisionStands'
  BY <1>16 DEF FastForward
<1>17. ASSUME NEW h \in Hooks, SkipFreshen(h) PROVE DecisionStands'
  BY <1>17 DEF SkipFreshen
<1>18. CASE RemoveTree
  BY <1>18 DEF RemoveTree
<1>19. CASE DeleteBranch
  BY <1>19 DEF DeleteBranch
<1>20. ASSUME NEW p \in Popups, InspectTree(p) PROVE DecisionStands'
  BY <1>20 DEF InspectTree
<1>21. ASSUME NEW p \in Popups, CompareUpstream(p) PROVE DecisionStands'
  BY <1>21 DEF CompareUpstream
<1>22. ASSUME NEW p \in Popups, UnsetUpstream(p) PROVE DecisionStands'
  BY <1>22 DEF UnsetUpstream
<1>23. CASE Push
  BY <1>23 DEF Push
<1>24. CASE UNCHANGED vars
  BY <1>24 DEF vars
<1>25. QED
  BY <1>1, <1>2, <1>3, <1>4, <1>5, <1>6, <1>7, <1>8, <1>9, <1>10, <1>11,
     <1>12, <1>13, <1>14, <1>15, <1>16, <1>17, <1>18, <1>19, <1>20, <1>21, <1>22, <1>23,
     <1>24, NextCases

LEMMA RecordInvariant == Spec => []RecordInv
<1>1. RecordInv /\ [Next]_vars => RecordInv'
  BY TypeStep, DecisionStep DEF RecordInv
<1>2. QED
  BY InitRecord, <1>1, PTL DEF Spec

(* Every variable keeps its type, and the lock file of a record is there       *)
(* exactly while one process, its holder, is inside withPopupLock.             *)
THEOREM TypeCorrect == Spec => []TypeOK
<1>1. RecordInv => TypeOK
  BY DEF RecordInv
<1>2. QED
  BY RecordInvariant, <1>1, PTL

(* The record of a creation that may still be running is never taken away: any *)
(* step finds it pending and leaves it pending, or complete.                   *)
THEOREM PendingStays == Spec => PendingNeverErased
<1>1. RecordInv /\ [Next]_vars
        => [phase = "pending" => phase' \in {"pending", "complete"}]_vars
  <2> SUFFICES ASSUME RecordInv, [Next]_vars, phase = "pending"
               PROVE  phase' \in {"pending", "complete"}
    OBVIOUS
  <2>1. ASSUME NEW x \in Processes, CommitPhase(x)
        PROVE  phase' \in {"pending", "complete"}
    <3>1. op[x] = "complete"
      BY <2>1 DEF CommitPhase, RecordInv, DecisionStands, Writes
    <3>2. QED
      BY <2>1, <3>1 DEF CommitPhase, Written
  <2>2. ASSUME Next, \A x \in Processes : ~CommitPhase(x)
        PROVE  phase' = phase
    BY <2>2, NextCases
    DEF EnterLock, EnterFails, ReadPhase, LeaveLock, Crash, Confirm, CallCreate, GiveUp,
        SeeAnswer, Reject, Create, FailCreate, Redeliver, CheckProtected, FastForward,
        SkipFreshen, RemoveTree, DeleteBranch, InspectTree, CompareUpstream, UnsetUpstream,
        Push, record
  <2>3. QED
    BY <2>1, <2>2 DEF vars, record
<1>2. QED
  BY RecordInvariant, <1>1, PTL DEF Spec, PendingNeverErased

(* create asks for nothing before it is at that step, and a popup marks its    *)
(* creation as complete only when herdr has answered; a hook does nothing but  *)
(* mark one as complete.                                                       *)
InOrder ==
    /\ \A p \in Popups :
         /\ pc[p] \in {"idle", "enter", "inside", "commit", "leave", "fail", "call"}
              /\ op[p] # "complete" => request[p] = "none"
         /\ pc[p] \in {"idle", "call"} => op[p] # "complete"
         /\ op[p] = "complete" => request[p] \in {"created", "rejected"}
         /\ op[p] = "allow" => choice[p] = "current" /\ ~existing[p]
         /\ pc[p] \in {"inspect", "compare", "unset"} => Tidies(p)
         /\ pc[p] \notin {"queued", "freshen"}
    /\ \A h \in Hooks :
         /\ pc[h] \in {"enter", "inside", "commit", "leave", "fail"} => op[h] = "complete"
         /\ pc[h] \notin {"call", "waiting", "inspect", "compare", "unset"}

(* One popup at a time, and herdr makes nothing unprotected beside it.         *)
OneAtATime ==
    \A p, q \in Popups : p # q /\ ~Resting(p) =>
      Resting(q) /\ (request[q] = "sent" => Protected(q))

(* The record from its writing until herdr has answered: once it is complete,  *)
(* although that creation may still be running, the branch is there.           *)
Awaits(p) ==
    \/ op[p] = "suppress" /\ pc[p] \in {"leave", "call"}
    \/ request[p] = "sent" /\ Protected(p)
Guarded == \A p \in Popups : Awaits(p) => phase = "pending" \/ (phase = "complete" /\ branch)

(* Whoever has passed the record knows that what else herdr may be making is   *)
(* on a branch that exists.                                                    *)
Passed(p) ==
    \/ pc[p] \in {"commit", "leave", "call", "waiting"}
    \/ op[p] = "complete" /\ ~Resting(p)
OthersOnBranch ==
    \A p, q \in Popups :
      p # q /\ (Passed(p) \/ request[p] = "sent") /\ request[q] = "sent" => branch

(* While a popup that has found no branch waits for its worktree, the branch   *)
(* comes only with the worktree of another one, or with the half-done creation *)
(* of one whose record is pending and stops it.                                *)
Deciding(p) == pc[p] \in {"enter", "inside", "commit", "leave", "call"}
Expecting(p) == Deciding(p) \/ (pc[p] = "waiting" /\ request[p] = "sent")
NewStaysNew ==
    \A p \in Popups : ~existing[p] /\ op[p] # "complete" /\ Expecting(p) =>
      /\ \A q \in Popups \ {p} : request[q] = "sent" => ~branch
      /\ branch => tree # NoTree \/ (phase = "pending" /\ ~Passed(p))

(* An unprotected creation is the only one under way.                          *)
AloneUnprotected ==
    \A p \in Popups : request[p] = "sent" /\ op[p] = "allow" =>
      /\ tree = NoTree => ~branch
      /\ \A q \in Popups \ {p} : Resting(q) /\ request[q] # "sent"

(* The worktree stays while somebody deals with it, and its record too, unless *)
(* a popup has removed that without knowing of the worktree.                   *)
TreeStays ==
    /\ tree # NoTree => branch
    /\ \A h \in Hooks : pc[h] \notin {"idle", "queued", "done", "dead"} => tree # NoTree
    /\ tree # NoTree /\ tree.origin # "current" => phase # "none" \/ exposed
    /\ \A h \in Hooks : pc[h] = "freshen" => tree.origin = "current" \/ exposed
    /\ \A p \in Popups :
         ~Resting(p) /\ request[p] = "created" /\ choice[p] # "current" /\ ~existing[p] =>
           tree # NoTree /\ tree.origin = "chosen"

BaseAtLast == \A p \in Popups : pc[p] = "unset" => upstream = "base"

(* The inductive invariant of careful users.                                   *)
Cared ==
    /\ OneAtATime /\ Guarded /\ OthersOnBranch /\ NewStaysNew /\ AloneUnprotected
    /\ TreeStays /\ BaseAtLast

NoBranchNoUpstream == ~branch => upstream = "none" /\ tree = NoTree

CareInv ==
    RecordInv /\ InOrder /\ (careful => Cared) /\ SelectedBaseKept /\ NoBranchNoUpstream

LEMMA OrderStep ==
    ASSUME TypeOK, InOrder, [Next]_vars
    PROVE  InOrder'
<1> USE NamesAssumption DEF TypeOK, Processes, InOrder, Tidies, AfterFailure, GoTo, record,
    user, repo
<1>1. ASSUME NEW x \in Processes, EnterLock(x) PROVE InOrder'
  BY <1>1 DEF EnterLock
<1>2. ASSUME NEW x \in Processes, EnterFails(x) PROVE InOrder'
  BY <1>2 DEF EnterFails, AfterFailure
<1>3. ASSUME NEW x \in Processes, ReadPhase(x) PROVE InOrder'
  BY <1>3 DEF ReadPhase
<1>4. ASSUME NEW x \in Processes, CommitPhase(x) PROVE InOrder'
  BY <1>4 DEF CommitPhase, Written
<1>5. ASSUME NEW x \in Processes, LeaveLock(x) PROVE InOrder'
  BY <1>5 DEF LeaveLock, AfterSection, AfterFailure
<1>6. ASSUME NEW x \in Processes, Crash(x) PROVE InOrder'
  BY <1>6 DEF Crash
<1>7. ASSUME NEW p \in Popups, Confirm(p) PROVE InOrder'
  BY <1>7 DEF Confirm, NothingElseOpen
<1>8. ASSUME NEW p \in Popups, CallCreate(p) PROVE InOrder'
  BY <1>8 DEF CallCreate
<1>9. ASSUME NEW p \in Popups, GiveUp(p) PROVE InOrder'
  BY <1>9 DEF GiveUp
<1>10. ASSUME NEW p \in Popups, SeeAnswer(p) PROVE InOrder'
  BY <1>10 DEF SeeAnswer
<1>11. ASSUME NEW p \in Popups, InspectTree(p) PROVE InOrder'
  BY <1>11 DEF InspectTree
<1>12. ASSUME NEW p \in Popups, CompareUpstream(p) PROVE InOrder'
  BY <1>12 DEF CompareUpstream
<1>13. ASSUME NEW p \in Popups, UnsetUpstream(p) PROVE InOrder'
  BY <1>13 DEF UnsetUpstream
<1>14. ASSUME NEW p \in Popups, Reject(p) PROVE InOrder'
  BY <1>14 DEF Reject
<1>15. ASSUME NEW p \in Popups, Create(p) PROVE InOrder'
  BY <1>15 DEF Create, MakeBranch
<1>16. ASSUME NEW p \in Popups, FailCreate(p) PROVE InOrder'
  BY <1>16 DEF FailCreate, MakeBranch
<1>17. ASSUME NEW h \in Hooks, Redeliver(h) PROVE InOrder'
  BY <1>17 DEF Redeliver
<1>18. ASSUME NEW h \in Hooks, CheckProtected(h) PROVE InOrder'
  BY <1>18 DEF CheckProtected
<1>19. ASSUME NEW h \in Hooks, FastForward(h) PROVE InOrder'
  BY <1>19 DEF FastForward
<1>20. ASSUME NEW h \in Hooks, SkipFreshen(h) PROVE InOrder'
  BY <1>20 DEF SkipFreshen
<1>21. CASE RemoveTree
  BY <1>21 DEF RemoveTree, Settled
<1>22. CASE DeleteBranch
  BY <1>22 DEF DeleteBranch, Settled
<1>23. CASE Push
  BY <1>23 DEF Push
<1>24. CASE UNCHANGED vars
  BY <1>24 DEF vars
<1>25. QED
  BY <1>1, <1>2, <1>3, <1>4, <1>5, <1>6, <1>7, <1>8, <1>9, <1>10, <1>11, <1>12, <1>13,
      <1>14, <1>15, <1>16, <1>17, <1>18, <1>19, <1>20, <1>21, <1>22, <1>23, <1>24, NextCases

LEMMA OneStep ==
    ASSUME TypeOK, InOrder, OneAtATime, careful, [Next]_vars
    PROVE  OneAtATime'
<1> USE NamesAssumption DEF TypeOK, Processes, InOrder, OneAtATime, Resting, Ended,
    Protected, GoTo, record, user, repo
<1>1. ASSUME NEW x \in Processes, EnterLock(x) PROVE OneAtATime'
  BY <1>1 DEF EnterLock
<1>2. ASSUME NEW x \in Processes, EnterFails(x) PROVE OneAtATime'
  BY <1>2 DEF EnterFails, AfterFailure
<1>3. ASSUME NEW x \in Processes, ReadPhase(x) PROVE OneAtATime'
  BY <1>3 DEF ReadPhase
<1>4. ASSUME NEW x \in Processes, CommitPhase(x) PROVE OneAtATime'
  BY <1>4 DEF CommitPhase, Written
<1>5. ASSUME NEW x \in Processes, LeaveLock(x) PROVE OneAtATime'
  BY <1>5 DEF LeaveLock, AfterSection, AfterFailure
<1>6. ASSUME NEW x \in Processes, Crash(x) PROVE OneAtATime'
  BY <1>6 DEF Crash
<1>7. ASSUME NEW p \in Popups, Confirm(p) PROVE OneAtATime'
  BY <1>7 DEF Confirm, NothingElseOpen
<1>8. ASSUME NEW p \in Popups, CallCreate(p) PROVE OneAtATime'
  BY <1>8 DEF CallCreate
<1>9. ASSUME NEW p \in Popups, GiveUp(p) PROVE OneAtATime'
  BY <1>9 DEF GiveUp
<1>10. ASSUME NEW p \in Popups, SeeAnswer(p) PROVE OneAtATime'
  BY <1>10 DEF SeeAnswer
<1>11. ASSUME NEW p \in Popups, InspectTree(p) PROVE OneAtATime'
  BY <1>11 DEF InspectTree
<1>12. ASSUME NEW p \in Popups, CompareUpstream(p) PROVE OneAtATime'
  BY <1>12 DEF CompareUpstream
<1>13. ASSUME NEW p \in Popups, UnsetUpstream(p) PROVE OneAtATime'
  BY <1>13 DEF UnsetUpstream
<1>14. ASSUME NEW p \in Popups, Reject(p) PROVE OneAtATime'
  BY <1>14 DEF Reject
<1>15. ASSUME NEW p \in Popups, Create(p) PROVE OneAtATime'
  BY <1>15 DEF Create, MakeBranch
<1>16. ASSUME NEW p \in Popups, FailCreate(p) PROVE OneAtATime'
  BY <1>16 DEF FailCreate, MakeBranch
<1>17. ASSUME NEW h \in Hooks, Redeliver(h) PROVE OneAtATime'
  BY <1>17 DEF Redeliver
<1>18. ASSUME NEW h \in Hooks, CheckProtected(h) PROVE OneAtATime'
  BY <1>18 DEF CheckProtected
<1>19. ASSUME NEW h \in Hooks, FastForward(h) PROVE OneAtATime'
  BY <1>19 DEF FastForward
<1>20. ASSUME NEW h \in Hooks, SkipFreshen(h) PROVE OneAtATime'
  BY <1>20 DEF SkipFreshen
<1>21. CASE RemoveTree
  BY <1>21 DEF RemoveTree, Settled
<1>22. CASE DeleteBranch
  BY <1>22 DEF DeleteBranch, Settled
<1>23. CASE Push
  BY <1>23 DEF Push
<1>24. CASE UNCHANGED vars
  BY <1>24 DEF vars
<1>25. QED
  BY <1>1, <1>2, <1>3, <1>4, <1>5, <1>6, <1>7, <1>8, <1>9, <1>10, <1>11, <1>12, <1>13,
      <1>14, <1>15, <1>16, <1>17, <1>18, <1>19, <1>20, <1>21, <1>22, <1>23, <1>24, NextCases

LEMMA GuardedStep ==
    ASSUME TypeOK, DecisionStands, InOrder, OneAtATime, Guarded, OthersOnBranch,
        NewStaysNew, TreeStays, careful, [Next]_vars
    PROVE  Guarded'
<1> USE NamesAssumption DEF TypeOK, Processes, InOrder, OneAtATime, Resting, Ended,
    Protected, Guarded, Awaits, GoTo, record, user, repo
<1>1. ASSUME NEW x \in Processes, EnterLock(x) PROVE Guarded'
  BY <1>1 DEF EnterLock
<1>2. ASSUME NEW x \in Processes, EnterFails(x) PROVE Guarded'
  BY <1>2 DEF EnterFails, AfterFailure
<1>3. ASSUME NEW x \in Processes, ReadPhase(x) PROVE Guarded'
  BY <1>3 DEF ReadPhase, Writes, Leaves
<1>4. ASSUME NEW x \in Processes, CommitPhase(x) PROVE Guarded'
  BY <1>4 DEF CommitPhase, Written, DecisionStands, Writes, OthersOnBranch, Passed,
      NewStaysNew, Expecting, Deciding, TreeStays
<1>5. ASSUME NEW x \in Processes, LeaveLock(x) PROVE Guarded'
  BY <1>5 DEF LeaveLock, AfterSection, AfterFailure
<1>6. ASSUME NEW x \in Processes, Crash(x) PROVE Guarded'
  BY <1>6 DEF Crash
<1>7. ASSUME NEW p \in Popups, Confirm(p) PROVE Guarded'
  BY <1>7 DEF Confirm, NothingElseOpen
<1>8. ASSUME NEW p \in Popups, CallCreate(p) PROVE Guarded'
  BY <1>8 DEF CallCreate
<1>9. ASSUME NEW p \in Popups, GiveUp(p) PROVE Guarded'
  BY <1>9 DEF GiveUp
<1>10. ASSUME NEW p \in Popups, SeeAnswer(p) PROVE Guarded'
  BY <1>10 DEF SeeAnswer
<1>11. ASSUME NEW p \in Popups, InspectTree(p) PROVE Guarded'
  BY <1>11 DEF InspectTree
<1>12. ASSUME NEW p \in Popups, CompareUpstream(p) PROVE Guarded'
  BY <1>12 DEF CompareUpstream
<1>13. ASSUME NEW p \in Popups, UnsetUpstream(p) PROVE Guarded'
  BY <1>13 DEF UnsetUpstream
<1>14. ASSUME NEW p \in Popups, Reject(p) PROVE Guarded'
  BY <1>14 DEF Reject
<1>15. ASSUME NEW p \in Popups, Create(p) PROVE Guarded'
  BY <1>15 DEF Create, MakeBranch
<1>16. ASSUME NEW p \in Popups, FailCreate(p) PROVE Guarded'
  BY <1>16 DEF FailCreate, MakeBranch
<1>17. ASSUME NEW h \in Hooks, Redeliver(h) PROVE Guarded'
  BY <1>17 DEF Redeliver
<1>18. ASSUME NEW h \in Hooks, CheckProtected(h) PROVE Guarded'
  BY <1>18 DEF CheckProtected
<1>19. ASSUME NEW h \in Hooks, FastForward(h) PROVE Guarded'
  BY <1>19 DEF FastForward
<1>20. ASSUME NEW h \in Hooks, SkipFreshen(h) PROVE Guarded'
  BY <1>20 DEF SkipFreshen
<1>21. CASE RemoveTree
  BY <1>21 DEF RemoveTree, Settled
<1>22. CASE DeleteBranch
  BY <1>22 DEF DeleteBranch, Settled
<1>23. CASE Push
  BY <1>23 DEF Push
<1>24. CASE UNCHANGED vars
  BY <1>24 DEF vars
<1>25. QED
  BY <1>1, <1>2, <1>3, <1>4, <1>5, <1>6, <1>7, <1>8, <1>9, <1>10, <1>11, <1>12, <1>13,
      <1>14, <1>15, <1>16, <1>17, <1>18, <1>19, <1>20, <1>21, <1>22, <1>23, <1>24, NextCases

LEMMA OthersStep ==
    ASSUME TypeOK, InOrder, OneAtATime, Guarded, OthersOnBranch, NewStaysNew, careful,
        [Next]_vars
    PROVE  OthersOnBranch'
<1> USE NamesAssumption DEF TypeOK, Processes, InOrder, OneAtATime, Resting, Ended,
    Protected, OthersOnBranch, Passed, GoTo, record, user, repo
<1>1. ASSUME NEW x \in Processes, EnterLock(x) PROVE OthersOnBranch'
  BY <1>1 DEF EnterLock
<1>2. ASSUME NEW x \in Processes, EnterFails(x) PROVE OthersOnBranch'
  BY <1>2 DEF EnterFails, AfterFailure
<1>3. ASSUME NEW x \in Processes, ReadPhase(x) PROVE OthersOnBranch'
  BY <1>3 DEF ReadPhase, Guarded, Awaits, Writes, Leaves, NewStaysNew, Expecting, Deciding
<1>4. ASSUME NEW x \in Processes, CommitPhase(x) PROVE OthersOnBranch'
  BY <1>4 DEF CommitPhase, Written
<1>5. ASSUME NEW x \in Processes, LeaveLock(x) PROVE OthersOnBranch'
  BY <1>5 DEF LeaveLock, AfterSection, AfterFailure
<1>6. ASSUME NEW x \in Processes, Crash(x) PROVE OthersOnBranch'
  BY <1>6 DEF Crash
<1>7. ASSUME NEW p \in Popups, Confirm(p) PROVE OthersOnBranch'
  BY <1>7 DEF Confirm, NothingElseOpen
<1>8. ASSUME NEW p \in Popups, CallCreate(p) PROVE OthersOnBranch'
  BY <1>8 DEF CallCreate
<1>9. ASSUME NEW p \in Popups, GiveUp(p) PROVE OthersOnBranch'
  BY <1>9 DEF GiveUp
<1>10. ASSUME NEW p \in Popups, SeeAnswer(p) PROVE OthersOnBranch'
  BY <1>10 DEF SeeAnswer
<1>11. ASSUME NEW p \in Popups, InspectTree(p) PROVE OthersOnBranch'
  BY <1>11 DEF InspectTree
<1>12. ASSUME NEW p \in Popups, CompareUpstream(p) PROVE OthersOnBranch'
  BY <1>12 DEF CompareUpstream
<1>13. ASSUME NEW p \in Popups, UnsetUpstream(p) PROVE OthersOnBranch'
  BY <1>13 DEF UnsetUpstream
<1>14. ASSUME NEW p \in Popups, Reject(p) PROVE OthersOnBranch'
  BY <1>14 DEF Reject
<1>15. ASSUME NEW p \in Popups, Create(p) PROVE OthersOnBranch'
  BY <1>15 DEF Create, MakeBranch
<1>16. ASSUME NEW p \in Popups, FailCreate(p) PROVE OthersOnBranch'
  BY <1>16 DEF FailCreate, MakeBranch
<1>17. ASSUME NEW h \in Hooks, Redeliver(h) PROVE OthersOnBranch'
  BY <1>17 DEF Redeliver
<1>18. ASSUME NEW h \in Hooks, CheckProtected(h) PROVE OthersOnBranch'
  BY <1>18 DEF CheckProtected
<1>19. ASSUME NEW h \in Hooks, FastForward(h) PROVE OthersOnBranch'
  BY <1>19 DEF FastForward
<1>20. ASSUME NEW h \in Hooks, SkipFreshen(h) PROVE OthersOnBranch'
  BY <1>20 DEF SkipFreshen
<1>21. CASE RemoveTree
  BY <1>21 DEF RemoveTree, Settled
<1>22. CASE DeleteBranch
  BY <1>22 DEF DeleteBranch, Settled
<1>23. CASE Push
  BY <1>23 DEF Push
<1>24. CASE UNCHANGED vars
  BY <1>24 DEF vars
<1>25. QED
  BY <1>1, <1>2, <1>3, <1>4, <1>5, <1>6, <1>7, <1>8, <1>9, <1>10, <1>11, <1>12, <1>13,
      <1>14, <1>15, <1>16, <1>17, <1>18, <1>19, <1>20, <1>21, <1>22, <1>23, <1>24, NextCases

LEMMA NewStep ==
    ASSUME TypeOK, InOrder, OneAtATime, Guarded, OthersOnBranch, NewStaysNew, TreeStays,
        careful, [Next]_vars
    PROVE  NewStaysNew'
<1> USE NamesAssumption DEF TypeOK, Processes, InOrder, OneAtATime, Resting, Ended,
    Protected, OthersOnBranch, Passed, NewStaysNew, Expecting, Deciding, GoTo, record,
    user, repo
<1>1. ASSUME NEW x \in Processes, EnterLock(x) PROVE NewStaysNew'
  BY <1>1 DEF EnterLock
<1>2. ASSUME NEW x \in Processes, EnterFails(x) PROVE NewStaysNew'
  BY <1>2 DEF EnterFails, AfterFailure
<1>3. ASSUME NEW x \in Processes, ReadPhase(x) PROVE NewStaysNew'
  BY <1>3 DEF ReadPhase, Writes, Leaves
<1>4. ASSUME NEW x \in Processes, CommitPhase(x) PROVE NewStaysNew'
  <2>1. CASE x \in Hooks
    BY <1>4, <2>1 DEF CommitPhase, TreeStays
  <2>2. CASE x \in Popups
    BY <1>4, <2>2 DEF CommitPhase
  <2> QED BY <2>1, <2>2
<1>5. ASSUME NEW x \in Processes, LeaveLock(x) PROVE NewStaysNew'
  BY <1>5 DEF LeaveLock, AfterSection, AfterFailure
<1>6. ASSUME NEW x \in Processes, Crash(x) PROVE NewStaysNew'
  BY <1>6 DEF Crash
<1>7. ASSUME NEW p \in Popups, Confirm(p) PROVE NewStaysNew'
  BY <1>7 DEF Confirm, NothingElseOpen
<1>8. ASSUME NEW p \in Popups, CallCreate(p) PROVE NewStaysNew'
  BY <1>8 DEF CallCreate
<1>9. ASSUME NEW p \in Popups, GiveUp(p) PROVE NewStaysNew'
  BY <1>9 DEF GiveUp
<1>10. ASSUME NEW p \in Popups, SeeAnswer(p) PROVE NewStaysNew'
  BY <1>10 DEF SeeAnswer
<1>11. ASSUME NEW p \in Popups, InspectTree(p) PROVE NewStaysNew'
  BY <1>11 DEF InspectTree
<1>12. ASSUME NEW p \in Popups, CompareUpstream(p) PROVE NewStaysNew'
  BY <1>12 DEF CompareUpstream
<1>13. ASSUME NEW p \in Popups, UnsetUpstream(p) PROVE NewStaysNew'
  BY <1>13 DEF UnsetUpstream
<1>14. ASSUME NEW p \in Popups, Reject(p) PROVE NewStaysNew'
  BY <1>14 DEF Reject
<1>15. ASSUME NEW p \in Popups, Create(p) PROVE NewStaysNew'
  <2>1. tree' # NoTree
    <3>1. tree' = [origin |-> IF branch THEN "existing" ELSE choice[p], moved |-> FALSE]
      BY <1>15 DEF Create
    <3>2. tree' \in Trees
      BY <3>1 DEF Trees, Origins, Kinds
    <3> QED BY <3>2
  <2>2. ASSUME NEW q \in Popups, ~existing[q], op[q] # "complete", Expecting(q)'
        PROVE  q # p /\ Expecting(q)
    BY <1>15, <2>2 DEF Create
  <2>3. ASSUME NEW q \in Popups, ~existing[q], op[q] # "complete", Expecting(q)',
               NEW r \in Popups \ {q}
        PROVE  request'[r] # "sent"
    BY <1>15, <2>2, <2>3 DEF Create
  <2> QED
    BY <1>15, <2>1, <2>3 DEF Create
<1>16. ASSUME NEW p \in Popups, FailCreate(p) PROVE NewStaysNew'
  <2>1. ASSUME NEW q \in Popups, ~existing[q], op[q] # "complete", Expecting(q)'
        PROVE  q # p /\ Expecting(q)
    BY <1>16, <2>1 DEF FailCreate
  <2>2. ASSUME NEW q \in Popups, ~existing[q], op[q] # "complete", Expecting(q)',
               NEW r \in Popups \ {q}
        PROVE  request'[r] # "sent"
    BY <1>16, <2>1, <2>2 DEF FailCreate
  <2>3. ASSUME NEW q \in Popups, ~existing[q], op[q] # "complete", Expecting(q)'
        PROVE  phase = "pending" /\ ~Passed(q)
    BY <1>16, <2>1, <2>3 DEF FailCreate, Guarded, Awaits
  <2> QED
    BY <1>16, <2>2, <2>3 DEF FailCreate
<1>17. ASSUME NEW h \in Hooks, Redeliver(h) PROVE NewStaysNew'
  BY <1>17 DEF Redeliver
<1>18. ASSUME NEW h \in Hooks, CheckProtected(h) PROVE NewStaysNew'
  BY <1>18 DEF CheckProtected
<1>19. ASSUME NEW h \in Hooks, FastForward(h) PROVE NewStaysNew'
  <2>1. tree # NoTree /\ UNCHANGED <<branch, request, op, existing, phase>>
    BY <1>19 DEF FastForward
  <2>2. tree' # NoTree
    BY <1>19, <2>1 DEF FastForward, Origins, Trees
  <2>3. \A q \in Popups : pc'[q] = pc[q]
    BY <1>19 DEF FastForward
  <2> QED BY <2>1, <2>2, <2>3
<1>20. ASSUME NEW h \in Hooks, SkipFreshen(h) PROVE NewStaysNew'
  BY <1>20 DEF SkipFreshen
<1>21. CASE RemoveTree
  BY <1>21 DEF RemoveTree, Settled
<1>22. CASE DeleteBranch
  BY <1>22 DEF DeleteBranch, Settled
<1>23. CASE Push
  BY <1>23 DEF Push
<1>24. CASE UNCHANGED vars
  BY <1>24 DEF vars
<1>25. QED
  BY <1>1, <1>2, <1>3, <1>4, <1>5, <1>6, <1>7, <1>8, <1>9, <1>10, <1>11, <1>12, <1>13,
      <1>14, <1>15, <1>16, <1>17, <1>18, <1>19, <1>20, <1>21, <1>22, <1>23, <1>24, NextCases

LEMMA AloneStep ==
    ASSUME TypeOK, InOrder, OneAtATime, OthersOnBranch, NewStaysNew, AloneUnprotected,
        careful, [Next]_vars
    PROVE  AloneUnprotected'
<1> USE NamesAssumption DEF TypeOK, Processes, InOrder, OneAtATime, Resting, Ended,
    Protected, OthersOnBranch, Passed, NewStaysNew, Expecting, Deciding,
    AloneUnprotected, GoTo, record, user, repo
<1>1. ASSUME NEW x \in Processes, EnterLock(x) PROVE AloneUnprotected'
  BY <1>1 DEF EnterLock
<1>2. ASSUME NEW x \in Processes, EnterFails(x) PROVE AloneUnprotected'
  BY <1>2 DEF EnterFails, AfterFailure
<1>3. ASSUME NEW x \in Processes, ReadPhase(x) PROVE AloneUnprotected'
  BY <1>3 DEF ReadPhase
<1>4. ASSUME NEW x \in Processes, CommitPhase(x) PROVE AloneUnprotected'
  BY <1>4 DEF CommitPhase, Written
<1>5. ASSUME NEW x \in Processes, LeaveLock(x) PROVE AloneUnprotected'
  BY <1>5 DEF LeaveLock, AfterSection, AfterFailure
<1>6. ASSUME NEW x \in Processes, Crash(x) PROVE AloneUnprotected'
  BY <1>6 DEF Crash
<1>7. ASSUME NEW p \in Popups, Confirm(p) PROVE AloneUnprotected'
  BY <1>7 DEF Confirm, NothingElseOpen
<1>8. ASSUME NEW p \in Popups, CallCreate(p) PROVE AloneUnprotected'
  BY <1>8 DEF CallCreate
<1>9. ASSUME NEW p \in Popups, GiveUp(p) PROVE AloneUnprotected'
  BY <1>9 DEF GiveUp
<1>10. ASSUME NEW p \in Popups, SeeAnswer(p) PROVE AloneUnprotected'
  BY <1>10 DEF SeeAnswer
<1>11. ASSUME NEW p \in Popups, InspectTree(p) PROVE AloneUnprotected'
  BY <1>11 DEF InspectTree
<1>12. ASSUME NEW p \in Popups, CompareUpstream(p) PROVE AloneUnprotected'
  BY <1>12 DEF CompareUpstream
<1>13. ASSUME NEW p \in Popups, UnsetUpstream(p) PROVE AloneUnprotected'
  BY <1>13 DEF UnsetUpstream
<1>14. ASSUME NEW p \in Popups, Reject(p) PROVE AloneUnprotected'
  BY <1>14 DEF Reject
<1>15. ASSUME NEW p \in Popups, Create(p) PROVE AloneUnprotected'
  BY <1>15 DEF Create, MakeBranch
<1>16. ASSUME NEW p \in Popups, FailCreate(p) PROVE AloneUnprotected'
  BY <1>16 DEF FailCreate, MakeBranch
<1>17. ASSUME NEW h \in Hooks, Redeliver(h) PROVE AloneUnprotected'
  BY <1>17 DEF Redeliver
<1>18. ASSUME NEW h \in Hooks, CheckProtected(h) PROVE AloneUnprotected'
  BY <1>18 DEF CheckProtected
<1>19. ASSUME NEW h \in Hooks, FastForward(h) PROVE AloneUnprotected'
  <2>1. tree # NoTree /\ branch' = branch /\ request' = request /\ op' = op
    BY <1>19 DEF FastForward
  <2>2. tree' # NoTree
    BY <1>19, <2>1 DEF FastForward, Origins, Trees
  <2>3. \A q \in Popups : pc'[q] = pc[q]
    BY <1>19 DEF FastForward
  <2> QED BY <2>1, <2>2, <2>3
<1>20. ASSUME NEW h \in Hooks, SkipFreshen(h) PROVE AloneUnprotected'
  BY <1>20 DEF SkipFreshen
<1>21. CASE RemoveTree
  BY <1>21 DEF RemoveTree, Settled
<1>22. CASE DeleteBranch
  BY <1>22 DEF DeleteBranch, Settled
<1>23. CASE Push
  BY <1>23 DEF Push
<1>24. CASE UNCHANGED vars
  BY <1>24 DEF vars
<1>25. QED
  BY <1>1, <1>2, <1>3, <1>4, <1>5, <1>6, <1>7, <1>8, <1>9, <1>10, <1>11, <1>12, <1>13,
      <1>14, <1>15, <1>16, <1>17, <1>18, <1>19, <1>20, <1>21, <1>22, <1>23, <1>24, NextCases

LEMMA TreeStep ==
    ASSUME TypeOK, DecisionStands, InOrder, OneAtATime, Guarded, NewStaysNew,
        AloneUnprotected, TreeStays, careful, [Next]_vars
    PROVE  TreeStays'
<1> USE NamesAssumption DEF TypeOK, Processes, Kinds, InOrder, OneAtATime, Resting, Ended,
    Protected, TreeStays, GoTo, record, user, repo
<1>1. ASSUME NEW x \in Processes, EnterLock(x) PROVE TreeStays'
  BY <1>1 DEF EnterLock
<1>2. ASSUME NEW x \in Processes, EnterFails(x) PROVE TreeStays'
  BY <1>2 DEF EnterFails, AfterFailure
<1>3. ASSUME NEW x \in Processes, ReadPhase(x) PROVE TreeStays'
  BY <1>3 DEF ReadPhase
<1>4. ASSUME NEW x \in Processes, CommitPhase(x) PROVE TreeStays'
  BY <1>4 DEF CommitPhase, Written, DecisionStands, Writes, Overtaken
<1>5. ASSUME NEW x \in Processes, LeaveLock(x) PROVE TreeStays'
  BY <1>5 DEF LeaveLock, AfterSection, AfterFailure
<1>6. ASSUME NEW x \in Processes, Crash(x) PROVE TreeStays'
  BY <1>6 DEF Crash
<1>7. ASSUME NEW p \in Popups, Confirm(p) PROVE TreeStays'
  BY <1>7 DEF Confirm, NothingElseOpen
<1>8. ASSUME NEW p \in Popups, CallCreate(p) PROVE TreeStays'
  BY <1>8 DEF CallCreate
<1>9. ASSUME NEW p \in Popups, GiveUp(p) PROVE TreeStays'
  BY <1>9 DEF GiveUp
<1>10. ASSUME NEW p \in Popups, SeeAnswer(p) PROVE TreeStays'
  BY <1>10 DEF SeeAnswer
<1>11. ASSUME NEW p \in Popups, InspectTree(p) PROVE TreeStays'
  BY <1>11 DEF InspectTree
<1>12. ASSUME NEW p \in Popups, CompareUpstream(p) PROVE TreeStays'
  BY <1>12 DEF CompareUpstream
<1>13. ASSUME NEW p \in Popups, UnsetUpstream(p) PROVE TreeStays'
  BY <1>13 DEF UnsetUpstream
<1>14. ASSUME NEW p \in Popups, Reject(p) PROVE TreeStays'
  BY <1>14 DEF Reject
<1>15. ASSUME NEW p \in Popups, Create(p) PROVE TreeStays'
  <2>1. tree = NoTree /\ request[p] = "sent" /\ branch' = TRUE
    BY <1>15 DEF Create, MakeBranch
  <2>2. tree' = [origin |-> IF branch THEN "existing" ELSE choice[p], moved |-> FALSE]
    BY <1>15 DEF Create
  <2>9. tree' # NoTree
    <3>1. tree' \in Trees
      BY <2>2 DEF Trees, Origins
    <3> QED BY <3>1
  <2>3. op[p] = "suppress" \/ op[p] = "allow"
    BY <2>1
  <2>4. op[p] = "allow" => tree'.origin = "current"
    BY <2>1, <2>2 DEF AloneUnprotected
  <2>5. op[p] = "suppress" => phase # "none"
    BY <2>1 DEF Guarded, Awaits
  <2>6. tree'.origin # "current" => phase' # "none"
    BY <1>15, <2>3, <2>4, <2>5 DEF Create
  <2>7. \A h \in Hooks : pc'[h] # "freshen"
    BY <1>15, <2>1 DEF Create
  <2>8. ASSUME NEW q \in Popups, ~Resting(q)', request'[q] = "created",
               choice'[q] # "current", ~existing'[q]
        PROVE  tree' # NoTree /\ tree'.origin = "chosen"
    <3>1. pc[q] \notin {"idle", "done", "dead"} /\ choice[q] = "chosen" /\ ~existing[q]
      BY <1>15, <2>8 DEF Create
    <3>2. CASE q # p
      BY <1>15, <2>1, <2>8, <3>1, <3>2 DEF Create
    <3>3. CASE q = p
      <4>1. op[p] # "complete" /\ pc[p] = "waiting"
        BY <2>1, <3>1, <3>3 DEF Steps, Tidies
      <4>2. ~branch
        BY <2>1, <3>1, <3>3, <4>1 DEF NewStaysNew, Expecting, Passed
      <4> QED BY <2>2, <2>9, <3>1, <3>3, <4>2
    <3> QED BY <3>2, <3>3
  <2> QED
    BY <1>15, <2>1, <2>2, <2>6, <2>7, <2>8, <2>9 DEF Create, MakeBranch
<1>16. ASSUME NEW p \in Popups, FailCreate(p) PROVE TreeStays'
  BY <1>16 DEF FailCreate, MakeBranch
<1>17. ASSUME NEW h \in Hooks, Redeliver(h) PROVE TreeStays'
  BY <1>17 DEF Redeliver
<1>18. ASSUME NEW h \in Hooks, CheckProtected(h) PROVE TreeStays'
  BY <1>18 DEF CheckProtected
<1>19. ASSUME NEW h \in Hooks, FastForward(h) PROVE TreeStays'
  <2>1. tree # NoTree /\ UNCHANGED <<branch, request, choice, existing, phase, exposed>>
    BY <1>19 DEF FastForward
  <2>2. tree' # NoTree /\ tree'.origin = tree.origin
    <3>1. tree \in Trees /\ tree' = [tree EXCEPT !.moved = TRUE]
      BY <1>19, <2>1 DEF FastForward
    <3>2. tree' \in Trees /\ tree'.origin = tree.origin
      BY <3>1 DEF Trees
    <3> QED BY <3>2
  <2>3. \A x \in Processes : x # h => pc'[x] = pc[x]
    BY <1>19 DEF FastForward
  <2>4. pc'[h] = "done"
    BY <1>19 DEF FastForward
  <2> QED BY <2>1, <2>2, <2>3, <2>4
<1>20. ASSUME NEW h \in Hooks, SkipFreshen(h) PROVE TreeStays'
  BY <1>20 DEF SkipFreshen
<1>21. CASE RemoveTree
  BY <1>21 DEF RemoveTree, Settled
<1>22. CASE DeleteBranch
  BY <1>22 DEF DeleteBranch, Settled
<1>23. CASE Push
  BY <1>23 DEF Push
<1>24. CASE UNCHANGED vars
  BY <1>24 DEF vars
<1>25. QED
  BY <1>1, <1>2, <1>3, <1>4, <1>5, <1>6, <1>7, <1>8, <1>9, <1>10, <1>11, <1>12, <1>13,
      <1>14, <1>15, <1>16, <1>17, <1>18, <1>19, <1>20, <1>21, <1>22, <1>23, <1>24, NextCases

LEMMA BaseStep ==
    ASSUME TypeOK, InOrder, OneAtATime, TreeStays, BaseAtLast, careful, [Next]_vars
    PROVE  BaseAtLast'
<1> USE NamesAssumption DEF TypeOK, Processes, InOrder, OneAtATime, Resting, Ended,
    TreeStays, BaseAtLast, GoTo, record, user, repo
<1>1. ASSUME NEW x \in Processes, EnterLock(x) PROVE BaseAtLast'
  BY <1>1 DEF EnterLock
<1>2. ASSUME NEW x \in Processes, EnterFails(x) PROVE BaseAtLast'
  BY <1>2 DEF EnterFails, AfterFailure
<1>3. ASSUME NEW x \in Processes, ReadPhase(x) PROVE BaseAtLast'
  BY <1>3 DEF ReadPhase
<1>4. ASSUME NEW x \in Processes, CommitPhase(x) PROVE BaseAtLast'
  BY <1>4 DEF CommitPhase, Written
<1>5. ASSUME NEW x \in Processes, LeaveLock(x) PROVE BaseAtLast'
  BY <1>5 DEF LeaveLock, AfterSection, AfterFailure
<1>6. ASSUME NEW x \in Processes, Crash(x) PROVE BaseAtLast'
  BY <1>6 DEF Crash
<1>7. ASSUME NEW p \in Popups, Confirm(p) PROVE BaseAtLast'
  BY <1>7 DEF Confirm, NothingElseOpen
<1>8. ASSUME NEW p \in Popups, CallCreate(p) PROVE BaseAtLast'
  BY <1>8 DEF CallCreate
<1>9. ASSUME NEW p \in Popups, GiveUp(p) PROVE BaseAtLast'
  BY <1>9 DEF GiveUp
<1>10. ASSUME NEW p \in Popups, SeeAnswer(p) PROVE BaseAtLast'
  BY <1>10 DEF SeeAnswer
<1>11. ASSUME NEW p \in Popups, InspectTree(p) PROVE BaseAtLast'
  BY <1>11 DEF InspectTree
<1>12. ASSUME NEW p \in Popups, CompareUpstream(p) PROVE BaseAtLast'
  BY <1>12 DEF CompareUpstream
<1>13. ASSUME NEW p \in Popups, UnsetUpstream(p) PROVE BaseAtLast'
  BY <1>13 DEF UnsetUpstream
<1>14. ASSUME NEW p \in Popups, Reject(p) PROVE BaseAtLast'
  BY <1>14 DEF Reject
<1>15. ASSUME NEW p \in Popups, Create(p) PROVE BaseAtLast'
  BY <1>15 DEF Create, MakeBranch, Tidies
<1>16. ASSUME NEW p \in Popups, FailCreate(p) PROVE BaseAtLast'
  BY <1>16 DEF FailCreate, MakeBranch, Tidies
<1>17. ASSUME NEW h \in Hooks, Redeliver(h) PROVE BaseAtLast'
  BY <1>17 DEF Redeliver
<1>18. ASSUME NEW h \in Hooks, CheckProtected(h) PROVE BaseAtLast'
  BY <1>18 DEF CheckProtected
<1>19. ASSUME NEW h \in Hooks, FastForward(h) PROVE BaseAtLast'
  BY <1>19 DEF FastForward
<1>20. ASSUME NEW h \in Hooks, SkipFreshen(h) PROVE BaseAtLast'
  BY <1>20 DEF SkipFreshen
<1>21. CASE RemoveTree
  BY <1>21 DEF RemoveTree, Settled
<1>22. CASE DeleteBranch
  BY <1>22 DEF DeleteBranch, Settled
<1>23. CASE Push
  BY <1>23 DEF Push
<1>24. CASE UNCHANGED vars
  BY <1>24 DEF vars
<1>25. QED
  BY <1>1, <1>2, <1>3, <1>4, <1>5, <1>6, <1>7, <1>8, <1>9, <1>10, <1>11, <1>12, <1>13,
      <1>14, <1>15, <1>16, <1>17, <1>18, <1>19, <1>20, <1>21, <1>22, <1>23, <1>24, NextCases

LEMMA MovedStep ==
    ASSUME TypeOK, SelectedBaseKept, careful => TreeStays, [Next]_vars
    PROVE  SelectedBaseKept'
<1> USE NamesAssumption DEF TypeOK, Processes, SelectedBaseKept, GoTo, record, user, repo
<1>1. ASSUME NEW x \in Processes, EnterLock(x) PROVE SelectedBaseKept'
  BY <1>1 DEF EnterLock
<1>2. ASSUME NEW x \in Processes, EnterFails(x) PROVE SelectedBaseKept'
  BY <1>2 DEF EnterFails, AfterFailure
<1>3. ASSUME NEW x \in Processes, ReadPhase(x) PROVE SelectedBaseKept'
  BY <1>3 DEF ReadPhase
<1>4. ASSUME NEW x \in Processes, CommitPhase(x) PROVE SelectedBaseKept'
  BY <1>4 DEF CommitPhase, Written
<1>5. ASSUME NEW x \in Processes, LeaveLock(x) PROVE SelectedBaseKept'
  BY <1>5 DEF LeaveLock, AfterSection, AfterFailure
<1>6. ASSUME NEW x \in Processes, Crash(x) PROVE SelectedBaseKept'
  BY <1>6 DEF Crash
<1>7. ASSUME NEW p \in Popups, Confirm(p) PROVE SelectedBaseKept'
  BY <1>7 DEF Confirm, NothingElseOpen
<1>8. ASSUME NEW p \in Popups, CallCreate(p) PROVE SelectedBaseKept'
  BY <1>8 DEF CallCreate
<1>9. ASSUME NEW p \in Popups, GiveUp(p) PROVE SelectedBaseKept'
  BY <1>9 DEF GiveUp
<1>10. ASSUME NEW p \in Popups, SeeAnswer(p) PROVE SelectedBaseKept'
  BY <1>10 DEF SeeAnswer
<1>11. ASSUME NEW p \in Popups, InspectTree(p) PROVE SelectedBaseKept'
  BY <1>11 DEF InspectTree
<1>12. ASSUME NEW p \in Popups, CompareUpstream(p) PROVE SelectedBaseKept'
  BY <1>12 DEF CompareUpstream
<1>13. ASSUME NEW p \in Popups, UnsetUpstream(p) PROVE SelectedBaseKept'
  BY <1>13 DEF UnsetUpstream
<1>14. ASSUME NEW p \in Popups, Reject(p) PROVE SelectedBaseKept'
  BY <1>14 DEF Reject
<1>15. ASSUME NEW p \in Popups, Create(p) PROVE SelectedBaseKept'
  <2>1. tree' = [origin |-> IF branch THEN "existing" ELSE choice[p], moved |-> FALSE]
    BY <1>15 DEF Create
  <2> QED BY <2>1
<1>16. ASSUME NEW p \in Popups, FailCreate(p) PROVE SelectedBaseKept'
  BY <1>16 DEF FailCreate, MakeBranch
<1>17. ASSUME NEW h \in Hooks, Redeliver(h) PROVE SelectedBaseKept'
  BY <1>17 DEF Redeliver
<1>18. ASSUME NEW h \in Hooks, CheckProtected(h) PROVE SelectedBaseKept'
  BY <1>18 DEF CheckProtected
<1>19. ASSUME NEW h \in Hooks, FastForward(h) PROVE SelectedBaseKept'
  <2>1. careful' = careful /\ tree # NoTree /\ tree' = [tree EXCEPT !.moved = TRUE]
    BY <1>19 DEF FastForward
  <2>2. careful => tree.origin = "current" \/ exposed
    BY <1>19 DEF TreeStays, FastForward
  <2>3. exposed' = exposed
    BY <1>19 DEF FastForward
  <2> QED BY <2>1, <2>2, <2>3 DEF Trees
<1>20. ASSUME NEW h \in Hooks, SkipFreshen(h) PROVE SelectedBaseKept'
  BY <1>20 DEF SkipFreshen
<1>21. CASE RemoveTree
  BY <1>21 DEF RemoveTree, Settled
<1>22. CASE DeleteBranch
  BY <1>22 DEF DeleteBranch, Settled
<1>23. CASE Push
  BY <1>23 DEF Push
<1>24. CASE UNCHANGED vars
  BY <1>24 DEF vars
<1>25. QED
  BY <1>1, <1>2, <1>3, <1>4, <1>5, <1>6, <1>7, <1>8, <1>9, <1>10, <1>11, <1>12, <1>13,
      <1>14, <1>15, <1>16, <1>17, <1>18, <1>19, <1>20, <1>21, <1>22, <1>23, <1>24, NextCases

LEMMA BranchStep ==
    ASSUME TypeOK, NoBranchNoUpstream, [Next]_vars
    PROVE  NoBranchNoUpstream'
<1> USE NamesAssumption DEF TypeOK, NoBranchNoUpstream, record, user, repo
<1>1. ASSUME NEW x \in Processes, EnterLock(x) PROVE NoBranchNoUpstream'
  BY <1>1 DEF EnterLock
<1>2. ASSUME NEW x \in Processes, EnterFails(x) PROVE NoBranchNoUpstream'
  BY <1>2 DEF EnterFails, AfterFailure
<1>3. ASSUME NEW x \in Processes, ReadPhase(x) PROVE NoBranchNoUpstream'
  BY <1>3 DEF ReadPhase
<1>4. ASSUME NEW x \in Processes, CommitPhase(x) PROVE NoBranchNoUpstream'
  BY <1>4 DEF CommitPhase, Written
<1>5. ASSUME NEW x \in Processes, LeaveLock(x) PROVE NoBranchNoUpstream'
  BY <1>5 DEF LeaveLock, AfterSection, AfterFailure
<1>6. ASSUME NEW x \in Processes, Crash(x) PROVE NoBranchNoUpstream'
  BY <1>6 DEF Crash
<1>7. ASSUME NEW p \in Popups, Confirm(p) PROVE NoBranchNoUpstream'
  BY <1>7 DEF Confirm, NothingElseOpen
<1>8. ASSUME NEW p \in Popups, CallCreate(p) PROVE NoBranchNoUpstream'
  BY <1>8 DEF CallCreate
<1>9. ASSUME NEW p \in Popups, GiveUp(p) PROVE NoBranchNoUpstream'
  BY <1>9 DEF GiveUp
<1>10. ASSUME NEW p \in Popups, SeeAnswer(p) PROVE NoBranchNoUpstream'
  BY <1>10 DEF SeeAnswer
<1>11. ASSUME NEW p \in Popups, InspectTree(p) PROVE NoBranchNoUpstream'
  BY <1>11 DEF InspectTree
<1>12. ASSUME NEW p \in Popups, CompareUpstream(p) PROVE NoBranchNoUpstream'
  BY <1>12 DEF CompareUpstream
<1>13. ASSUME NEW p \in Popups, UnsetUpstream(p) PROVE NoBranchNoUpstream'
  BY <1>13 DEF UnsetUpstream
<1>14. ASSUME NEW p \in Popups, Reject(p) PROVE NoBranchNoUpstream'
  BY <1>14 DEF Reject
<1>15. ASSUME NEW p \in Popups, Create(p) PROVE NoBranchNoUpstream'
  BY <1>15 DEF Create, MakeBranch
<1>16. ASSUME NEW p \in Popups, FailCreate(p) PROVE NoBranchNoUpstream'
  BY <1>16 DEF FailCreate, MakeBranch
<1>17. ASSUME NEW h \in Hooks, Redeliver(h) PROVE NoBranchNoUpstream'
  BY <1>17 DEF Redeliver
<1>18. ASSUME NEW h \in Hooks, CheckProtected(h) PROVE NoBranchNoUpstream'
  BY <1>18 DEF CheckProtected
<1>19. ASSUME NEW h \in Hooks, FastForward(h) PROVE NoBranchNoUpstream'
  BY <1>19 DEF FastForward
<1>20. ASSUME NEW h \in Hooks, SkipFreshen(h) PROVE NoBranchNoUpstream'
  BY <1>20 DEF SkipFreshen
<1>21. CASE RemoveTree
  BY <1>21 DEF RemoveTree, Settled
<1>22. CASE DeleteBranch
  BY <1>22 DEF DeleteBranch, Settled
<1>23. CASE Push
  BY <1>23 DEF Push
<1>24. CASE UNCHANGED vars
  BY <1>24 DEF vars
<1>25. QED
  BY <1>1, <1>2, <1>3, <1>4, <1>5, <1>6, <1>7, <1>8, <1>9, <1>10, <1>11, <1>12, <1>13,
      <1>14, <1>15, <1>16, <1>17, <1>18, <1>19, <1>20, <1>21, <1>22, <1>23, <1>24, NextCases

LEMMA MannersStay ==
    ASSUME [Next]_vars
    PROVE  careful' = careful
  BY NextCases
  DEF vars, EnterLock, EnterFails, ReadPhase, CommitPhase, LeaveLock, Crash, Confirm,
      CallCreate,
      GiveUp, SeeAnswer, InspectTree, CompareUpstream, UnsetUpstream, Reject, Create,
      FailCreate, Redeliver, CheckProtected, FastForward, SkipFreshen, RemoveTree,
      DeleteBranch, Push

LEMMA CareInvariant == Spec => []CareInv
<1>1. Init => CareInv
  <2> SUFFICES ASSUME Init PROVE CareInv
    OBVIOUS
  <2> USE NamesAssumption DEF Init, Processes
  <2>1. InOrder
    BY DEF InOrder
  <2>2. Cared
    BY DEF Cared, OneAtATime, Resting, Ended, Guarded, Awaits, Protected, OthersOnBranch,
        Passed, NewStaysNew, Expecting, Deciding, AloneUnprotected, TreeStays, BaseAtLast
  <2>3. SelectedBaseKept /\ NoBranchNoUpstream
    BY DEF SelectedBaseKept, NoBranchNoUpstream
  <2> QED BY <2>1, <2>2, <2>3, InitRecord DEF CareInv
<1>2. CareInv /\ [Next]_vars => CareInv'
  <2> SUFFICES ASSUME CareInv, [Next]_vars PROVE CareInv'
    OBVIOUS
  <2>1. TypeOK /\ DecisionStands /\ InOrder
    BY DEF CareInv, RecordInv
  <2>2. RecordInv'
    BY <2>1, TypeStep, DecisionStep DEF RecordInv
  <2>3. InOrder'
    BY <2>1, OrderStep
  <2>4. ASSUME careful PROVE Cared'
    BY <2>1, <2>4, OneStep, GuardedStep, OthersStep, NewStep, AloneStep, TreeStep, BaseStep
    DEF CareInv, Cared
  <2>5. SelectedBaseKept'
    BY <2>1, MovedStep DEF CareInv, Cared
  <2>6. NoBranchNoUpstream'
    BY <2>1, BranchStep DEF CareInv
  <2> QED BY <2>2, <2>3, <2>4, <2>5, <2>6, MannersStay DEF CareInv
<1>3. QED
  BY <1>1, <1>2, PTL DEF Spec

(* While herdr may still make the worktree of a protected creation the record  *)
(* is there, for any number of popups and hooks, whichever have timed out or   *)
(* died.                                                                       *)
THEOREM CreationStaysProtected == Spec => []ProtectedWhileRunning
<1>1. CareInv => ProtectedWhileRunning
  BY DEF CareInv, Cared, Guarded, Awaits, ProtectedWhileRunning
<1>2. QED
  BY CareInvariant, <1>1, PTL

(* However many popups and hooks there are, and however often the hooks run,   *)
(* none moves the worktree that a careful user has put on a chosen base or an  *)
(* existing branch, but where a popup that had looked before the worktree was  *)
(* made has removed its record since.                                          *)
THEOREM ChosenBaseStays == Spec => []SelectedBaseKept
<1>1. CareInv => SelectedBaseKept
  BY DEF CareInv
<1>2. QED
  BY CareInvariant, <1>1, PTL

(* A popup takes no upstream away but the one that its own creation has made.  *)
THEOREM UpstreamStays == Spec => UpstreamKept
<1>1. CareInv /\ [Next]_vars
        => [careful /\ upstream # "none" /\ upstream' = "none" /\ branch' =>
              upstream = "base" /\ tree # NoTree /\ tree.origin = "chosen"]_vars
  <2> SUFFICES ASSUME CareInv, [Next]_vars, careful, upstream # "none", upstream' = "none",
                      branch'
               PROVE  upstream = "base" /\ tree # NoTree /\ tree.origin = "chosen"
    OBVIOUS
  <2>1. ASSUME NEW p \in Popups, UnsetUpstream(p)
        PROVE  upstream = "base" /\ tree # NoTree /\ tree.origin = "chosen"
    BY <2>1 DEF UnsetUpstream, CareInv, Cared, BaseAtLast, TreeStays, InOrder, Tidies,
        Resting,
        Ended
  <2>2. ASSUME Next, \A p \in Popups : ~UnsetUpstream(p) PROVE FALSE
    <3>1. ASSUME NEW p \in Popups, Create(p) \/ FailCreate(p) PROVE FALSE
      BY <3>1 DEF Create, FailCreate, MakeBranch, CareInv, NoBranchNoUpstream
    <3> QED
      BY <2>2, <3>1, NextCases
      DEF EnterLock, EnterFails, ReadPhase, LeaveLock, CommitPhase, Crash, Confirm,
          CallCreate,
          GiveUp, SeeAnswer, Reject, Redeliver, CheckProtected, FastForward, SkipFreshen,
          RemoveTree, DeleteBranch, InspectTree, CompareUpstream, Push, repo
  <2>3. QED
    BY <2>1, <2>2 DEF vars, repo
<1>2. QED
  BY CareInvariant, <1>1, PTL DEF Spec, UpstreamKept
===============================================================================
