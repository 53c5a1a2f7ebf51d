---------------------------- MODULE PopupProtection ----------------------------
(* How a worktree made by the creation popup keeps the base its user chose.    *)
(*                                                                             *)
(* herdr runs the worktree.created hook in a process of its own, before or     *)
(* after it answers the popup, and the hook fast-forwards a new worktree to    *)
(* the branch it seems to come from.  A popup that chose another base, or an   *)
(* existing branch, leaves a record first; the hook finds the record and keeps *)
(* away.  git makes the base of a new branch its upstream, which the popup     *)
(* takes away again.  The record belongs to a repository and a branch name;    *)
(* the model follows one name, with every popup, hook and user that deals with *)
(* it.                                                                         *)
EXTENDS FiniteSets

CONSTANTS Popups,    \* runs of createController.create for this name
          Hooks,     \* deliveries of worktree.created for this name
          NoTree,    \* no worktree has the branch checked out
          Free,      \* nobody has the lock file of the record
          Orphan,    \* its holder died: nobody ever takes the lock away
          Manners    \* what `careful` may be: a nonempty subset of BOOLEAN

Origins == {"current", "chosen", "existing"}
Trees == [origin : Origins, moved : BOOLEAN]

ASSUME NamesAssumption ==
    /\ Popups \cap Hooks = {}
    /\ {Free, Orphan} \cap (Popups \cup Hooks) = {}
    /\ Free # Orphan /\ NoTree \notin Trees
    /\ Manners \in SUBSET BOOLEAN

Processes == Popups \cup Hooks

VARIABLES
    careful,  \* the users await an unprotected creation before the next one, remove
              \* no worktree or branch while anything of its name is under way, and
              \* do not push between a popup's last look and what it does then
    phase,    \* the record: "none", "pending", "complete" or "corrupt"
    lock,     \* who has the record's lock file
    pc,       \* where each process is
    op,       \* the transition of the record that it performs
    choice,   \* choice[p]: the kind of base the user of popup p confirmed
    existing, \* existing[p]: p has found that the branch exists
    request,  \* request[p]: what herdr's server made of p's WorktreeCreate
    branch,   \* the local branch exists
    upstream, \* its upstream: "none", the "base", or one that a user has set
    tree,     \* its worktree: how it was made, and whether a hook moved it
    exposed   \* ghost: its record was removed by a popup that had looked before
              \* the worktree was made

record == <<phase, lock>>
user == <<choice, existing>>
repo == <<branch, upstream, tree, exposed>>
vars == <<careful, record, pc, op, user, request, repo>>

Kinds == {"current", "chosen"}
Upstreams == {"none", "base", "own"}

Protected(p) == op[p] # "allow"
Ended == {"done", "dead"}
Resting(p) == pc[p] \in {"idle"} \cup Ended

Init ==
    /\ careful \in Manners
    /\ phase \in {"none", "pending", "complete", "corrupt"}
    /\ lock = Free
    /\ pc = [x \in Processes |-> "idle"]
    /\ op = [x \in Processes |-> "allow"]
    /\ choice = [p \in Popups |-> "current"]
    /\ existing = [p \in Popups |-> FALSE]
    /\ request = [p \in Popups |-> "none"]
    /\ branch \in BOOLEAN
    /\ upstream \in IF branch THEN Upstreams ELSE {"none"}
    /\ tree = NoTree /\ exposed = FALSE

GoTo(x, step) == pc' = [pc EXCEPT ![x] = step]

-------------------------------------------------------------------------------
(* withPopupLock and the three transitions it serialises.                      *)

(* A bug: the lock file is opened without O_EXCL.                              *)
EnterUnlocked(x) ==
    /\ pc[x] = "enter"
    /\ lock # Orphan
    /\ lock' = x
    /\ GoTo(x, "inside")
    /\ UNCHANGED <<careful, phase, op, user, request, repo>>

EnterLock(x) ==
    /\ pc[x] = "enter"
    /\ lock = Free
    /\ lock' = x
    /\ GoTo(x, "inside")
    /\ UNCHANGED <<careful, phase, op, user, request, repo>>

(* A new branch on a base of its own, whose upstream git has set.              *)
Tidies(x) ==
    /\ x \in Popups /\ op[x] = "complete" /\ request[x] = "created"
    /\ choice[x] # "current" /\ ~existing[x]

(* That a creation could not be marked as complete is but a warning.           *)
AfterFailure(x) == IF Tidies(x) THEN "inspect" ELSE "done"

(* Two seconds pass without the lock: an error.                                *)
EnterFails(x) ==
    /\ pc[x] = "enter"
    /\ lock # Free
    /\ GoTo(x, AfterFailure(x))
    /\ UNCHANGED <<careful, record, op, user, request, repo>>

(* The phases from which a transition writes, and those it leaves alone.       *)
Writes(o, ph) ==
    \/ o = "suppress" /\ ph \in {"none", "complete"}
    \/ o = "complete" /\ ph = "pending"
    \/ o = "allow" /\ ph = "complete"
Leaves(o, ph) ==
    \/ o = "complete" /\ ph \in {"none", "complete"}
    \/ o = "allow" /\ ph = "none"

(* popupPhase is read under the lock; a phase the transition has no use for is *)
(* an error.                                                                   *)
ReadPhase(x) ==
    /\ pc[x] = "inside"
    /\ GoTo(x, IF Writes(op[x], phase) THEN "commit"
               ELSE IF Leaves(op[x], phase) THEN "leave" ELSE "fail")
    /\ UNCHANGED <<careful, record, op, user, request, repo>>

Written == [suppress |-> "pending", complete |-> "complete", allow |-> "none"]

(* A popup that found no branch removes the record of a worktree that herdr has*)
(* made since, for a creation that was given up.                               *)
Overtaken(x) == op[x] = "allow" /\ ~existing[x] /\ tree # NoTree

(* The file is replaced or removed; that may fail too, and leaves it as it was. *)
CommitPhase(x) ==
    /\ pc[x] = "commit"
    /\ \/ phase' = Written[op[x]] /\ GoTo(x, "leave")
          /\ exposed' = (exposed \/ Overtaken(x))
       \/ phase' = phase /\ GoTo(x, "fail") /\ UNCHANGED exposed
    /\ UNCHANGED <<careful, lock, op, user, request, branch, upstream, tree>>

(* A popup that may create now calls herdr; one that has created looks at the  *)
(* upstream, whether or not the record could be marked.                        *)
AfterSection(x) ==
    IF pc[x] = "leave" /\ op[x] \in {"suppress", "allow"} THEN "call"
    ELSE AfterFailure(x)

LeaveLock(x) ==
    /\ pc[x] \in {"leave", "fail"}
    /\ lock' = Free
    /\ GoTo(x, AfterSection(x))
    /\ UNCHANGED <<careful, phase, op, user, request, repo>>

-------------------------------------------------------------------------------
(* createController.create.                                                    *)

(* No other popup is at work, nor herdr on what an unprotected one has asked.  *)
(* A protected creation may still be under way: the record is there for that.  *)
NothingElseOpen(p) == \A q \in Popups \ {p} :
    Resting(q) /\ (request[q] = "sent" => Protected(q))

(* A bug: only the kind of the base decides, not whether the branch exists.    *)
ConfirmByKind(p) ==
    /\ pc[p] = "idle"
    /\ careful => NothingElseOpen(p)
    /\ \E kind \in Kinds :
         /\ choice' = [choice EXCEPT ![p] = kind]
         /\ op' = [op EXCEPT ![p] = IF kind # "current" THEN "suppress" ELSE "allow"]
    /\ existing' = [existing EXCEPT ![p] = branch]
    /\ GoTo(p, "enter")
    /\ UNCHANGED <<careful, record, request, repo>>

(* Enter on a name: LocalBranchExists is asked once, and with the kind of the  *)
(* base it decides whether the creation has to be protected.                   *)
Confirm(p) ==
    /\ pc[p] = "idle"
    /\ careful => NothingElseOpen(p)
    /\ \E kind \in Kinds :
         /\ choice' = [choice EXCEPT ![p] = kind]
         /\ op' = [op EXCEPT ![p] = IF branch \/ kind # "current"
                                    THEN "suppress" ELSE "allow"]
    /\ existing' = [existing EXCEPT ![p] = branch]
    /\ GoTo(p, "enter")
    /\ UNCHANGED <<careful, record, request, repo>>

CallCreate(p) ==
    /\ pc[p] = "call"
    /\ request' = [request EXCEPT ![p] = "sent"]
    /\ GoTo(p, "waiting")
    /\ UNCHANGED <<careful, record, op, user, repo>>

(* A bug: whatever the error, the protection counts as no longer needed.       *)
GiveUpCompleting(p) ==
    /\ pc[p] = "waiting"
    /\ IF Protected(p)
         THEN op' = [op EXCEPT ![p] = "complete"] /\ GoTo(p, "enter")
         ELSE GoTo(p, "done") /\ UNCHANGED op
    /\ UNCHANGED <<careful, record, user, request, repo>>

(* The CLI ends with any error but an early rejection: after a minute without  *)
(* an answer, or with a failure that may have left the creation half done.     *)
GiveUp(p) ==
    /\ pc[p] = "waiting"
    /\ GoTo(p, "done")
    /\ UNCHANGED <<careful, record, op, user, request, repo>>

(* Created, or rejected before anything was created: a protected creation is   *)
(* now known to be over.                                                       *)
SeeAnswer(p) ==
    /\ pc[p] = "waiting"
    /\ request[p] \in {"created", "rejected"}
    /\ IF Protected(p)
         THEN op' = [op EXCEPT ![p] = "complete"] /\ GoTo(p, "enter")
         ELSE GoTo(p, "done") /\ UNCHANGED op
    /\ UNCHANGED <<careful, record, user, request, repo>>

(* The end of create for a new branch: what herdr made is looked at, then the  *)
(* upstream of the branch, and if that is the base it is removed.  Each of the *)
(* three commands may fail.                                                    *)
InspectTree(p) ==
    /\ pc[p] = "inspect"
    /\ \/ tree # NoTree /\ GoTo(p, "compare")
       \/ GoTo(p, "done")
    /\ UNCHANGED <<careful, record, op, user, request, repo>>

(* A bug: whatever upstream there is goes.                                     *)
CompareNothing(p) ==
    /\ pc[p] = "compare"
    /\ \/ upstream # "none" /\ GoTo(p, "unset")
       \/ GoTo(p, "done")
    /\ UNCHANGED <<careful, record, op, user, request, repo>>

CompareUpstream(p) ==
    /\ pc[p] = "compare"
    /\ \/ upstream = "base" /\ GoTo(p, "unset")
       \/ GoTo(p, "done")
    /\ UNCHANGED <<careful, record, op, user, request, repo>>

UnsetUpstream(p) ==
    /\ pc[p] = "unset"
    /\ upstream' \in {upstream} \cup {u \in {"none"} : tree # NoTree}
    /\ GoTo(p, "done")
    /\ UNCHANGED <<careful, record, op, user, request, branch, tree, exposed>>

-------------------------------------------------------------------------------
(* herdr's server, as far as the plugin relies on it.                          *)

Reject(p) ==
    /\ request[p] = "sent"
    /\ request' = [request EXCEPT ![p] = "rejected"]
    /\ UNCHANGED <<careful, record, pc, op, user, repo>>

(* git makes the base of a new branch its upstream, if the base is a branch of *)
(* a remote.                                                                   *)
MakeBranch(p) ==
    /\ branch' = TRUE
    /\ upstream' \in IF branch THEN {upstream}
                     ELSE IF choice[p] = "current" THEN {"none"} ELSE {"none", "base"}

(* The worktree is made, from an existing branch or with a new one, and the    *)
(* event is on its way; the popup may have given up long ago.                  *)
Create(p) ==
    /\ request[p] = "sent"
    /\ tree = NoTree
    /\ tree' = [origin |-> IF branch THEN "existing" ELSE choice[p], moved |-> FALSE]
    /\ exposed' = FALSE
    /\ MakeBranch(p)
    /\ request' = [request EXCEPT ![p] = "created"]
    /\ \E h \in Hooks : pc[h] = "idle" /\ GoTo(h, "queued")
    /\ UNCHANGED <<careful, record, op, user>>

(* Any other failure; the branch may have been made already.                   *)
FailCreate(p) ==
    /\ request[p] = "sent"
    /\ request' = [request EXCEPT ![p] = "failed"]
    /\ MakeBranch(p) \/ UNCHANGED <<branch, upstream>>
    /\ UNCHANGED <<careful, record, pc, op, user, tree, exposed>>

(* The event of the present worktree, or of an earlier one, comes once more.   *)
Redeliver(h) ==
    /\ pc[h] = "idle"
    /\ \E p \in Popups : request[p] = "created"
    /\ GoTo(h, "queued")
    /\ UNCHANGED <<careful, record, op, user, request, repo>>

-------------------------------------------------------------------------------
(* The hook: freshen.WorktreeCreated.                                          *)

(* The record is read without the lock.  A protected creation has been seen to *)
(* happen; what cannot be read is left alone.                                  *)
CheckProtected(h) ==
    /\ pc[h] = "queued"
    /\ GoTo(h, IF tree = NoTree \/ phase = "corrupt" THEN "done"
               ELSE IF phase = "none" THEN "freshen" ELSE "enter")
    /\ op' = [op EXCEPT ![h] = IF phase = "none" THEN @ ELSE "complete"]
    /\ UNCHANGED <<careful, record, user, request, repo>>

(* IsClean, BaseUpstream and Fetch let it, and the branch can be moved ahead.  *)
FastForward(h) ==
    /\ pc[h] = "freshen"
    /\ tree # NoTree
    /\ tree' = [tree EXCEPT !.moved = TRUE]
    /\ GoTo(h, "done")
    /\ UNCHANGED <<careful, record, op, user, request, branch, upstream, exposed>>

(* ... or one of them does not.                                                *)
SkipFreshen(h) ==
    /\ pc[h] \in {"queued", "freshen"}
    /\ GoTo(h, "done")
    /\ UNCHANGED <<careful, record, op, user, request, repo>>

-------------------------------------------------------------------------------
(* The users and the machine.                                                  *)

Settled ==
    /\ \A x \in Processes : Resting(x)
    /\ \A p \in Popups : request[p] # "sent"

RemoveTree ==
    /\ tree # NoTree
    /\ careful => Settled
    /\ tree' = NoTree /\ exposed' = FALSE
    /\ UNCHANGED <<careful, record, pc, op, user, request, branch, upstream>>

DeleteBranch ==
    /\ branch /\ tree = NoTree
    /\ careful => Settled
    /\ branch' = FALSE /\ upstream' = "none"
    /\ UNCHANGED <<careful, record, pc, op, user, request, tree, exposed>>

(* The first push of the branch sets an upstream of its own.                   *)
Push ==
    /\ tree # NoTree /\ upstream # "own"
    /\ careful => \A p \in Popups : pc[p] # "unset"
    /\ upstream' = "own"
    /\ UNCHANGED <<careful, record, pc, op, user, request, branch, tree, exposed>>

(* The process is killed; a lock file it had made stays.                       *)
Crash(x) ==
    /\ ~Resting(x)
    /\ GoTo(x, "dead")
    /\ lock' = IF lock = x THEN Orphan ELSE lock
    /\ UNCHANGED <<careful, phase, op, user, request, repo>>

-------------------------------------------------------------------------------
Section(x) == \/ EnterLock(x) \/ EnterFails(x) \/ ReadPhase(x) \/ CommitPhase(x)
              \/ LeaveLock(x)
Popup(p) == \/ Confirm(p) \/ CallCreate(p) \/ GiveUp(p) \/ SeeAnswer(p)
            \/ InspectTree(p) \/ CompareUpstream(p) \/ UnsetUpstream(p)
Server(p) == Reject(p) \/ Create(p) \/ FailCreate(p)
Hook(h) == CheckProtected(h) \/ FastForward(h) \/ SkipFreshen(h)

Next ==
    \/ \E x \in Processes : Section(x) \/ Crash(x)
    \/ \E p \in Popups : Popup(p) \/ Server(p)
    \/ \E h \in Hooks : Redeliver(h) \/ Hook(h)
    \/ RemoveTree \/ DeleteBranch \/ Push

Spec == Init /\ [][Next]_vars

-------------------------------------------------------------------------------
Steps == {"idle", "enter", "inside", "commit", "leave", "fail", "call", "waiting",
          "queued", "freshen", "inspect", "compare", "unset", "done", "dead"}
InSection(x) == pc[x] \in {"inside", "commit", "leave", "fail"}

(* Every variable has its type, and the lock file is there exactly while its   *)
(* holder is between withPopupLock's open and its deferred remove.             *)
TypeOK ==
    /\ careful \in Manners
    /\ phase \in {"none", "pending", "complete", "corrupt"}
    /\ lock \in Processes \cup {Free, Orphan}
    /\ pc \in [Processes -> Steps]
    /\ op \in [Processes -> {"suppress", "complete", "allow"}]
    /\ choice \in [Popups -> Kinds] /\ existing \in [Popups -> BOOLEAN]
    /\ request \in [Popups -> {"none", "sent", "created", "rejected", "failed"}]
    /\ branch \in BOOLEAN /\ upstream \in Upstreams
    /\ tree \in Trees \cup {NoTree} /\ exposed \in BOOLEAN
    /\ \A x \in Processes : InSection(x) <=> lock = x

(* The record of a creation that may still be running is never taken away: a   *)
(* pending record becomes a complete one and nothing else (popup.go:87-89).    *)
PendingNeverErased ==
    [][phase = "pending" => phase' \in {"pending", "complete"}]_vars

(* While herdr may still make the worktree of a protected creation, the record *)
(* is there, although the popup may have timed out or died (suppression.go).   *)
ProtectedWhileRunning ==
    careful => \A p \in Popups :
      request[p] = "sent" /\ Protected(p) => phase \in {"pending", "complete"}

(* With careful users, and whenever herdr does what it was asked, no hook moves*)
(* a worktree that was made on a chosen base or from an existing branch,       *)
(* however often it runs, with one exception: a popup that had found no branch,*)
(* while herdr was still to make this worktree for one that had given up, went *)
(* on to allow freshening after it was made, and so removed its record.        *)
SelectedBaseKept ==
    careful /\ tree # NoTree /\ tree.moved => tree.origin = "current" \/ exposed

(* With careful users the only upstream that a popup takes away is the base    *)
(* that git has given to the branch that this creation made, never that of an  *)
(* existing branch, nor one that was set since (docs/REFERENCE.md:283-287).    *)
UpstreamKept ==
    [][careful /\ upstream # "none" /\ upstream' = "none" /\ branch' =>
         upstream = "base" /\ tree # NoTree /\ tree.origin = "chosen"]_vars

(* docs/REFERENCE.md says it of every creation: "The automatic freshening hook *)
(* does not move an explicitly selected base other than the current branch".   *)
(* It does, when a popup decides on the name while herdr makes the worktree of *)
(* another one.                                                                *)
SelectedBaseNeverMoved == tree # NoTree /\ tree.moved => tree.origin # "chosen"
===============================================================================
