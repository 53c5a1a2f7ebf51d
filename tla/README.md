# TLA+ models of herdr-git-upstream

herdr-git-upstream is a plugin for herdr, a terminal workspace manager. It shows in herdr's sidebar how
each workspace's branch relates to its upstream, creates worktrees from a popup, brings new worktrees
up to date, and helps to clean finished ones up. This directory holds TLA+ modules that model its
concurrent parts, TLC configurations that check them on small instances, and proofs, checked by
TLAPS, of their most important properties for every value of the constants.

File names in this text are relative to the repository; `state.go` and the like are under `internal/`.

## 1. The system

Several operating system processes work on the same files and on the same herdr server: one daemon per
herdr server, short-lived hooks that herdr starts at its events, and the two screens. Nothing but
files (with `O_EXCL`, `rename` and `WriteAt`) coordinates them.

| Component | State | Operations | Talks to |
| --- | --- | --- | --- |
| Daemon lock (`state/state.go`, `daemon/daemon.go`) | `daemon.lock` (pid, heartbeat), `daemon.stop` | `AcquireDaemonLock`, `createLock`, `Heartbeat`, `ReleaseDaemonLock`, `DaemonAlive`, `StopRequested`, `ClearStop`; `Run` and `keepLockFresh` | every process that may start or stop a daemon |
| Wake hints and main loop (`daemon/daemon.go`) | `wake.json`, `wake.force`, `wake.json.taken`; `lastSweep` | `Wake`, `takeWake`, the loop of `Run` | focus hooks and "refresh now" on one side, sweeps on the other |
| Fetch records (`state/state.go`, `daemon/sync.go`) | one JSON record per fetched ref | `Due`, `MarkSuccess`, `MarkFailure`, `Stale`; `fetchAll`, `fetchOne` | shared without a lock by the daemons of all herdr servers |
| Sweeps and local watcher (`daemon/sync.go`, `daemon/local_refresh.go`) | `Syncer.watched`, `localMu`, the configuration | `Sweep`, `reportAll`, `clearAll`, `forgetMissingTargets`, `PollLocal`, the reload | git's files, herdr's tokens |
| Popup protection (`state/popup.go`, `freshen/`, `worktreeui/create_controller.go`) | one record per repository and branch name, with a lock file; the branch's upstream | `SuppressFreshening`, `CompleteFreshening`, `AllowFreshening`, `FresheningSuppressed`; `create` up to the unset of the upstream | `create` in the popup, the `worktree.created` hook |
| Creation screen (`worktreeui/create*.go`) | `CreateModel`, the set of started fetches | the loop: keys, fetches, lookup, creation | git, herdr, popup protection |
| Cleanup screen (`worktreeui/run.go`, `model.go`, `collect.go`) | `Model`, heads, flags of the loop | the loop: keys, gather, fetch, removal | git, herdr, the verdicts |
| Verdicts and judgements (`judge/`, `gitrepo/`) | two caches in the state directory | `Assess`; `Gone`, `JudgeMerged`, `JudgeCatchup`, `IntegrationBranches`, `LookupDefaultBranch`; refspecs and names of refs | git, shared by daemons and screens |
| Terminal layer (`tui/`) | raw mode and the other screen, the decoder's pending bytes | `Open`, `Close`, `Run`, `Go`, `watchSignals`; `ReadKeys`, `ParseKeys` | both screens, the terminal, signals |
| Configuration, herdr client, running git, setup, detachment | none of their own | | the operating system |

What is hard about them, and what makes each one correct:

* **Daemon lock.** A lock is taken over when its heartbeat is old; heartbeats start late, fail, or write
  after the lock has changed hands; a new lock is visible before it has its content; a process may die
  anywhere. A working daemon must not lose its lock, a displaced one must stop soon, a late write must
  not turn another's lock back, and in the end one daemon is left.
* **Wake hints.** Hooks write at any moment of `takeWake`. No forced request may be lost or narrowed to
  one workspace; a focus may be lost to a newer focus only.
* **Fetch records.** Daemons read, fetch for minutes, and write back. The label `stale` must be earned,
  and unforced fetches must keep their distance, also after crashes and failing saves.
* **Sweeps and watcher.** Both report tokens; HEAD and refs change under their eyes, workspaces move,
  herdr refuses a report, the configuration changes. No change may be missed for good, no older tokens
  may replace newer ones, and a place that was left, or a disabled plugin, must stay silent.
* **Popup protection.** herdr creates after the popup's time limit; events come late or twice; a second
  popup deals with the same name. A chosen base must not be fast-forwarded away by the hook.
* **Creation screen.** Results come in any order while the user types; the lookup replaces the list under
  the selection and the highlight. What is created must be what was shown, on a fetched base.
* **Cleanup screen.** Rows are judged, shown, chosen and removed at four different times. What is removed
  must be what was chosen and must be finished at that time too.
* **Judgements.** "Merged" is read from which refs contain HEAD, but a push, a second destination of a
  refspec or a pull request's ref contains it too. The two caches are written by others and outlive
  the commits they speak of. Each of a round's many git commands sees another moment, and may fail.
* **Terminal.** The bytes of one key come in pieces, an Esc alone looks like the beginning of an arrow, and
  `Close` may be called by the main goroutine, by a panicking one and by the signal watcher at once. A key
  must not become another, and the terminal must be given back.

## 2. Modules

Each specification module has its `Init`, one action per operation, handler or step, `Next`, `Spec`,
and `FairSpec` where liveness is checked. `MC...` modules give the constants and the symmetry for TLC.
Definitions that a comment calls *a bug* are not part of any specification: each is a plausible mistake
in the action that follows it, kept to show that a property notices it. `PROJECT.json` maps every
definition to the lines that it models.

### DaemonLock

`daemon.lock` is one file with three attributes: the pid in it, the age of its heartbeat, and which
processes hold *this* file (not the name) open for a write; removing or creating the name cuts those
handles off, which is what makes `WriteAt` on the opened file safe. Each process has a main goroutine
(`main`: acquire, loop, release) and `keepLockFresh` (`beat`). `AcquireDaemonLock` is five steps
(`TryCreate`, `InspectLock`, `RemoveStale`, `RetryCreate`, `FillLock`), `Heartbeat` is open and read in
one step, the write in another, and its re-creation in two. `ReleaseDaemonLock` is a read and a removal
(`ReleaseRead`, `ReleaseUnlink`), and the process ends in a step of its own (`Exit`): after a signal nobody waits for
`keepLockFresh`, which may create the lock again in between. Time passes in ticks; `Tick` waits for a
heartbeat that is `MaxLate` late, and `MissBeat` lets at most `MaxMissed` heartbeats in a row come to
nothing: these two bounds are the model's form of "the heartbeat goroutine is scheduled now and then".
Without such bounds no lock with a timeout would be safe. A process acquires once; a restart
is another process. `FaultyReads` lets a read of the lock fail.

### WakeLoop and RefreshPromise

`RefreshPromise` is the abstract specification. It knows which daemons are alive: a daemon that takes a forced request
owes its pass (`forcing`) and begins no other one before it; the newest focus is in the hands of living
daemons (`keepers`), of one or of several, until a pass that covers it begins. Only `Die` sets a daemon free of what it owes: no other step drops a
request or narrows it, and what nobody has taken outlives every death. `WakeLoop` is the code: two files, hooks that write them at any time, and the four steps of
`takeWake` in every daemon. Daemons overlap while a lock is taken over (`OverlapBounded` says for how long), and then
they share `wake.json.taken` too: one may read or remove the note that the other has renamed. The refinement
mapping counts a request as asked while its file is there, as owed by the daemon whose `takeWake` holds it, and
a daemon as dead when its loop has ended (`Exit`). The history
variable `owed` is the newest focus that was taken and not yet covered; `FocusHeld` says in whose hands it is. When a periodic pass is due is left open: the promise does not
depend on it.

### FetchRecords

One record, shared by the daemons of several `Servers`. `Load` is `fetchAll`'s decision, `BeginFetch` the save of the attempt in
`fetchOne` *after* the wait for a slot, `RecordSuccess` and `RecordFailure` the save of the result; every
save may fail, and a daemon may be killed at any point. `base` remembers what a daemon believes to be in
the file, so that the ghost `lost` can say that a save has undone another daemon's. `LastSuccessUnix`,
which nothing reads, is left out.

### TokenReports

What tokens say is abstracted to the versions of what they were computed from: the refs that all
checkouts share and the checkout's own HEAD. A report is read (`ReadTokens`), then sent (`SendTokens`)
or refused (`SendFails`), one workspace after the other under `localMu`; a sweep resolves its targets,
forgets those that left, fetches without the lock, then reports. Commits, moves, closings and the
expiry of tokens (`Expire`, herdr's time to live) happen at any moment. `clearAll` is one step.
`ChangesAppear` is checked with reports that fail again and again, though not for ever.

### PopupProtection

One name in one repository. `withPopupLock` is split into entering, reading the phase, committing and
leaving, so that two transitions can meet; herdr's server executes a request at a moment of its own,
even after its client gave up; hooks are processes of their own that look at the record and then
fast-forward. After herdr's answer `create` looks at the worktree (`InspectTree`), compares the upstream
(`CompareUpstream`) and takes it away (`UnsetUpstream`), while people push, remove and delete. `existing[p]` is what
popup `p` found when it looked for the branch. The variable `careful` is an assumption on users, and on them only: they
have one popup at a time deal with a name, and wait for what an unprotected one has asked of herdr; they
remove no worktree or branch while anything of its name is under way, a request that was given up but may still be
executed included; and nobody pushes between a popup's last look at the upstream and its removal. herdr's server is free to execute a
request at any time after it was sent. Properties that need `careful` name it; the run `popup_race` shows why it is needed. It
leaves one case in which a chosen base is moved, which `SelectedBaseKept` excepts by the ghost `exposed`: a protected creation is given up, a second popup asks for
the same name on the current branch and finds no branch, the server then makes the first one's worktree and its hook completes the
record, the second popup, going on by its old answer, removes that record, and the event comes once more. That is the race of `popup_race` again, with careful users.

### Verdicts and CleanupScreen

`Verdicts` is `Assess` of `judge/verdict.go` on records of facts, each known or unknown. `CleanupScreen`
is the loop of `run.go`: gather, fetch and removal run beside it, each at most once at a time, and
answer through channels. A gather lists the worktrees in one step and judges them with its answer in
another, so that people may work in between and the answer may be old when it comes; the table is only what is offered, so
these two steps are enough for it. What guards a removal is the last look, a gather of its own for each target, and
that is modelled command by command: the list (`CheckList`), the agents (`CheckAgents`), the uncommitted files (`CheckFiles`), HEAD (`CheckHead`) and what is
judged of that commit (`CheckCommits`), then the removal (`RemoveTarget`), each of which may find against it (`PassOver`), with the world moving in
between all of them. The ghost `past` collects what the target has been since its look began, so that `CheckedAtTheEnd` says what a look of many commands can
say: each condition held at some moment of it, and the commit judged is the one shown. The ghosts `seen` and `approved` are the table as it was
when `D` was pressed and when the choice was made. `landed` is what an integration branch has of a branch, pushed or not. herdr may answer the list, the list and the agents, or nothing. `Flaky` names the worktrees in
which git may fail to answer. `assessing`, `gatherAgain`, `firstGather`, `quitAsked` are the flags of the
code. Left out: drawing and messages, the lookup of default branches, the limit on parallel git commands.
Catch-up results are unknown, as they only tell `review` from `keep`. A remote is assumed, since without one
there is no fetch. A worktree stands for its path, although the loop compares paths as they are written (`run.go:335`), and git's list
may write one otherwise than herdr's. What the loop held is forgotten when it returns.

### CreateScreen

The loop of `create_controller.go` with `UpdateCreate`. A candidate is told by its ref, the selection is a
place in the list as in the code, the menu has a place *and* a ref, as in the code. Each fetch ends at a
moment of its own, reads the names that are taken, and then waits in the channel: results arrive in
another order than that of their readings. The lookup brings a new list once. A query is the set of refs that match it; a name is
a stem and a number. How a creation protects its base is in `PopupProtection`; here it succeeds, or fails,
perhaps after its branch was made. A popup that is closed while it creates waits for the answer
(`CreateAwaited`). Left out: the view of a long message, the limit on parallel fetches.

### Refspecs and Judgement

`Refspecs` is the pure part of `gitrepo/git.go` and `judge.go`: a ref is the sequence of its path components,
so that remotes whose names begin alike and refspecs with a star in the middle behave as in the code; what may
be absent is a set with at most one member. `Judgement` is the daemon at work on one checkout: a sweep resolves the target (HEAD, branch, integration branches:
`ResolveToFetch`), fetches what that names, and forgets it (`EndFetch`: what `refreshIntegration` reads is not used either);
a report resolves the target anew (`ResolveToReport`), counts, looks the catchup answer up or computes it, and judges
ancestry and trees. Reports come at the end of a sweep or by themselves, from `PollLocal`. These are steps of their own: HEAD; branch with
upstream and remotes; the integration branches; each fetch; the two halves of the lookup; the counts; the commit of the
upstream with the cached answer; the computed one; the own refs with the refs that contain HEAD; each target's commit with its merge; and the target's tree. Commands that are named
together here are read in one step. Beside it people commit, switch, push, land,
delete branches and move the default branch, other processes fetch, screens ask for the default branch, and others
write the same two records. A commit is the set of commits in its past and a version of each area of the tree, which is enough to say
what a merge gives and whether it conflicts. Nobody merges crosswise (`Straight`), so that two commits have one best common
ancestor: what git makes of several is left out. The history variable `round.whole` says whether all reads of
the round succeeded; a failing read is taken for an absence by the code (see the observations below), and the
properties that need it name it. The settings of a repository are assumed to be such as git accepts (`ConfigAssumption`: a
refspec has a star on both sides or on none, and a branch follows a ref of a registered remote). `NothingOnlyHere` needs
one thing more of them, `ToldApart`: that the names of refs tell what is a branch from what is not. The run evaluates it on
its repositories; the observations say when it fails.

### KeyDecoding, TerminalModes and ScreenSession

`KeyDecoding` is `ParseKeys` with `flushPending`, on classes of bytes that the code tells apart.
`TerminalModes` is the terminal as `Open` changes it and `Close` gives it back, on Unix: three kinds of callers
of `Close` (main, a worker that panics, the watcher), `closeOnce`, the steps of `Close`, and
signals that strike while somebody listens or while nobody does. `ScreenSession` composes the two: the reader and the
keyer of `ReadKeys` are workers of that terminal, bytes come in pieces of any length, and a keyer, a timer, a
change of size and a signal meet. Four history variables mark what the code does not promise anything about: a flush
in the middle of a press (`late`: because the rest takes longer than `escapeTimeout`, or because the rest is there at the same time and `select` takes
the timer), a key pressed right after Esc (`hasty`), a signal while nobody listens
(`struck`), and what the terminal refused to take back (`refused`;
also what is left when the screen's sequences cannot be written to their end, since nobody looks at what the restoration then gives). The presses
of the run are those that share beginnings; the proofs also cover a letter, Enter, Home and the form `11~` of F1. A CR LF and wider
runes are decoded by `ParseKeys` and are not among the presses. From the first panic, the first signal or the end of the
loop on, no more keys are followed; the terminal is followed to the end.

## 3. Runs

| Run | Instance | Checks |
| --- | --- | --- |
| `daemon_lock` | 2 processes, a beat every tick, 1 late, 1 missed, `StaleAfter` 7, 163 000 states | `NeverJudgedDead`, `OverlapBounded`, `StoppedLeavesNoLock`, `LateWriteNeverSteals`, `Convergence` |
| `daemon_lock_race` | 2 processes that have both judged one old lock stale | `OnlyOneWins` is violated |
| `wake` | 2 daemons that end up to twice, 2 workspaces, 22 000 states | `FocusHeld`, `PromiseKept` (refinement), `ForcedPassComes`, `FocusPassComes` |
| `fetch_records` | 2 daemons, 5 ticks, thresholds of 2 | `StaleIsEarned`, `ThrottleKept` |
| `token_reports` | 1 workspace, 2 checkouts, 2 changes of refs, 1 of each HEAD, 2 moves | `NoMissedChange`, `NeverOlder`, `LeftPlaceSilent`, `DisabledSilent`, `ChangesAppear` |
| `popup` | 2 popups, 2 hooks, either manner of users, 1.4 million states | `ProtectedWhileRunning`, `SelectedBaseKept`, `PendingNeverErased`, `UpstreamKept` |
| `popup_race` | 2 popups, 1 hook, careless users | `SelectedBaseNeverMoved` is violated |
| `cleanup_screen` | 2 worktrees, 2 deeds, 620 000 states | `TypeOK`, `OnlyShownRemoved`, `TableCatchesUp`, `SelectionKept`, `CheckedAtTheEnd`, `QuitCloses` |
| `cleanup_blind` | 1 worktree | `UnknownAgentProtected` is violated |
| `create_screen` | 3 refs, 2 lists that the lookup may bring, 1 name typed or branch made elsewhere, 320 000 states | `BaseFetched`, `BaseAsConfirmed`, `HighlightHonest`, `SuggestionFollows`, `WaitEnds`, `PopupCloses` |
| `judgement` | 5 repositories with 1 or 2 remotes, 2 areas, up to 3 commits, 158 000 states | `NothingOnlyHere`, `IntegrationCheckoutSilent`, `CatchupTruth` |
| `screen_session` | 2 presses out of Esc, Up, Alt and a wide letter, 1 change of size, a channel of 1, one worker that panics, 72 000 states | `HeardAsPressed`, `RestoredAtEnd`, `PressesHeard`, `SignalEnds` |

A type invariant that is proved is not checked by a run as well, except that of `cleanup_screen`, which also keeps the
cursor on a row and a removal in step with its rows.

**Bounds, and why they are enough.** Two processes are the smallest number for a race on the lock, and the
safety properties of `DaemonLock` are proved for any number; a third process in `Convergence` would
only repeat what the second does. `StaleAfter` 7 is the smallest value that the timing assumption allows
for these lateness bounds. In `wake` two workspaces and "everything" give a note a predecessor and a successor, and two exits let
each daemon die while the other goes on; safety is proved for any number of each.
`MaxTime` 5 in `fetch_records` leaves room for a failure, a threshold and a success of another daemon
after it. In `token_reports` the refs change twice, so that a report can be overtaken twice, and the workspace moves
there and back or closes; that workspaces do not disturb each other is proved, not checked. A second hook delivery of the popups
makes an event that comes twice meet a second creation. `cleanup_screen` has one worktree that is
finished and open in herdr and one that is not, so that rows change places; `MaxDeeds` bounds both the changes made
by others and the keys `d`, `D` and `r`, which would otherwise repeat for ever. In `create_screen` the new
list inserts a row before another, or drops a row and changes the kind of one. The repositories of `judgement` are the cases the code tells apart: with
and without an alias for the default branch, a clone that brings pull requests, two remotes of which one's name
begins with the other's and whose branches have a second destination, an old git without `merge-tree --write-tree`, a default branch
that moves, screens that ask the same question, and commands that fail; three commits suffice for a
branch, the work it diverged from, and a landing of it, and are explored in the clone and with two remotes. `MaxPresses` 2 in `screen_session` makes the rest of one key meet the beginning
of another, and a channel of one blocks the keyer after the first. In runs that say `CHECK_DEADLOCK FALSE` the system really may
stop: the screen closes, the popups and hooks are used up, the changes are, or the clock reaches its bound. Symmetry is used only in
runs without liveness.

**Fairness.** `DaemonLock`: started goroutines are scheduled and time passes; nobody need start, stop or fail.
`WakeLoop`: for every daemon the ticker fires
and a pass ends (its commands have time limits); a note that is there can be
renamed now and then (strong fairness: a rename may fail, but not for ever). `TokenReports`: both goroutines go on, Go's mutexes starve nobody, a
report ends in one way or the other, and for each workspace that is reported again and again herdr takes a report now and
then (strong fairness; one refusal or many are allowed). `CleanupScreen`: the removal's commands have their time limits, and Go's `select` chooses
among the channels that are ready. `CreateScreen`: every fetch and the creation end (`Answers`), for the same
reasons. `ScreenSession`: started goroutines are scheduled and the loop comes back to its `select`; nothing is assumed of signals and panics. No key, no hook and no change by others
is ever assumed to happen.

### Disagreements between the repository's words and its code

1. `daemon_lock_race`: the comment at `state.go:299-301` says that of several processes that take a stale
   lock over only one wins. The removal before the second `O_EXCL` is by name: of two processes that have both judged the
   old lock stale (the run starts there) the first removes it, creates its own and works, and the second then removes that
   fresh lock. `OverlapBounded` and `Convergence` say how this ends well.
2. `popup_race`: `docs/REFERENCE.md` says that the hook never moves a selected base other than the current
   branch. A popup that asked whether the name exists before another popup's creation was finished
   removes that one's record. The run has careless users; `exposed` marks the case that careful ones can meet (`SelectedBaseKept`).
3. `cleanup_blind`: `docs/REFERENCE.md:207-208` says that an open worktree whose agent cannot be queried is
   protected. When herdr is out of reach git lists the worktrees, they pass for closed, and git removes one.

### Observations

Met while modelling; no run is about them. Where a property would break on one, a named history variable
excludes it:

* *Fetch records.* `fetchOne` saves the record that `fetchAll` loaded minutes before, so a daemon may write an old
  failure over another's success, and the label `stale` is then early (`state.go:110`). The ghost `lost` marks this.
* *Default branch.* An alias or a recorded default is never asked for again (`judge.go:277-286`, `314-332`), so a
  default branch that has moved is noticed only when the alias is renewed; `IntegrationCheckoutSilent` speaks of a
  default that has not moved. A lookup that fails late saves the record it loaded earlier, over a default that
  another process has found meanwhile (`judge.go:342-355`). And where the lookup cannot read the refspecs it records the ref that is
  usual (`TrackingRefFor`, `git.go:283-287`, at `judge.go:349`), and keeps it. `Save` assumes that this read succeeds: the two differ only
  for a remote with refspecs of its own kind.
* *Upstreams of another name.* A branch that follows one of another name has that upstream in `Containing` unless `TrackingCopies` leaves it out.
  `NothingOnlyHere` counts what such an upstream holds as being elsewhere, so it does not say that the code leaves it out.
* *Late reports.* A report whose client ran out of time counts as refused. That herdr applies it later, over a newer one, is not modelled.
* *Labels.* `StaleIsEarned` says that the record behind the label `stale` is right. The comparison itself, with a
  first failure, a threshold of 0 and the exact boundary, is a line that unit tests reach.
* *Pull request refs.* A branch may follow a ref that is no branch and that no refspec brings: `gh pr checkout` sets
  `branch.<name>.merge` to `refs/pull/N/head`. By convention it gets a tracking ref, to which the daemon fetches it
  (`git.go:214-222`), and `ContainingRemoteRefs` leaves only those refs out that a refspec brings from outside `refs/heads`
  (`inspect.go:259-300`). A second branch with the same head is then called merged because of the pull request alone, which
  `docs/REFERENCE.md:367-370` means to exclude. The second part of `ToldApart` leaves this out; its first part, that no tracking
  ref is written from a branch and from something else, git enforces when it fetches.
* *Failing reads.* A failing read of the branch, the upstream, the remotes or the refspecs is taken for "detached" or
  "none"; `round.whole` is false then. HEAD and branch are two commands, and a switch may come between them. The reads of refspecs
  inside `SelfRefs` are assumed to succeed.
* *Creation popup.* Results that come while a creation is under way do not renew the suggestion; when that
  creation then fails, the suggestion is outdated until the next result (the ghost `missed`). When the lookup turns the
  current branch into an ordinary local candidate it keeps its status, say "2 behind", and Enter waits for a fetch
  that nobody has started; `WaitEnds` therefore speaks of branches of a remote only.
* *Upstreams.* A branch that somebody else makes between `LocalBranchExists` and `WorktreeCreate` loses its
  upstream if that is the base. A creation that failed after it had made its branch, or that ran out of time, keeps
  the upstream that git gave it.
* *Keys.* A CR LF that is split over two reads gives two Enters (`key.go:71`). Esc pressed right before another key is read as
  Alt and lost, as `key.go:42-44` says.
* *Terminal.* A signal between `signal.Stop` and the restoration, or between `enterRaw` and `watchSignals`,
  ends the process with the terminal raw (`struck`).

## 4. Proofs

TLAPS proves these theorems, for any number of processes, hooks, workspaces, worktrees, candidates and goroutines and any thresholds
that the named assumptions of the modules allow.

| Module | Theorem | States |
| --- | --- | --- |
| `DaemonLockProofs` | `TypeCorrect`, `LiveDaemonNeverJudgedDead`, `DisplacedDaemonStops`, `StoppedDaemonLeavesNoLock`, `OwnerNeverOverwritten` | `TypeOK`, `NeverJudgedDead`, `OverlapBounded`, `StoppedLeavesNoLock`, `LateWriteNeverSteals` |
| `DaemonProofs` | `TypeCorrect`, `NewestFocusHeld`, `KeepsPromise` | of `WakeLoop`: `TypeOK`, `FocusHeld`, and that it implements `RefreshPromise` |
| | `RecordsTypeCorrect`, `StaleNeverEarly`, `UnforcedFetchesThrottled` | of `FetchRecords`: `RecordsTypeOK`, `StaleIsEarned`, `ThrottleKept` |
| `PopupProtectionProofs` | `TypeCorrect`, `PendingStays`, `CreationStaysProtected`, `ChosenBaseStays`, `UpstreamStays` | `TypeOK`, `PendingNeverErased`, `ProtectedWhileRunning`, `SelectedBaseKept`, `UpstreamKept` |
| `TokenReportsProofs` | `TypeCorrect`, `NoChangeMissed`, `NothingOlderShown`, `LeftPlaceStaysSilent`, `DisabledStaysSilent` | `TypeOK`, `NoMissedChange`, `NeverOlder`, `LeftPlaceSilent`, `DisabledSilent` |
| `CleanupScreenProofs` | `TypeCorrect`, `OnlyWhatWasShown`, `RemovedOnlyWhenSafe`, `NothingStaleForGood`, `SelectionStays`, `UnknownSpeaksForNothing`, `SafeHasNothingToLose` | `TypeOK`, `OnlyShownRemoved`, `CheckedAtTheEnd`, `TableCatchesUp`, `SelectionKept`, and two facts about `Assess` |
| `CreateScreenProofs` | `TypeCorrect`, `BaseIsFetched`, `BaseStaysConfirmed`, `HighlightStaysHonest`, `SuggestionStaysFree` | `TypeOK`, `BaseFetched`, `BaseAsConfirmed`, `HighlightHonest`, `SuggestionFollows` |
| `JudgementProofs` | `JudgementTypes`, `CatchupIsTrue`, `IntegrationIsSilent`, `MergedIsElsewhere` | `TypeOK`, `CatchupTruth`, `IntegrationCheckoutSilent`, and, for settings that are `ToldApart`, `NothingOnlyHere` |
| `ScreenSessionProofs` | `TypeCorrect`, `TerminalGivenBack` | of `TerminalModes`: `TypeOK`, `RestoredAtEnd` |
| | `SessionUsesTerminal`, `SessionGivesBack` | `ScreenSession` implements `TerminalModes`; `RestoredAtEnd` of a session |
| | `ParsePresses`, `PressesHeardInOrder` | what `ParseKeys` makes of the bytes of presses, however they are cut; `HeardAsPressed` |

The arguments:

* **Lock.** `FileInv` says whose file it is: a process that holds the named file open either made it, and it
  is empty, or found its own pid in it; and a daemon's pid is in the file only if that daemon put it there.
  `LateWriteNeverSteals` follows. `TimeInv` bounds the age of a working owner's heartbeat, and the time of a displaced daemon, by its
  *slack*: the ticks since the last beat began, one period per missed beat and one for the beat under way.
  The assumption `(MaxMissed + 2) * Period < StaleAfter` keeps the slack below `StaleAfter`. The invariants that are
  checked are not inductive, since they do not say how much time is left.
* **Popup.** `PendingNeverErased` needs that the phase a process has read is still the one it writes over:
  `DecisionStands`, which holds because `TypeOK` gives the lock file one holder. The other three rest on
  `CareInv`: with careful users one popup at a time deals with the name; a record is complete only when the branch exists; while a popup that found no
  branch waits for its worktree, the branch comes only with another's worktree, or with a creation left half done whose pending record stops the popup;
  and the worktree stays while somebody deals with it, as does its record unless it was `exposed`. None of these is
  among the checked properties, and each needs the others.
* **Tokens.** The invariant is `Holding` (the types, and that a sweep and the watcher work on the entries and places they
  believe in), `Known` (nothing is newer than what it was computed from), `Newest` (tokens about to be sent
  are at least as new as their entry's stamps and as what is shown) and `UpToDate` (what is shown is at least as new as the stamps, unless
  the entry is to be tried again or is being reported). `NoMissedChange` and `NeverOlder` follow from the last two.
* **Fetch records.** `Believes` ties what a daemon works on to what it believes to be in the file, `Tells` ties
  the file to the latest attempt and success until a save is lost.
* **Wake.** One case per action: each maps to a step of the promise or to a stutter. Besides the types this needs `FocusHeld`, which is inductive with
  them and says who keeps the newest focus, and `Unnarrowed`: a `takeWake` that found the force file returns the scope of everything, whatever
  note it reads.
* **Cleanup screen.** `ShownInv` adds to `OnlyShownRemoved` that a question lists safe rows only, and lists them as they were in the table over which it
  was asked (`seen`), whatever results have come since. `LookInv` says what each command of the last look leaves in `past`: a moment, since the look began, at
  which it was so. Later moments only add to it. `SafeCommit` is the step from a verdict to the commits: whichever questions to git failed,
  `Assess` calls a worktree safe only on known facts, so what it judged is in the remote or in an integration branch.
  `FreshInv` says that while the table is not of the latest heads, or shows what was removed, a gather is under
  way, and that another one is asked for when the one under way has older heads or has listed what was removed.
  `SelectionKept` needs that no two rows share a place: the table is strictly ordered, so a row that comes before another has fewer rows before it.
* **Creation screen.** `Started` says that only a fetch of this popup makes a started candidate look up to date,
  and that the fetch of the base has been started; `Remembered` says that the names a suggestion avoids are all that were ever reported.
  That a suggestion is free needs that `AutoName` finds a number at all: it tries one more than there are names in use
  (a pigeonhole argument on finite sets), and takes the least.
* **Terminal.** Until `watchSignals` nobody but the main goroutine runs (`Alone`), and what `Close` has passed
  is given back or was refused (`GivenBack`). A session of a screen implements `TerminalModes` step by step, so that it inherits this.
* **Keys.** `HeardAsPressed` compares what was heard with what was pressed and says nothing of the bytes between
  the two, so it is not inductive. `KeyInv` says where they are: the presses are some that are done and some that are left; what was
  heard is what was meant by the first, and the bytes that wait in the keyer, then those of the chunk in hand, then those on the line, are the bytes of
  the second (`Follows`). What waits is the beginning of the next press, and all of it only if that is an Esc; and an Esc, being an
  ambiguous beginning, is the last press there is (`EscLast`, which is what the history variable `hasty` keeps). `FlushFires` gives an Esc only
  when no press is in the middle, which is what `late` keeps. Beside it stand `Fresh` (no keys before `watchSignals`) and `ReaderEndsLast`
  (a reader that ended left no byte). The step that decodes rests on `ParsePresses`: cut the bytes of any presses in two, hold back an ESC at the end of the first part unless another follows, and
  `ParseKeys` gives what was meant by the presses that are complete in it, and leaves the beginning of the next.
  `ParseKeys` and `FlattenSeq` are recursive functions. That they exist, and what they give, is proved from sets of numbers: a set that
  holds 0, and one more than what it holds, is all of them (`Upwards`, a least counterexample again); this is induction
  without an operator as a parameter.
* **Judgements.** Everything rests on `History`: a commit's past is closed, and any two commits have a best common ancestor.
  It is inductive because every new commit extends one, or merges straight. What a
  step does is summed up once (`EveryStep`: commits stay as they are, and what a branch holds it goes on
  holding) and cited by every invariant.
  *Catchup* (`CatchupInv`): every conclusive answer on record, whoever wrote it, is the truth about the two
  commits it names, and commits do not change. *Integration branches* (`SilentInv`): what the record, the alias and the loaded copies of the record
  know of the default branch has been the default (`HasBeenDefault`); a round that knows a default has one of these in its list, and
  judges a branch only if none of its own refs is in the list (`ListComplete`). *Merged* (`EvidenceInv`): a tracking ref that
  is not known to come from no branch has what some branch has had (`CopiesOfBranches`); targets are tracking refs of branches (`ListOfBranches`);
  the merged tree that is compared was made with a commit of another branch (`TreeOfMerge`), so that when the
  target, fetched again since, has the same tree, HEAD's version of every area is that commit's or the target's; and so what HEAD has made of every area is in a branch of another name (`Evidence`).
  Below all this lie lemmas about `Refspecs`: what a refspec writes and what `TrackingRefsFor` names are the same, the way back from a
  tracking ref leads to its ref, and prefixes and suffixes of sequences determine what a star stands for. These are
  inductive facts about sequences; they are proved by a least counterexample (`WFMin` of the library), which needs no operator as a parameter.

Model-checked only: every liveness property and everything about `ENABLED`, which the prover does not handle. Every safety
property that a run checks is also a theorem. The modules with proofs have no recursive operators; where they need induction over data, it is
a least counterexample.
On the other hand, git that fails in a worktree (`Flaky` not empty) and a second workspace in `TokenReports` are covered
by the proofs and by no run: the runs would be too large.

## 5. What is not modelled

* The configuration file, `setup` and herdr's configuration: read once, without state of their own.
* Starting git and herdr, their time limits and the parsing of their output: answers, errors and delays are
  choices in the modules. What git's commands mean for a round is in `Judgement`.
* Drawing (`frame.go`), the view of a long message in the creation popup, and Windows' output mode: layout, and a
  system call that the Unix build does not have.
* The limits on parallel fetches and git commands, which change when work ends but not what it says.
* Detachment of processes: system calls of the two platforms.

## 6. Plan

1. *(done)* the lock, the popups' records, tokens, fetch records, wake hints, the cleanup and the creation screen.
2. *(done)* the judgements with their caches, refspecs, keys and terminal; overlapping daemons in `WakeLoop`;
   the upstream that a creation takes away; a popup that is closed while it creates.
3. *(done)* proofs for `TokenReports`, `CreateScreen`, `TerminalModes`, `FocusHeld`, and for `SelectedBaseKept`,
   `ProtectedWhileRunning` and `UpstreamKept` with any number of popups.
4. *(done)* proofs for `Judgement` and its refspecs, `SelectionKept`, and `ScreenSession` as an implementation of `TerminalModes`.
5. *(done)* a proof of `HeardAsPressed`, and of what `ParseKeys` makes of any presses.
6. *(done)* a lock that is removed before its process ends, promises that only a death ends, requests that herdr executes at any
   time, the last look before a removal command by command, each report's own reading of its target.
7. Open: the view of a long message.
