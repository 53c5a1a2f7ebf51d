----------------------------- MODULE TokenReports -----------------------------
(* What the sidebar shows: the sweeps of the daemon's main loop and the local  *)
(* watcher beside it report tokens for herdr's workspaces, while people pull,  *)
(* commit, switch branches, move panes and close workspaces.                   *)
(*                                                                             *)
(* All checkouts belong to one repository.  What the tokens say is abstracted  *)
(* to what they were computed from: a version of the shared refs and a version *)
(* of the checkout's own HEAD file.  The metadata stamps of both change with   *)
(* them (local_state.go compares identity, size, mode and time of the files).  *)
EXTENDS Naturals

CONSTANTS Workspaces,  \* herdr's workspaces
          Checkouts,   \* the repository's checkouts
          NoPlace,     \* the workspace is closed, or is no target of a sweep
          NotWatched,  \* the workspace has no entry in Syncer.watched
          Blank,       \* no tokens are shown, or there is nothing to show
          Unread,      \* the shared stamp was not read yet in this round
          Nobody,      \* no workspace
          MaxRefs,     \* how often the shared refs change
          MaxHead,     \* how often each HEAD file changes
          MaxPlaces    \* how often workspaces move or close

ASSUME BoundsAssumption ==
    MaxRefs \in Nat /\ MaxHead \in Nat /\ MaxPlaces \in Nat

ASSUME NamesAssumption ==
    /\ NoPlace \notin Checkouts
    /\ {Nobody} \cap Workspaces = {}
    /\ Unread \notin Nat
    /\ NotWatched \notin [place : Checkouts, refs : Nat, head : Nat, retry : BOOLEAN]

VARIABLES
    refs,     \* version of the refs that all checkouts share
    heads,    \* heads[c]: version of the HEAD file of checkout c
    place,    \* place[w]: the checkout workspace w is in
    moves,    \* how often a workspace has moved so far
    enabled,  \* Syncer.Config.Enabled
    shown,    \* shown[w]: what herdr shows for w
    watched,  \* Syncer.watched
    mu,       \* who holds Syncer.localMu
    sweep,    \* where Sweep is: "idle", "forget", "fetch" or "report"
    only,     \* its onlyWorkspace, Nobody for all
    targets,  \* targets[w]: the checkout it found w in
    todo,     \* workspaces the holder of localMu has still to look at
    current,  \* the watchedTarget it reports now
    common    \* the shared stamp it has read

world == <<refs, heads, place, moves>>
round == <<todo, current, common>>
job == <<sweep, only, targets>>
vars == <<world, enabled, shown, watched, mu, job, round>>

(* reportLocalLocked works on one watchedTarget: the workspace, the checkout,  *)
(* whether the map holds it, and, once read, the tokens to publish.            *)
Idle == [ws |-> Nobody, place |-> NoPlace, kept |-> FALSE, step |-> "none", tokens |-> Blank]

Version(c) == [place |-> c, refs |-> refs, head |-> heads[c]]

Init ==
    /\ refs = 0
    /\ heads = [c \in Checkouts |-> 0]
    /\ place \in [Workspaces -> Checkouts]
    /\ moves = 0
    /\ enabled \in BOOLEAN
    /\ shown = [w \in Workspaces |-> Blank]
    /\ watched = [w \in Workspaces |-> NotWatched]
    /\ mu = "free"
    /\ sweep = "idle"
    /\ only = Nobody
    /\ targets = [w \in Workspaces |-> NoPlace]
    /\ todo = {}
    /\ current = Idle
    /\ common = Unread

-------------------------------------------------------------------------------
(* The world: git, herdr, the user.                                            *)

(* A commit, a pull, a fetch of anybody, the sweep's own ones included.        *)
MoveRefs ==
    /\ refs < MaxRefs
    /\ refs' = refs + 1
    /\ UNCHANGED <<heads, place, moves, enabled, shown, watched, mu, job, round>>

(* Another branch is checked out, or HEAD is detached.                         *)
MoveHead(c) ==
    /\ heads[c] < MaxHead
    /\ heads' = [heads EXCEPT ![c] = @ + 1]
    /\ UNCHANGED <<refs, place, moves, enabled, shown, watched, mu, job, round>>

(* The workspace goes to another directory, or is closed with its tokens.      *)
MovePlace(w) ==
    /\ moves < MaxPlaces
    /\ place[w] # NoPlace
    /\ \E c \in (Checkouts \cup {NoPlace}) \ {place[w]} :
         /\ place' = [place EXCEPT ![w] = c]
         /\ shown' = [shown EXCEPT ![w] = IF c = NoPlace THEN Blank ELSE @]
    /\ moves' = moves + 1
    /\ UNCHANGED <<refs, heads, enabled, watched, mu, job, round>>

(* The time to live of unrefreshed tokens ends.                                *)
Expire(w) ==
    /\ shown' = [shown EXCEPT ![w] = Blank]
    /\ UNCHANGED <<world, enabled, watched, mu, job, round>>

-------------------------------------------------------------------------------
(* reportLocalLocked, called with localMu held.                                *)

Report(w, c, kept) ==
    current' = [ws |-> w, place |-> c, kept |-> kept, step |-> "read", tokens |-> Blank]

(* resolveTarget and tokensFor; a checkout that cannot be read has no tokens.  *)
ReadTokens ==
    /\ current.step = "read"
    /\ \E tokens \in {Version(current.place), Blank} :
         current' = [current EXCEPT !.step = "send", !.tokens = tokens]
    /\ UNCHANGED <<world, enabled, shown, watched, mu, job, todo, common>>

KeepRetry(retry) ==
    watched' = IF current.kept
               THEN [watched EXCEPT ![current.ws] = [@ EXCEPT !.retry = retry]]
               ELSE watched

(* A bug: a failed report is forgotten.                                        *)
SendFailsQuietly ==
    /\ current.step = "send"
    /\ KeepRetry(FALSE)
    /\ current' = Idle
    /\ UNCHANGED <<world, enabled, shown, mu, job, todo, common>>

(* A bug: the stamps are those of the time after the calculation.              *)
SendTokensStamping ==
    /\ current.step = "send"
    /\ place[current.ws] # NoPlace
    /\ shown' = [shown EXCEPT ![current.ws] = current.tokens]
    /\ watched' = IF current.kept
                  THEN [watched EXCEPT ![current.ws] =
                          [@ EXCEPT !.refs = refs, !.head = heads[current.place],
                                    !.retry = FALSE]]
                  ELSE watched
    /\ current' = Idle
    /\ UNCHANGED <<world, enabled, mu, job, todo, common>>

SendTokens ==
    /\ current.step = "send"
    /\ place[current.ws] # NoPlace
    /\ shown' = [shown EXCEPT ![current.ws] = current.tokens]
    /\ KeepRetry(FALSE)
    /\ current' = Idle
    /\ UNCHANGED <<world, enabled, mu, job, todo, common>>

(* ReportMetadata fails: herdr may have taken the tokens or not.               *)
SendFails ==
    /\ current.step = "send"
    /\ \/ UNCHANGED shown
       \/ /\ place[current.ws] # NoPlace
          /\ shown' = [shown EXCEPT ![current.ws] = current.tokens]
    /\ KeepRetry(TRUE)
    /\ current' = Idle
    /\ UNCHANGED <<world, enabled, mu, job, todo, common>>

Lock(holder, work) ==
    /\ mu = "free"
    /\ mu' = holder
    /\ todo' = work
    /\ common' = Unread
    /\ UNCHANGED current

Unlock ==
    /\ mu' = "free"
    /\ todo' = {}
    /\ common' = Unread
    /\ UNCHANGED current

-------------------------------------------------------------------------------
(* PollLocal.                                                                  *)

Entries == {w \in Workspaces : watched[w] # NotWatched}

BeginPoll ==
    /\ enabled
    /\ Lock("poll", Entries)
    /\ UNCHANGED <<world, enabled, shown, watched, job>>

(* The next entry, in any order: Go's map has none.                            *)
PollTurn(w) == mu = "poll" /\ current = Idle /\ w \in todo

Stamp == IF common = Unread THEN refs ELSE common

(* Nothing changed, or a stamp cannot be read: not now.                        *)
PollSkips(w) ==
    /\ PollTurn(w)
    /\ todo' = todo \ {w}
    /\ common' = Stamp
    /\ UNCHANGED <<world, enabled, shown, watched, mu, job, current>>

Changed(w) ==
    \/ watched[w].retry
    \/ watched[w].refs # Stamp
    \/ watched[w].head # heads[watched[w].place]

(* The entry takes the new stamps before HEAD is read.                         *)
PollReports(w) ==
    /\ PollTurn(w)
    /\ Changed(w)
    /\ todo' = todo \ {w}
    /\ common' = Stamp
    /\ watched' = [watched EXCEPT ![w].refs = Stamp,
                                  ![w].head = heads[watched[w].place]]
    /\ Report(w, watched[w].place, TRUE)
    /\ UNCHANGED <<world, enabled, shown, mu, job>>

EndPoll ==
    /\ mu = "poll" /\ current = Idle /\ todo = {}
    /\ Unlock
    /\ UNCHANGED <<world, enabled, shown, watched, job>>

-------------------------------------------------------------------------------
(* The main loop: the configuration and Sweep.                                 *)

SweepOver ==
    /\ sweep' = "idle"
    /\ only' = Nobody
    /\ targets' = [w \in Workspaces |-> NoPlace]

(* A bug: the configuration is replaced without localMu.                       *)
ReloadUnlocked ==
    /\ sweep = "idle"
    /\ enabled' \in BOOLEAN
    /\ UNCHANGED <<world, shown, watched, mu, job, round>>

ReloadConfig ==
    /\ sweep = "idle"
    /\ mu = "free"
    /\ enabled' \in BOOLEAN
    /\ UNCHANGED <<world, shown, watched, mu, job, round>>

(* Sweep of a disabled plugin: clearAll.  Without a list of panes the tokens   *)
(* stay; a single report may fail too.                                         *)
ClearAll ==
    /\ sweep = "idle"
    /\ ~enabled
    /\ mu = "free"
    /\ watched' = [w \in Workspaces |-> NotWatched]
    /\ \E cleared \in SUBSET Workspaces :
         shown' = [w \in Workspaces |-> IF w \in cleared THEN Blank ELSE shown[w]]
    /\ UNCHANGED <<world, enabled, mu, job, round>>

(* PaneList, WorkspaceList and resolveTargets; an error leaves it at that.     *)
BeginSweep(scope) ==
    /\ sweep = "idle"
    /\ enabled
    /\ sweep' = "forget"
    /\ only' = scope
    /\ targets' = [w \in Workspaces |-> IF scope \in {Nobody, w} THEN place[w] ELSE NoPlace]
    /\ UNCHANGED <<world, enabled, shown, watched, mu, round>>

InScope(w) == only \in {Nobody, w}
Targets == {w \in Workspaces : targets[w] # NoPlace}

(* A bug: a workspace that moved keeps its entry until it is replaced.         *)
ForgetClosedOnly ==
    /\ sweep = "forget"
    /\ mu = "free"
    /\ watched' = [w \in Workspaces |->
                     IF InScope(w) /\ targets[w] = NoPlace THEN NotWatched ELSE watched[w]]
    /\ IF Targets = {} THEN SweepOver ELSE sweep' = "fetch" /\ UNCHANGED <<only, targets>>
    /\ UNCHANGED <<world, enabled, shown, mu, round>>

(* forgetMissingTargets; then the fetches, for as long as they take.           *)
ForgetMissing ==
    /\ sweep = "forget"
    /\ mu = "free"
    /\ watched' = [w \in Workspaces |->
                     IF InScope(w) /\ watched[w] # NotWatched /\ watched[w].place # targets[w]
                     THEN NotWatched ELSE watched[w]]
    /\ IF Targets = {} THEN SweepOver ELSE sweep' = "fetch" /\ UNCHANGED <<only, targets>>
    /\ UNCHANGED <<world, enabled, shown, mu, round>>

BeginReport ==
    /\ sweep = "fetch"
    /\ sweep' = "report"
    /\ Lock("sweep", Targets)
    /\ UNCHANGED <<world, enabled, shown, watched, only, targets>>

SweepTurn(w) == mu = "sweep" /\ current = Idle /\ w \in todo

(* A bug: the tokens are those of the HEAD that resolveTargets saw, some time   *)
(* before.                                                                     *)
ReportTargetAsResolved(w) ==
    /\ SweepTurn(w)
    /\ todo' = todo \ {w}
    /\ \E r \in 0..refs, h \in 0..heads[targets[w]] :
         current' = [ws |-> w, place |-> targets[w], kept |-> FALSE, step |-> "send",
                     tokens |-> [place |-> targets[w], refs |-> r, head |-> h]]
    /\ UNCHANGED <<world, enabled, shown, watched, mu, job, common>>

(* One round of reportAll: a new entry with its stamps; or no entry, for what  *)
(* is no repository; or, when a stamp cannot be read, the entry there was.     *)
ReportTarget(w) ==
    /\ SweepTurn(w)
    /\ todo' = todo \ {w}
    /\ \/ /\ common' = Stamp
          /\ watched' = [watched EXCEPT ![w] = [place |-> targets[w], refs |-> Stamp,
                                                head |-> heads[targets[w]], retry |-> FALSE]]
          /\ Report(w, targets[w], TRUE)
       \/ /\ UNCHANGED common
          /\ watched' = [watched EXCEPT ![w] = NotWatched]
          /\ Report(w, targets[w], FALSE)
       \/ /\ common' \in {common, Stamp}
          /\ UNCHANGED watched
          /\ Report(w, targets[w], FALSE)
    /\ UNCHANGED <<world, enabled, shown, mu, job>>

EndSweep ==
    /\ mu = "sweep" /\ current = Idle /\ todo = {}
    /\ Unlock
    /\ SweepOver
    /\ UNCHANGED <<world, enabled, shown, watched>>

(* The daemon ends, however it ends, and the next one begins with nothing.     *)
Restart ==
    /\ enabled' \in BOOLEAN
    /\ watched' = [w \in Workspaces |-> NotWatched]
    /\ mu' = "free"
    /\ SweepOver
    /\ todo' = {} /\ current' = Idle /\ common' = Unread
    /\ UNCHANGED <<world, shown>>

-------------------------------------------------------------------------------
World == \/ MoveRefs
         \/ \E c \in Checkouts : MoveHead(c)
         \/ \E w \in Workspaces : MovePlace(w) \/ Expire(w)
Poll == BeginPoll \/ EndPoll \/ \E w \in Workspaces : PollSkips(w) \/ PollReports(w)
Sweep == \/ BeginReport \/ EndSweep \/ ForgetMissing
         \/ \E w \in Workspaces : ReportTarget(w)

Next ==
    \/ World
    \/ ReadTokens \/ SendTokens \/ SendFails
    \/ Poll
    \/ ReloadConfig \/ ClearAll
    \/ \E scope \in Workspaces \cup {Nobody} : BeginSweep(scope)
    \/ Sweep
    \/ Restart

Spec == Init /\ [][Next]_vars

(* Both goroutines go on and localMu starves nobody (Go's mutexes do not); the *)
(* watcher's ticker fires again and again.  Stamps that change can be read now *)
(* and then, and now and then herdr takes a report of any workspace.           *)
FairSpec ==
    /\ Spec
    /\ WF_vars(ReadTokens)
    /\ WF_vars(SendTokens \/ SendFails)
    /\ \A w \in Workspaces : SF_vars(current.ws = w /\ SendTokens)
    /\ WF_vars(Poll) /\ SF_vars(BeginPoll)
    /\ \A w \in Workspaces : SF_vars(PollReports(w))
    /\ WF_vars(Sweep)

-------------------------------------------------------------------------------
Tokens == [place : Checkouts, refs : 0..MaxRefs, head : 0..MaxHead] \cup {Blank}
Watch == [place : Checkouts, refs : 0..MaxRefs, head : 0..MaxHead, retry : BOOLEAN]

(* Every variable has its type; localMu covers every report, and reportAll is  *)
(* where the main loop holds it.                                               *)
TypeOK ==
    /\ refs \in 0..MaxRefs
    /\ heads \in [Checkouts -> 0..MaxHead]
    /\ place \in [Workspaces -> Checkouts \cup {NoPlace}]
    /\ moves \in 0..MaxPlaces
    /\ enabled \in BOOLEAN
    /\ shown \in [Workspaces -> Tokens]
    /\ watched \in [Workspaces -> Watch \cup {NotWatched}]
    /\ mu \in {"free", "poll", "sweep"}
    /\ sweep \in {"idle", "forget", "fetch", "report"}
    /\ only \in Workspaces \cup {Nobody}
    /\ targets \in [Workspaces -> Checkouts \cup {NoPlace}]
    /\ todo \in SUBSET Workspaces
    /\ common \in 0..MaxRefs \cup {Unread}
    /\ \/ current = Idle
       \/ current \in [ws : Workspaces, place : Checkouts, kept : BOOLEAN,
                       step : {"read", "send"}, tokens : Tokens]
    /\ mu = "free" => current = Idle /\ todo = {}
    /\ mu = "sweep" <=> sweep = "report"

Outdated(w) ==
    /\ watched[w] # NotWatched
    /\ shown[w] \notin {Blank, Version(watched[w].place)}

(* No local change is missed: when a watched workspace shows outdated tokens   *)
(* and nobody is at work on them, the next poll sees the change, or knows that *)
(* the last report failed (local_refresh.go:66, reportAll, and retry).         *)
NoMissedChange ==
    mu = "free" => \A w \in Workspaces : Outdated(w) =>
      \/ watched[w].retry
      \/ watched[w].refs # refs
      \/ watched[w].head # heads[watched[w].place]

Older(new, old) ==
    /\ Blank \notin {new, old} /\ new.place = old.place
    /\ new.refs < old.refs \/ new.head < old.head

(* A slow sweep never replaces the tokens of a newer pull by those of an older *)
(* HEAD, nor does anything else (docs/REFERENCE.md on the local watcher).      *)
NeverOlder == [][\A w \in Workspaces : ~Older(shown'[w], shown[w])]_vars

Published(w) == shown'[w] \notin {shown[w], Blank}

(* Once a sweep has noticed that a workspace went elsewhere or was closed, the *)
(* tokens of the place it left are not published any more, however long the    *)
(* fetches take (forgetMissingTargets).                                        *)
LeftPlaceSilent ==
    [][\A w \in Workspaces :
         sweep \in {"fetch", "report"} /\ InScope(w) /\ Published(w)
           => targets[w] = shown'[w].place]_vars

(* A plugin that took note of its being disabled publishes no tokens, not even *)
(* from a poll under way (daemon.go:109, local_refresh.go:39).                 *)
DisabledSilent ==
    [][~enabled => \A w \in Workspaces : ~Published(w)]_vars

(* Outdated tokens of a watched workspace do not stay.                         *)
ChangesAppear == \A w \in Workspaces : enabled /\ Outdated(w) ~> ~enabled \/ ~Outdated(w)
===============================================================================
