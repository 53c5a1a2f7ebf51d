------------------------------- MODULE Judgement ------------------------------
(* The judgements merged and catchup of one checkout (judge.go), as a round of *)
(* the daemon makes them (sync.go), while the user works, pushes and switches  *)
(* branches, colleagues merge, and other processes fetch, judge and look the   *)
(* default branch up on the same repository and the same records.              *)
(*                                                                             *)
(* A commit is what its past holds and what it makes of every area of the      *)
(* tree; an area's version is named after the commit that made it.             *)
EXTENDS Refspecs

CONSTANTS
    Areas,        \* parts of the tree that can be changed apart from each other
    RemoteRefs,   \* refs of the remotes, [remote, ref]; <<"pull", b>> follows b
    TrackingNames,\* tracking refs there may be
    LocalBranches,\* branches that can be checked out here
    Detached,     \* instead of a branch: HEAD is detached
    Repos,        \* names of repositories,
    Config,       \* and their settings: fetch, cloned, upstream, targets, mergeTree
    Daemon,
    Limits        \* what is explored in each repository: the bounds commits (how
                  \* many there will ever be), switches (how often another branch
                  \* is checked out) and defaults (how often the remote's default
                  \* branch changes); the branches that colleagues make; the
                  \* screens that ask for the default branch; and whether commands
                  \* that only read may be failing

Screens == UNION {Limits[name].screens : name \in Repos}
Places == LocalBranches \cup {Detached}

ASSUME LimitsAssumption ==
    \A name \in Repos :
      /\ Limits[name].commits \in Nat \ {0}
      /\ Limits[name].switches \in Nat /\ Limits[name].defaults \in Nat
      /\ Daemon \notin Limits[name].screens /\ Limits[name].failing \in BOOLEAN

(* No branch is called Detached, here or elsewhere.                            *)
ASSUME NamesAssumption ==
    /\ RemoteRefs \subseteq [remote : Seq(STRING), ref : Seq(STRING) \ {<<>>}]
    /\ TrackingNames \subseteq Seq(STRING)
    /\ Detached \notin LocalBranches /\ \A r \in RemoteRefs : r.ref # Heads(Detached)

(* A refspec has its star on both sides or on none, or git refuses it; and     *)
(* what a branch follows is on a remote that is registered.                    *)
ASSUME ConfigAssumption ==
    \A name \in Repos :
      /\ \A r \in DOMAIN Config[name].fetch :
           /\ Config[name].fetch[r] \in Seq([source : Seq(STRING), destination : Seq(STRING)])
           /\ \A i \in DOMAIN Config[name].fetch[r] :
                HasStar(Config[name].fetch[r][i].source) <=>
                  HasStar(Config[name].fetch[r][i].destination)
      /\ \A r \in RemoteRefs : r.remote \in DOMAIN Config[name].fetch =>
           TrackingRefsFor(Config[name].fetch[r.remote], r.remote, r.ref) \subseteq TrackingNames
      /\ Config[name].targets \subseteq Seq(STRING)
      /\ Config[name].upstream \in
           [LocalBranches -> SUBSET {r \in RemoteRefs : r.remote \in DOMAIN Config[name].fetch}]

VARIABLES
    repo,       \* which repository it is
    commits,    \* every commit, in the order of their making
    remote,     \* the commit of each remote ref, the last one if it was deleted
    deleted,    \* the remote refs that are no more
    tracking,   \* the commit of each tracking ref
    alias,      \* refs/remotes/<remote>/HEAD
    default,    \* the branch that is the remote's default
    place,      \* the branch checked out
    tips,       \* the commit of each local branch, and of a detached HEAD
    switches,
    defaults,   \* history: the branches that have been the default
    record,     \* RepoRecord: the default branch known, and when it was asked
    cache,      \* CatchupRecord of each branch
    asking,     \* the question for the default branch a process is at
    round       \* the daemon's round: what it has read so far; history: whole,
                \* whether all reads succeeded

server == <<remote, deleted, default, defaults>>
checkout == <<place, tips, switches>>
sources == <<repo, commits, server, tracking, alias, checkout>>
plugin == <<record, cache, asking, round>>
vars == <<sources, plugin>>

None == 0
Commits == 1..Len(commits)

(* The remotes that are registered, and what there may be on them.             *)
Registered(name) == DOMAIN Config[name].fetch
RefsOf(name) == {r \in RemoteRefs : r.remote \in Registered(name)}
Remotes == Registered(repo)
BranchesOf == [name \in Repos |-> {r \in RefsOf(name) : IsBranch(r.ref)}]
Branches == BranchesOf[repo]
Remote(r, branch) == [remote |-> r, ref |-> Heads(branch)]
Exists(r) == remote[r] # None /\ r \notin deleted

Specs(name, r) == Config[name].fetch[r]
AllRefspecs(name) == UNION {ToSet(Specs(name, r)) : r \in Registered(name)}

(* The names that the settings make, as relations: what fetch and push write   *)
(* for a remote ref; the tracking ref of a remote ref, and the other way       *)
(* round; the mergeTargets; the refs of a branch itself; and the tracking refs *)
(* that come from no branch.  (TLC computes the image of a set only once.)     *)
Image(pairs) == {<<w[1], w[2]>> : w \in pairs}
Refs == {w \in Repos \X RemoteRefs : w[2] \in RefsOf(w[1])}
Named(Names(_, _)) ==
    {<<w[1][1], w[1][2], w[2]>> :
       w \in {v \in Refs \X TrackingNames : v[2] \in Names(Specs(v[1][1], v[1][2].remote), v[1][2])}}

Writes == Named(LAMBDA specs, r : UNION {ToLocal(specs[i], r.ref) : i \in DOMAIN specs})
Tracks == Named(LAMBDA specs, r : {TrackingRefFor(specs, r.remote, r.ref)})
Own == Named(LAMBDA specs, r : TrackingRefsFor(specs, r.remote, r.ref))
ComesFrom == Named(LAMBDA specs, r :
    {n \in TrackingNames : r.ref \in RemoteRefFor(specs, r.remote, n)})
Targets == Image({w \in Refs : \E short \in Config[w[1]].targets :
    w[2] \in TargetFromShortRef(Registered(w[1]), short)})
NonBranches == Image({w \in Repos \X TrackingNames :
    \E spec \in AllRefspecs(w[1]) : BringsNonBranch(spec, w[2])})

Copies(r) == {n \in TrackingNames : <<repo, r, n>> \in Writes}
Tracking(r) == CHOOSE n \in TrackingNames : <<repo, r, n>> \in Tracks
FromNoBranch == {n \in TrackingNames : <<repo, n>> \in NonBranches}
Upstream(b) == IF b = Detached THEN {} ELSE Config[repo].upstream[b]

-------------------------------------------------------------------------------
(* Merging, as git does it.                                                    *)

Past(c) == commits[c].past

(* The best common ancestor, as a set: it is one commit (Straight).            *)
MergeBases(a, b) == {c \in Past(a) \cap Past(b) : Past(a) \cap Past(b) \subseteq Past(c)}

Version(c, area) == commits[c].tree[area]

(* MergeTree with exit status 1: an area was changed on both sides.            *)
Conflicts(a, b) ==
    \E base \in MergeBases(a, b) : \E x \in Areas :
      /\ Version(a, x) \notin {Version(base, x), Version(b, x)}
      /\ Version(b, x) # Version(base, x)

MergedTree(a, b) ==
    LET base == CHOOSE c \in MergeBases(a, b) : TRUE
    IN [x \in Areas |-> IF Version(a, x) = Version(base, x) THEN Version(b, x)
                                                            ELSE Version(a, x)]

-------------------------------------------------------------------------------
(* What IntegrationBranches finds for a remote now: tracking refs, and where   *)
(* they come from, if that is known.                                           *)

(* localDefaultBranch: the alias, if there is such a ref.                      *)
LocalDefault(r) ==
    {[tracking |-> n, from |-> {q \in RefsOf(repo) : q.remote = r /\ <<repo, q, n>> \in ComesFrom}] :
       n \in {m \in alias[r] : tracking[m] # None}}

Known(r) == [tracking |-> Tracking(r), from |-> {r}]

(* RepoRecord: a default that is recorded is never asked for again.            *)
Recorded(r) == {Known(q) : q \in record[r].default}

Default(r) == IF LocalDefault(r) # {} THEN LocalDefault(r) ELSE Recorded(r)
LookupDue(r) == Default(r) = {} /\ record[r].asked # "today"

MergeTargets == {Known(r) : r \in {q \in RefsOf(repo) : <<repo, q>> \in Targets}}

-------------------------------------------------------------------------------
Idle == [pc |-> "idle", head |-> None, at |-> Detached, branch |-> Detached,
         whole |-> TRUE, upstream |-> {}, remote |-> {}, known |-> FALSE, list |-> {},
         tip |-> None, answer |-> "unknown", left |-> {}, target |-> <<>>, tree |-> <<>>,
         merged |-> FALSE]

NoAnswer == [head |-> None, tip |-> None, answer |-> "none", asked |-> "before"]
Unasked == [default |-> {}, asked |-> "never"]

(* A clone has its alias, other repositories never had one.                    *)
Init ==
    /\ repo \in Repos
    /\ commits = <<[past |-> {1}, tree |-> [x \in Areas |-> 1]]>>
    /\ default \in {r \in Branches : r.ref = Heads("main")}
    /\ defaults = {default}
    /\ remote = [r \in RemoteRefs |-> IF r = default THEN 1 ELSE None]
    /\ deleted = {}
    /\ tracking = [n \in TrackingNames |-> IF n \in Copies(default) THEN 1 ELSE None]
    /\ alias = [r \in Remotes |-> IF r \in Config[repo].cloned /\ r = default.remote
                  THEN {Tracking(default)} ELSE {}]
    /\ place \in LocalBranches
    /\ tips = [b \in Places |-> 1]
    /\ switches = 0
    /\ record = [r \in Remotes |-> Unasked]
    /\ cache = [b \in LocalBranches |-> NoAnswer]
    /\ asking = [p \in {Daemon} \cup Screens |-> {}]
    /\ round = Idle

-------------------------------------------------------------------------------
(* The user, the remotes, and other processes that fetch.                      *)

NewCommit(past, tree) ==
    /\ Len(commits) < Limits[repo].commits
    /\ commits' = Append(commits, [past |-> past \cup {Len(commits) + 1}, tree |-> tree])

Changing(c, x) == [commits[c].tree EXCEPT ![x] = Len(commits) + 1]

(* A commit on the branch checked out, or on a detached HEAD.                  *)
Work(x) ==
    /\ NewCommit(Past(tips[place]), Changing(tips[place], x))
    /\ tips' = [tips EXCEPT ![place] = Len(commits) + 1]
    /\ UNCHANGED <<repo, server, tracking, alias, place, switches, plugin>>

Switch(b) ==
    /\ switches < Limits[repo].switches
    /\ b # place
    /\ place' = b
    /\ tips' = IF b = Detached THEN [tips EXCEPT ![b] = tips[place]] ELSE tips
    /\ switches' = switches + 1
    /\ UNCHANGED <<repo, commits, server, tracking, alias, plugin>>

(* A remote branch takes commit c, and its pull request follows.               *)
With(r) == {r} \cup {p \in RemoteRefs : p.remote = r.remote
                       /\ ~IsBranch(p.ref) /\ Last(p.ref) = Last(r.ref)}
SetRemote(r, c) ==
    /\ remote' = [q \in RemoteRefs |-> IF q \in With(r) THEN c ELSE remote[q]]
    /\ deleted' = deleted \ With(r)
    /\ UNCHANGED <<default, defaults>>

(* git push sets the tracking refs too.                                        *)
Push(r) ==
    /\ r.ref = Heads(place)
    /\ Exists(r) => remote[r] # tips[place]
    /\ remote[r] # None => remote[r] \in Past(tips[place])
    /\ SetRemote(r, tips[place])
    /\ LET copies == Copies(r)
       IN tracking' = [n \in TrackingNames |-> IF n \in copies THEN tips[place] ELSE tracking[n]]
    /\ UNCHANGED <<repo, commits, alias, checkout, plugin>>

(* A colleague's commit on a branch.                                           *)
Colleague(r, x) ==
    /\ Exists(r)
    /\ NewCommit(Past(remote[r]), Changing(remote[r], x))
    /\ SetRemote(r, Len(commits) + 1)
    /\ UNCHANGED <<repo, tracking, alias, checkout, plugin>>

(* A colleague's new branch, from what the default branch is now.              *)
NewBranch(r) ==
    /\ r \in Limits[repo].branches
    /\ remote[r] = None
    /\ SetRemote(r, remote[default])
    /\ UNCHANGED <<repo, commits, tracking, alias, checkout, plugin>>

(* Nobody merges crosswise: what has this past has one best common ancestor    *)
(* with every commit.                                                          *)
Straight(past) ==
    \A c \in Commits : \E base \in past \cap Past(c) : past \cap Past(c) \subseteq Past(base)

(* A branch is merged into the default branch: squashed, or with both pasts.   *)
Land(from) ==
    /\ Exists(from) /\ remote[from] \notin Past(remote[default])
    /\ ~Conflicts(remote[default], remote[from])
    /\ \E past \in {Past(remote[default]), Past(remote[default]) \cup Past(remote[from])} :
         Straight(past) /\ NewCommit(past, MergedTree(remote[default], remote[from]))
    /\ SetRemote(default, Len(commits) + 1)
    /\ UNCHANGED <<repo, tracking, alias, checkout, plugin>>

DeleteBranch(r) ==
    /\ r # default /\ Exists(r)
    /\ deleted' = deleted \cup {r}
    /\ UNCHANGED <<repo, commits, remote, default, defaults, tracking, alias, checkout, plugin>>

MoveDefault(r) ==
    /\ Cardinality(defaults) <= Limits[repo].defaults
    /\ r # default /\ Exists(r)
    /\ default' = r
    /\ defaults' = defaults \cup {r}
    /\ UNCHANGED <<repo, commits, remote, deleted, tracking, alias, checkout, plugin>>

(* git fetch of everything, by the user or by a screen; only the user prunes.  *)
Fetched(r, pruning) ==
    [n \in TrackingNames |->
       LET from == {q \in RemoteRefs : q.remote = r /\ <<repo, q, n>> \in Writes}
           there == {q \in from : Exists(q)}
       IN IF there # {} THEN remote[CHOOSE q \in there : TRUE]
          ELSE IF pruning /\ from # {} THEN None ELSE tracking[n]]

FetchAll(r, pruning) ==
    /\ tracking' = Fetched(r, pruning)
    /\ UNCHANGED <<repo, commits, server, alias, checkout, plugin>>

-------------------------------------------------------------------------------
(* LookupDefaultBranch, by the daemon's round or by a screen that found it due *)
(* some time ago.                                                              *)

NotLoaded == [default |-> {}, asked |-> "not loaded"]

FindsDue(p, r) ==
    /\ p \in Limits[repo].screens
    /\ asking[p] = {}
    /\ LookupDue(r)
    /\ asking' = [asking EXCEPT ![p] = {[remote |-> r, record |-> NotLoaded]}]
    /\ UNCHANGED <<sources, record, cache, round>>

(* LoadRepoRecord, before the network.                                         *)
Load(p) ==
    /\ \E q \in asking[p] :
         /\ q.record = NotLoaded
         /\ asking' = [asking EXCEPT ![p] = {[q EXCEPT !.record = record[q.remote]]}]
    /\ UNCHANGED <<sources, record, cache, round>>

(* The answer, or none; the loaded record is saved with it, or saving fails.   *)
Save(p) ==
    /\ \E q \in asking[p] :
         /\ q.record # NotLoaded
         /\ \/ /\ q.remote = default.remote
               /\ record' = [record EXCEPT ![q.remote] =
                               [default |-> {default}, asked |-> "today"]]
            \/ record' = [record EXCEPT ![q.remote] = [q.record EXCEPT !.asked = "today"]]
            \/ UNCHANGED record
    /\ asking' = [asking EXCEPT ![p] = {}]
    /\ UNCHANGED <<sources, cache, round>>

DayPasses(r) ==
    /\ record[r].asked = "today"
    /\ record' = [record EXCEPT ![r].asked = "before"]
    /\ UNCHANGED <<sources, cache, asking, round>>

HourPasses(b) ==
    /\ cache[b].asked = "this hour"
    /\ cache' = [cache EXCEPT ![b].asked = "before"]
    /\ UNCHANGED <<sources, record, asking, round>>

-------------------------------------------------------------------------------
(* A round of the daemon.                                                      *)

Reads == UNCHANGED <<sources, record, cache, asking>>

(* What a command reads, or what the code takes for it when the command fails. *)
Read(value, otherwise) == {value} \cup {v \in {otherwise} : Limits[repo].failing}

Goes(pc) == round' = [round EXCEPT !.pc = pc]

(* HeadCommit; without a commit nothing is judged.                             *)
ReadHead ==
    /\ round = Idle
    /\ round' = [Idle EXCEPT !.pc = "branch", !.head = tips[place], !.at = place]
    /\ Reads

(* CurrentBranch and UpstreamFor, each of which may fail and then reads as     *)
(* "detached" and "no upstream"; Remotes, without which there is no remote.    *)
ReadBranch ==
    /\ round.pc = "branch"
    /\ \E branch \in Read(place, Detached) : \E up \in Read(Upstream(branch), {}) :
         \E r \in Read(RemoteFor(up, Remotes), {u.remote : u \in up}) :
           round' = [round EXCEPT !.pc = "integration", !.branch = branch, !.upstream = up,
                       !.remote = r,
                       !.whole = branch = place /\ up = Upstream(branch)]
    /\ Reads

(* IntegrationBranches; config --get-all may fail, then there are no           *)
(* mergeTargets.                                                               *)
FillIntegration(pc) ==
    \E targets \in Read(MergeTargets, {}) : \E r \in round.remote :
      round' = [round EXCEPT !.pc = pc, !.known = Default(r) # {},
                  !.list = Default(r) \cup targets,
                  !.whole = @ /\ targets = MergeTargets]

(* The target is resolved for a sweep, which fetches what it names; a lookup   *)
(* that is due is one more job of fetchAll.                                    *)
ResolveToFetch ==
    /\ round.pc = "integration"
    /\ \/ round.remote = {} /\ Goes("fetch") /\ UNCHANGED asking
       \/ /\ FillIntegration("fetch")
          /\ asking' = [asking EXCEPT ![Daemon] =
                          {[remote |-> r, record |-> NotLoaded] :
                             r \in {q \in round.remote : LookupDue(q)}}]
    /\ UNCHANGED <<sources, record, cache>>

(* Or for a report, at the end of a sweep or by PollLocal: nothing is asked.   *)
ResolveToReport ==
    /\ round.pc = "integration"
    /\ \/ round.remote = {} /\ Goes("counts")
       \/ FillIntegration("counts")
    /\ Reads

(* Fetch of one upstream or integration branch whose remote side is known; git *)
(* sets its other copies too.  Those that the throttle leaves out, or that     *)
(* fail, change nothing.                                                       *)
Jobs == {Known(up) : up \in round.upstream} \cup round.list

FetchOne(up) ==
    /\ round.pc = "fetch"
    /\ \E from \in up.from :
         /\ Exists(from)
         /\ LET copies == {up.tracking} \cup Copies(from)
            IN tracking' = [n \in TrackingNames |-> IF n \in copies THEN remote[from] ELSE tracking[n]]
    /\ UNCHANGED <<repo, commits, server, alias, checkout, plugin>>

(* What the sweep has resolved, and refreshIntegration filled in once more, is *)
(* of no use to the report: reportLocalLocked resolves the target anew.        *)
EndFetch ==
    /\ round.pc = "fetch"
    /\ asking[Daemon] = {}
    /\ round' = Idle
    /\ Reads

Tracked(up) == tracking[Tracking(up)]

(* CountsBetween: catchup is for a checkout that is behind.                    *)
Count ==
    /\ round.pc = "counts"
    /\ \/ Goes("merged")
       \/ /\ \E up \in round.upstream : Tracked(up) # None
                                        /\ ~(Past(Tracked(up)) \subseteq Past(round.head))
          /\ Goes("catchup")
    /\ Reads

Truth(tip, head) == IF Conflicts(tip, head) THEN "conflict" ELSE "clean"

(* That there was no answer counts for an hour (catchupRetry).                 *)
Reusable(cached) ==
    \/ cached.answer \in {"clean", "conflict"}
    \/ cached.answer = "unknown" /\ cached.asked = "this hour"

(* A bug: the record of another HEAD is good enough.                           *)
HitOfTip(cached, tip) == Reusable(cached) /\ cached.tip = tip

Hit(cached, tip) == Reusable(cached) /\ cached.head = round.head /\ cached.tip = tip

(* CommitOf the tracking ref, LoadCatchupRecord (a file that cannot be read is *)
(* an empty record), and the record's answer.                                  *)
LookUpCatchup ==
    /\ round.pc = "catchup"
    /\ \E up \in round.upstream :
       \E cached \in Read(cache[round.branch], NoAnswer) :
         LET tip == Tracked(up)
         IN round' =
              IF tip = None THEN [round EXCEPT !.pc = "merged"]
              ELSE IF Hit(cached, tip)
              THEN [round EXCEPT !.pc = "caught", !.tip = tip, !.answer = cached.answer]
              ELSE IF Config[repo].mergeTree THEN [round EXCEPT !.pc = "compute", !.tip = tip]
              ELSE [round EXCEPT !.pc = "caught", !.tip = tip, !.answer = "unknown"]
    /\ Reads

Answered(head, tip, answer) ==
    [head |-> head, tip |-> tip, answer |-> answer, asked |-> "this hour"]

(* MergeTree of the two commits; the answer, or that there is none, is saved   *)
(* over whatever others have saved since.                                      *)
ComputeCatchup ==
    /\ round.pc = "compute"
    /\ \E answer \in {Truth(round.tip, round.head), "unknown"} :
         /\ round' = [round EXCEPT !.pc = "caught", !.answer = answer]
         /\ cache' \in {cache, [cache EXCEPT ![round.branch] =
                                  Answered(round.head, round.tip, answer)]}
    /\ UNCHANGED <<sources, record, asking>>

(* A screen has judged, from a HEAD of some time ago.                          *)
OthersCatchup(b) ==
    /\ Config[repo].mergeTree
    /\ \E up \in Upstream(b) : \E head \in Past(tips[b]) :
         /\ Tracked(up) # None /\ ~(Past(Tracked(up)) \subseteq Past(head))
         /\ \E answer \in {Truth(Tracked(up), head), "unknown"} :
              cache' = [cache EXCEPT ![b] = Answered(head, Tracked(up), answer)]
    /\ UNCHANGED <<sources, record, asking, round>>

ReportCatchup ==
    /\ round.pc = "caught"
    /\ round' = [round EXCEPT !.pc = "merged", !.tip = None, !.answer = "unknown"]
    /\ Reads

-------------------------------------------------------------------------------
(* SelfRefs and JudgeMerged.                                                   *)

OwnRefs(branch, remotes) ==
    {n \in TrackingNames : \E r \in remotes : branch # Detached
                             /\ <<repo, Remote(r, branch), n>> \in Own}

OwnCopies(branch, upstream, remotes) ==
    OwnRefs(branch, remotes)
      \cup {Tracking(up) : up \in {u \in upstream : branch # Detached /\ u.ref = Heads(branch)}}

TrackedCopies(upstream) ==
    {Tracking(up) : up \in upstream}
      \cup {n \in TrackingNames : \E up \in upstream : <<repo, up, n>> \in Own}

(* A bug: a pull request's ref counts.                                         *)
ContainingAny(c, read) == {n \in TrackingNames : tracking[n] # None /\ c \in Past(tracking[n])}

(* ContainingRemoteRefs: for-each-ref --contains, without what is no branch;   *)
(* without the refspecs everything is taken for one.                           *)
Containing(c, read) ==
    {n \in TrackingNames \ (IF read THEN FromNoBranch ELSE {}) :
       tracking[n] # None /\ c \in Past(tracking[n])}

(* A bug: the integration branches that are known are good enough.             *)
JudgedAnyway(own, targets) == own \cap targets = {}

(* Without a default branch, and on an integration branch, there is no         *)
(* judgement.                                                                  *)
Judged(own, targets) == round.known /\ own \cap targets = {}

Verdict(yes) == [round EXCEPT !.pc = "judged", !.merged = yes, !.left = {},
                              !.target = <<>>, !.tree = <<>>]

(* The ancestry check.  The remotes or the refspecs that cannot be read are    *)
(* taken for none; when the containing refs cannot be listed, it is at an end. *)
CheckAncestry ==
    /\ round.pc = "merged"
    /\ \E remotes \in Read(Remotes, {}) : \E read, listed \in Read(TRUE, FALSE) :
         LET own == OwnCopies(round.branch, round.upstream, remotes)
             targets == {up.tracking : up \in round.list}
             others == Containing(round.head, read) \ (own \cup TrackedCopies(round.upstream))
             next == IF ~listed \/ ~Judged(own, targets) THEN Verdict(FALSE)
                     ELSE IF others # {} THEN Verdict(TRUE)
                     ELSE IF ~Config[repo].mergeTree THEN Verdict(FALSE)
                     ELSE [round EXCEPT !.pc = "targets", !.left = targets]
         IN round' = [next EXCEPT !.whole = @ /\ remotes = Remotes /\ read]
    /\ Reads

(* One target: CommitOf and MergeTree; missing, failed or in conflict, it is   *)
(* passed over.                                                                *)
MergeTarget(n) ==
    /\ round.pc = "targets"
    /\ n \in round.left
    /\ LET left == round.left \ {n}
       IN \/ round' = [round EXCEPT !.left = left]
          \/ /\ tracking[n] # None /\ ~Conflicts(tracking[n], round.head)
             /\ round' = [round EXCEPT !.pc = "tree", !.left = left, !.target = n,
                            !.tree = MergedTree(tracking[n], round.head)]
    /\ Reads

(* TreeOf: the target's tree, which may have been fetched again meanwhile.     *)
CompareTrees ==
    /\ round.pc = "tree"
    /\ LET commit == tracking[round.target]
       IN round' = IF commit # None /\ round.tree = commits[commit].tree THEN Verdict(TRUE)
                   ELSE [round EXCEPT !.pc = "targets", !.target = <<>>, !.tree = <<>>]
    /\ Reads

NoneLeft ==
    /\ round.pc = "targets" /\ round.left = {}
    /\ round' = Verdict(FALSE)
    /\ Reads

EndRound ==
    /\ round.pc = "judged"
    /\ round' = Idle
    /\ Reads

(* The daemon ends at any time; the next one starts with the records.          *)
Restart ==
    /\ round # Idle
    /\ round' = Idle
    /\ asking' = [asking EXCEPT ![Daemon] = {}]
    /\ UNCHANGED <<sources, record, cache>>

-------------------------------------------------------------------------------
World ==
    \/ \E x \in Areas : Work(x) \/ \E r \in Branches : Colleague(r, x)
    \/ \E b \in Places : Switch(b)
    \/ \E r \in Branches : Push(r) \/ NewBranch(r) \/ Land(r) \/ DeleteBranch(r) \/ MoveDefault(r)
    \/ \E r \in Remotes : \E pruning \in BOOLEAN : FetchAll(r, pruning)

Others ==
    \/ \E r \in Remotes : DayPasses(r)
    \/ \E b \in LocalBranches : HourPasses(b) \/ OthersCatchup(b)
    \/ \E p \in Screens : \E r \in Remotes : FindsDue(p, r)
    \/ \E p \in Screens : Load(p) \/ Save(p)

Round ==
    \/ ReadHead \/ ReadBranch \/ ResolveToFetch \/ ResolveToReport \/ Load(Daemon) \/ Save(Daemon)
    \/ \E up \in Jobs : FetchOne(up)
    \/ EndFetch \/ Count \/ LookUpCatchup \/ ComputeCatchup \/ ReportCatchup
    \/ CheckAncestry \/ CompareTrees \/ NoneLeft \/ EndRound
    \/ \E n \in TrackingNames : MergeTarget(n)

Next == World \/ Others \/ Round \/ Restart

Spec == Init /\ [][Next]_vars

-------------------------------------------------------------------------------
(* Every command of the round succeeded, and no other branch was checked out   *)
(* between HeadCommit and CurrentBranch.                                       *)
Whole == round.whole /\ round.at = round.branch

(* The same name on another remote is the same branch.                         *)
Elsewhere(branch) == {r \in Branches : r.ref # Heads(branch)}

(* merged never says of work that is only in this branch that it is done: what *)
(* HEAD has made of every area has been in another branch of a remote.  Pushes *)
(* to any remote, pull requests, refspecs with many destinations and targets   *)
(* that move between the two commands of a comparison change nothing about it  *)
(* (docs/REFERENCE.md: "A push alone makes those copies contain HEAD, so they  *)
(* are not evidence").                                                         *)
NothingOnlyHere ==
    round.merged /\ Whole =>
      \A x \in Areas : \E r \in Elsewhere(round.branch) :
        remote[r] # None /\ \E c \in Past(remote[r]) : Version(c, x) = Version(round.head, x)

(* What NothingOnlyHere takes of the settings: no ref that comes from no branch *)
(* is also the copy of one (git refuses to fetch two refs into one), and what  *)
(* a branch follows is a branch, or known to come from none.  A pull request   *)
(* that a branch follows without a refspec for it is not known for one.        *)
ToldApart ==
    \A name \in Repos :
      /\ \A r \in RefsOf(name) : \A n \in TrackingNames :
           IsBranch(r.ref) /\ <<name, r, n>> \in Own => <<name, n>> \notin NonBranches
      /\ \A b \in LocalBranches : \A up \in Config[name].upstream[b] :
           IsBranch(up.ref) \/ \A n \in TrackingNames :
             <<name, up, n>> \in Tracks => <<name, n>> \in NonBranches

(* What is checked out is the default branch or a mergeTarget.                 *)
OnIntegrationBranch ==
    \/ default.ref = Heads(round.branch)
    \/ \E up \in MergeTargets : \E r \in up.from : r.ref = Heads(round.branch)

(* The checkout of an integration branch is never merged, whatever branches    *)
(* contain its HEAD and whoever else asks for the default branch, as long as   *)
(* the remote keeps its default branch (judge.go:98-101).                      *)
IntegrationCheckoutSilent ==
    round.merged /\ Whole /\ defaults = {default} /\ round.branch # Detached =>
      ~OnIntegrationBranch

(* What the daemon reports as catchup is what merging the two commits it names *)
(* would give, although the answer may be a record of another round or of a    *)
(* screen that wrote over it, from before HEAD or the upstream moved           *)
(* (judge.go:200, sync.go:453, collect.go:369).                                *)
CatchupTruth ==
    round.pc = "caught" /\ round.answer # "unknown" =>
      round.answer = Truth(round.tip, round.head)

-------------------------------------------------------------------------------
Pcs == {"idle", "branch", "integration", "fetch", "counts", "catchup", "compute", "caught",
        "merged", "targets", "tree", "judged"}
CommitRecords ==
    [past : SUBSET Commits, tree : [Areas -> Commits]]
Answers == {"none", "clean", "conflict", "unknown"}
Catchups ==
    [head : Commits \cup {None}, tip : Commits \cup {None}, answer : Answers,
     asked : {"this hour", "before"}]
RepoRecords == [default : SUBSET Branches, asked : {"never", "today", "before"}]

Rounds ==
    [pc : Pcs, head : Commits \cup {None}, at : Places, branch : Places, whole : BOOLEAN,
     upstream : SUBSET RefsOf(repo), remote : SUBSET Remotes, known : BOOLEAN,
     list : SUBSET [tracking : TrackingNames, from : SUBSET RefsOf(repo)],
     tip : Commits \cup {None}, answer : {"clean", "conflict", "unknown"},
     left : SUBSET TrackingNames, target : TrackingNames \cup {<<>>},
     tree : [Areas -> Commits] \cup {<<>>}, merged : BOOLEAN]

(* Every variable has its type: refs, records and the round name commits that  *)
(* there are.                                                                  *)
TypeOK ==
    /\ repo \in Repos
    /\ commits \in Seq(CommitRecords)
    /\ remote \in [RemoteRefs -> Commits \cup {None}]
    /\ tracking \in [TrackingNames -> Commits \cup {None}]
    /\ default \in Branches /\ defaults \subseteq Branches /\ deleted \subseteq RemoteRefs
    /\ alias \in [Remotes -> SUBSET TrackingNames]
    /\ place \in Places /\ tips \in [Places -> Commits] /\ switches \in Nat
    /\ record \in [Remotes -> RepoRecords]
    /\ cache \in [LocalBranches -> Catchups]
    /\ asking \in [{Daemon} \cup Screens ->
                      SUBSET [remote : Remotes, record : RepoRecords \cup {NotLoaded}]]
    /\ round \in Rounds
    /\ round.pc # "idle" => round.head \in Commits
    /\ round.pc \in {"compute", "caught"} => round.tip \in Commits
===============================================================================
