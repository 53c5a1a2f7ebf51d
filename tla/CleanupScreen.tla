---------------------------- MODULE CleanupScreen ----------------------------
(* The worktree screen: one event loop for the keys and for the results of     *)
(* three kinds of background work (gather, fetch and removal), each of them at *)
(* most once at a time, while people and agents go on working in the           *)
(* worktrees.  What is drawn is left out; the main checkout, locked and        *)
(* missing worktrees, which are blocked whatever happens, are in Verdicts.     *)
EXTENDS Verdicts, Integers, FiniteSets

CONSTANTS Number,      \* number of linked worktrees
          Start,       \* the worktrees as they are when the screen starts
          Flaky,       \* the worktrees in which git may fail to answer
          MaxDeeds     \* bound on the changes made by others and the keys d, D and r

(* A worktree stands for its path; worktrees are numbered in order of Label.   *)
Trees == 1..Number

(* A branch has its base commit 0, which every integration branch has, and at  *)
(* most two of its own; `pushed` is the commit of its tracking ref, `landed`   *)
(* the latest one whose content an integration branch has, pushed or not, and  *)
(* `lost` says whether the upstream is gone from the remote.                   *)
Commits == 0..2
Agents == {"closed", "resting", "working"}
TreeStates == [there : BOOLEAN, head : Commits, pushed : Commits, landed : Commits,
               lost : BOOLEAN, dirty : BOOLEAN, agent : Agents]

ASSUME BoundAssumption ==
    /\ Number \in Nat
    /\ Start \in [Trees -> TreeStates]
    /\ Flaky \subseteq Trees
    /\ MaxDeeds \in Nat

VARIABLES
    tree,         \* tree[t]: the worktree as it is, on disk and in herdr
    deeds,        \* number of those so far
    screen,       \* "open", "waiting" for a removal after the loop ended, "closed"
    assessing,    \* the rows are still those of the first inventory
    rows,         \* the rows of the table, as a function of the worktree
    cursor,       \* place of the selected row, from 0
    confirm,      \* the rows the question is about; none when nothing is asked
    heads,        \* the latest answer of ls-remote
    gathering,    \* the gather under way
    gatherAgain,  \* another gather was asked for meanwhile
    firstGather,  \* no result of a gather has come yet
    fetching,     \* a fetch is under way
    removing,     \* the removal under way
    quitAsked,    \* the screen is to close when the removal is over
    seen,         \* ghost: the table as it was when the question was asked
    approved,     \* ghost: the table that the user chose the removal from
    past,         \* ghost: what the target has been since its look began
    removed,      \* ghost: the worktrees removed by the screen
    shown         \* ghost: the table is by the latest heads, by older ones, or
                  \* the last gather failed

table == <<assessing, rows, cursor, confirm>>
work == <<gathering, gatherAgain, firstGather, fetching>>
world == <<tree, deeds>>
ghosts == <<seen, approved, past, removed, shown>>
vars == <<world, screen, table, heads, work, removing, quitAsked, ghosts>>

NoHead == -1
EmptyRow(open) == [head |-> NoHead, open |-> open, verdict |-> "blocked"]
NoRows == [t \in {} |-> EmptyRow(FALSE)]

(* The answer of ls-remote: the upstreams it did not list.                     *)
NoHeads == [known |-> FALSE, gone |-> {}]

-------------------------------------------------------------------------------
(* The worktrees.                                                              *)
Merged(w) == w.head <= w.landed
Ahead(w) == IF w.head > w.pushed THEN w.head - w.pushed ELSE 0

(* How a question to git may go: it fails where there is no worktree any more, *)
(* and may fail in a flaky one.                                                *)
Known(t) == IF ~tree[t].there THEN {FALSE} ELSE IF t \in Flaky THEN BOOLEAN ELSE {TRUE}

(* Facts as fillFacts finds them out for t, being as in w.  Heads of the remote answer `gone`;*)
(* without them the daemon's record does, if there is one, and that may be old.*)
(* A flaky git may also miss a merge.                                          *)
FactsOf(t, w, hs) ==
    [isMain : {FALSE}, locked : {FALSE}, prunable : {FALSE}, agentWorking : {FALSE},
     untouched : {~w.dirty}, untouchedKnown : Known(t),
     gone : IF hs.known THEN {t \in hs.gone} ELSE BOOLEAN,
     goneKnown : IF hs.known THEN {TRUE} ELSE BOOLEAN,
     merged : IF t \in Flaky THEN {FALSE, Merged(w)} ELSE {Merged(w)},
     ahead : {Ahead(w)}, countsKnown : Known(t), catchup : {"unknown"}]

(* Without HEAD nothing is known but the files.                                *)
HeadlessFacts(t) ==
    {[f EXCEPT !.goneKnown = FALSE, !.merged = FALSE, !.countsKnown = FALSE] :
        f \in FactsOf(t, tree[t], NoHeads)}

Judged(t, open, hs) ==
    {[head |-> tree[t].head, open |-> open, verdict |-> Assess(f)] :
        f \in IF tree[t].there THEN FactsOf(t, tree[t], hs) ELSE {}}
    \cup {[head |-> NoHead, open |-> open, verdict |-> Assess(f)] :
        f \in IF t \in Flaky \/ ~tree[t].there THEN HeadlessFacts(t) ELSE {}}

(* What the list and the agents' states tell of a worktree.                    *)
Sights == {"unlisted", "closed", "open", "blocked"}

(* What herdr answers: nothing, so that git lists the worktrees; the list; or  *)
(* the list and the agents.                                                    *)
Answers == {"none", "list", "agents"}

(* Only herdr knows what is open.  An open worktree is blocked when its agent  *)
(* works, or could not be asked about.                                         *)
Sight(t, answer) ==
    IF ~tree[t].there THEN "unlisted"
    ELSE IF answer = "none" \/ tree[t].agent = "closed" THEN "closed"
    ELSE IF answer = "agents" /\ tree[t].agent # "working" THEN "open"
    ELSE "blocked"

(* rowFor: a blocked worktree is not looked at.                                *)
RowsFor(t, sight, hs) ==
    IF sight = "blocked" THEN {EmptyRow(TRUE)} ELSE Judged(t, sight = "open", hs)

-------------------------------------------------------------------------------
(* The table.                                                                  *)
Order == [safe |-> 0, review |-> 1, keep |-> 2, blocked |-> 3]

Before(rs, t, u) ==
    \/ Order[rs[t].verdict] < Order[rs[u].verdict]
    \/ Order[rs[t].verdict] = Order[rs[u].verdict] /\ t < u

Place(rs, t) == Cardinality({u \in DOMAIN rs : Before(rs, u, t)})

Selected == {t \in DOMAIN rows : Place(rows, t) = cursor}

Clamp(rs, place) ==
    IF place < 0 \/ DOMAIN rs = {} THEN 0
    ELSE IF place >= Cardinality(DOMAIN rs) THEN Cardinality(DOMAIN rs) - 1
    ELSE place

SafeRows ==
    LET safe == {t \in DOMAIN rows : ~assessing /\ rows[t].verdict = "safe"}
    IN  [t \in safe |-> rows[t]]

-------------------------------------------------------------------------------
NoList == [t \in Trees |-> "unlisted"]
Idle == [at |-> "idle", heads |-> NoHeads, list |-> NoList]
Gather(hs) == [Idle EXCEPT !.at = "asked", !.heads = hs]
NoRemoval == [at |-> "idle", todo |-> NoRows, heads |-> NoHeads, row |-> EmptyRow(FALSE)]

(* A bug: a request during a gather is taken for answered by it.               *)
StartGatherOnce(hs) ==
    /\ gathering' = IF gathering.at = "idle" THEN Gather(hs) ELSE gathering
    /\ UNCHANGED gatherAgain

StartGather(hs) ==
    IF gathering.at = "idle"
    THEN gathering' = Gather(hs) /\ UNCHANGED gatherAgain
    ELSE gatherAgain' = TRUE /\ UNCHANGED gathering

(* A request during a fetch adds nothing; without a remote there is no fetch.  *)
StartFetch == fetching' = TRUE

(* controller.remove runs on its own, whatever becomes of the screen.          *)
StartRemoval(rs) ==
    removing' = [NoRemoval EXCEPT !.at = "checking", !.todo = rs, !.heads = heads]

(* newController lists the worktrees once; loop then starts the first gather.  *)
Init ==
    /\ tree = Start
    /\ deeds = 0
    /\ screen = "open"
    /\ assessing = TRUE
    /\ \E reached \in BOOLEAN :
         rows = [t \in {u \in Trees : Start[u].there} |->
                   EmptyRow(reached /\ Start[t].agent # "closed")]
    /\ cursor = 0
    /\ confirm = NoRows
    /\ heads = NoHeads
    /\ gathering = Gather(NoHeads)
    /\ gatherAgain = FALSE
    /\ firstGather = TRUE
    /\ fetching = FALSE
    /\ removing = NoRemoval
    /\ quitAsked = FALSE
    /\ seen = NoRows
    /\ approved = NoRows
    /\ past = {}
    /\ removed = {}
    /\ shown = "failed"

-------------------------------------------------------------------------------
(* The loop returns, and what it held is gone; a removal is waited for.        *)
EndLoop(next) ==
    /\ screen' = next
    /\ assessing' = TRUE /\ rows' = NoRows /\ cursor' = 0 /\ confirm' = NoRows
    /\ heads' = NoHeads
    /\ gathering' = Idle /\ gatherAgain' = FALSE
    /\ firstGather' = TRUE /\ fetching' = FALSE
    /\ shown' = "failed" /\ seen' = NoRows

(* Background work.                                                            *)

(* controller.gather begins with the list, and the agents' states.             *)
ListTrees ==
    /\ gathering.at = "asked"
    /\ \E answer \in Answers :
         gathering' = [gathering EXCEPT !.at = "listed",
                                        !.list = [t \in Trees |-> Sight(t, answer)]]
    /\ UNCHANGED <<world, screen, table, heads, gatherAgain, firstGather, fetching,
                   removing, quitAsked, ghosts>>

(* Then it judges the listed ones.                                             *)
Tables ==
    LET listed == {t \in Trees : gathering.list[t] # "unlisted"}
        possible == [t \in listed |-> RowsFor(t, gathering.list[t], gathering.heads)]
    IN  {rs \in [listed -> UNION {possible[t] : t \in listed}] :
           \A t \in listed : rs[t] \in possible[t]}

(* A bug: the cursor stays at its place.                                       *)
ReplaceRowsOnly(rs) ==
    /\ rows' = rs
    /\ assessing' = FALSE
    /\ cursor' = Clamp(rs, cursor)

(* A bug: the cursor is left beyond the rows when the selected one has gone.   *)
ReplaceRowsUnclamped(rs) ==
    /\ rows' = rs
    /\ assessing' = FALSE
    /\ LET kept == Selected \cap DOMAIN rs
       IN  cursor' \in IF kept = {} THEN {cursor} ELSE {Place(rs, t) : t \in kept}

(* The new rows; the selected worktree stays selected if it is still there.    *)
ReplaceRows(rs) ==
    /\ rows' = rs
    /\ assessing' = FALSE
    /\ LET kept == Selected \cap DOMAIN rs
       IN  cursor' \in IF kept = {} THEN {Clamp(rs, cursor)} ELSE {Place(rs, t) : t \in kept}

(* The loop gets the rows, or an error.  The first result of either kind       *)
(* starts the fetch, and a request that came meanwhile a new gather.           *)
GatherArrives ==
    /\ screen = "open"
    /\ \/ /\ gathering.at = "listed"
          /\ \E rs \in Tables : ReplaceRows(rs)
          /\ shown' = IF gathering.heads = heads THEN "latest" ELSE "older"
       \/ /\ gathering.at = "asked"
          /\ shown' = "failed"
          /\ UNCHANGED <<rows, assessing, cursor>>
    /\ firstGather' = FALSE
    /\ IF firstGather THEN StartFetch ELSE UNCHANGED fetching
    /\ gathering' = IF gatherAgain THEN Gather(heads) ELSE Idle
    /\ gatherAgain' = FALSE
    /\ UNCHANGED <<world, screen, confirm, heads, removing, quitAsked, seen, approved,
                   past, removed>>

(* controller.fetch: the heads of the remote, unless ls-remote fails.          *)
FetchArrives ==
    /\ screen = "open" /\ fetching
    /\ fetching' = FALSE
    /\ heads' \in {NoHeads, [known |-> TRUE, gone |-> {t \in Trees : tree[t].lost}]}
    /\ StartGather(heads')
    /\ shown' = IF shown = "latest" /\ heads' # heads THEN "older" ELSE shown
    /\ UNCHANGED <<world, screen, table, firstGather, removing, quitAsked, seen, approved,
                   past, removed>>

-------------------------------------------------------------------------------
(* The removal of several rows, one after the other in the order of the table; *)
(* each is looked at again in these steps.                                     *)
Looks == {"checking", "agents", "files", "head", "commits"}
Target == CHOOSE t \in DOMAIN removing.todo : \A u \in DOMAIN removing.todo : t <= u

Done(job) ==
    LET left == DOMAIN job.todo \ {Target}
    IN  IF left = {} THEN [NoRemoval EXCEPT !.at = "answered"]
        ELSE [job EXCEPT !.at = "checking", !.todo = [t \in left |-> job.todo[t]],
                         !.row = EmptyRow(FALSE)]

(* A bug: the commit is not compared.                                          *)
RemovalCheckPath(want, row) == row.open = want.open /\ row.verdict = "safe"

RemovalCheck(want, row) ==
    /\ row.head # NoHead /\ row.head = want.head
    /\ row.open = want.open
    /\ row.verdict = "safe"

(* Right before the removal everything is gathered anew, one command after the *)
(* other, while the world goes on; the row that comes of it must be the one    *)
(* that was chosen, and still safe.  First comes the list: herdr's, or git's,  *)
(* which knows nothing of what is open.                                        *)
CheckList ==
    /\ removing.at = "checking"
    /\ tree[Target].there
    /\ \E answered \in BOOLEAN :
         removing' = [removing EXCEPT !.at = "agents",
                        !.row = EmptyRow(answered /\ tree[Target].agent # "closed")]
    /\ past' = {tree[Target]}
    /\ UNCHANGED <<world, screen, table, heads, work, quitAsked, seen, approved, removed,
                   shown>>

(* agentStatuses: an agent at work, or a workspace herdr no longer has, blocks.*)
CheckAgents ==
    /\ removing.at = "agents"
    /\ removing.row.open => tree[Target].agent = "resting"
    /\ removing' = [removing EXCEPT !.at = "files"]
    /\ UNCHANGED <<world, screen, table, heads, work, quitAsked, ghosts>>

(* IsUntouched: only when it is known that nothing is uncommitted.             *)
CheckFiles ==
    /\ removing.at = "files"
    /\ tree[Target].there /\ ~tree[Target].dirty
    /\ removing' = [removing EXCEPT !.at = "head"]
    /\ UNCHANGED <<world, screen, table, heads, work, quitAsked, ghosts>>

CheckHead ==
    /\ removing.at = "head"
    /\ tree[Target].there
    /\ removing' = [removing EXCEPT !.at = "commits", !.row.head = tree[Target].head]
    /\ UNCHANGED <<world, screen, table, heads, work, quitAsked, ghosts>>

(* CountsBetween, gone and JudgeMerged: the commit they judge is the HEAD read *)
(* before, wherever the branch may be by now.                                  *)
CheckCommits ==
    /\ removing.at = "commits"
    /\ tree[Target].there
    /\ LET read == [tree[Target] EXCEPT !.head = removing.row.head, !.dirty = FALSE] IN
       \E f \in FactsOf(Target, read, removing.heads) :
         LET row == [removing.row EXCEPT !.verdict = Assess(f)] IN
         /\ RemovalCheck(removing.todo[Target], row)
         /\ removing' = [removing EXCEPT !.at = "removing", !.row = row]
    /\ UNCHANGED <<world, screen, table, heads, work, quitAsked, ghosts>>

(* Any of these commands may fail, or tell against the removal.                *)
PassOver ==
    /\ removing.at \in Looks
    /\ removing' = Done(removing)
    /\ past' = {}
    /\ UNCHANGED <<world, screen, table, heads, work, quitAsked, seen, approved, removed,
                   shown>>

(* herdr or git removes it, but never one with uncommitted work; or fails.     *)
RemoveTarget ==
    /\ removing.at = "removing"
    /\ removing' = Done(removing)
    /\ \/ /\ tree[Target].there /\ ~tree[Target].dirty
          /\ removing.todo[Target].open => tree[Target].agent # "closed"
          /\ tree' = [tree EXCEPT ![Target].there = FALSE, ![Target].agent = "closed"]
          /\ removed' = removed \cup {Target}
       \/ UNCHANGED <<tree, removed>>
    /\ past' = {}
    /\ UNCHANGED <<deeds, screen, table, heads, work, quitAsked, seen, approved, shown>>

(* A bug: the close request is forgotten.                                      *)
RemoveArrivesOpen ==
    /\ screen = "open" /\ removing.at = "answered"
    /\ removing' = NoRemoval
    /\ approved' = NoRows
    /\ StartGather(heads)
    /\ UNCHANGED <<world, screen, table, heads, firstGather, fetching, quitAsked, seen,
                   past, removed, shown>>

(* The loop gets the result: it closes if that was asked for, and otherwise    *)
(* gathers again.                                                              *)
RemoveArrives ==
    /\ screen = "open" /\ removing.at = "answered"
    /\ removing' = NoRemoval
    /\ approved' = NoRows
    /\ \/ quitAsked /\ EndLoop("closed")
       \/ /\ ~quitAsked
          /\ StartGather(heads)
          /\ UNCHANGED <<screen, table, heads, firstGather, fetching, seen, shown>>
    /\ UNCHANGED <<world, quitAsked, past, removed>>

(* loop's deferred receive, after the input or the context has ended.          *)
RemovalAwaited ==
    /\ screen = "waiting" /\ removing.at = "answered"
    /\ screen' = "closed"
    /\ removing' = NoRemoval
    /\ approved' = NoRows
    /\ UNCHANGED <<world, table, heads, work, quitAsked, seen, past, removed, shown>>

-------------------------------------------------------------------------------
(* The keys.  While a question is on the screen every key is its answer.       *)
Asked == confirm # NoRows
Key == screen = "open"
Busy == removing.at # "idle"
Deed == deeds < MaxDeeds /\ deeds' = deeds + 1

MoveCursor ==
    /\ Key /\ ~Asked
    /\ \E delta \in {-1, 1} : cursor' = Clamp(rows, cursor + delta)
    /\ UNCHANGED <<world, screen, assessing, rows, confirm, heads, work, removing,
                   quitAsked, ghosts>>

(* d: the selected row, if it is safe and nothing is being removed.            *)
RemoveSelected ==
    /\ Key /\ ~Asked /\ ~Busy
    /\ Deed
    /\ \E t \in Selected \cap DOMAIN SafeRows : StartRemoval([u \in {t} |-> rows[u]])
    /\ approved' = rows
    /\ UNCHANGED <<tree, screen, table, heads, work, quitAsked, seen, past, removed, shown>>

(* D: the question, even while something is being removed.                     *)
RemoveAllSafe ==
    /\ Key /\ ~Asked
    /\ Deed
    /\ DOMAIN SafeRows # {}
    /\ confirm' = SafeRows
    /\ seen' = rows
    /\ UNCHANGED <<tree, screen, assessing, rows, cursor, heads, work, removing,
                   quitAsked, approved, past, removed, shown>>

(* A bug: the rows that are safe by now are removed.                           *)
ConfirmYesAnew ==
    /\ Key /\ Asked
    /\ confirm' = NoRows /\ seen' = NoRows
    /\ IF Busy \/ DOMAIN SafeRows = {} THEN UNCHANGED <<removing, approved>>
       ELSE StartRemoval(SafeRows) /\ approved' = seen
    /\ UNCHANGED <<world, screen, assessing, rows, cursor, heads, work, quitAsked,
                   past, removed, shown>>

(* y: the rows of the question are removed, unless a removal is under way.     *)
ConfirmYes ==
    /\ Key /\ Asked
    /\ confirm' = NoRows /\ seen' = NoRows
    /\ IF Busy THEN UNCHANGED <<removing, approved>>
       ELSE StartRemoval(confirm) /\ approved' = seen
    /\ UNCHANGED <<world, screen, assessing, rows, cursor, heads, work, quitAsked,
                   past, removed, shown>>

ConfirmNo ==
    /\ Key /\ Asked
    /\ confirm' = NoRows /\ seen' = NoRows
    /\ UNCHANGED <<world, screen, assessing, rows, cursor, heads, work, removing,
                   quitAsked, approved, past, removed, shown>>

Refresh ==
    /\ Key /\ ~Asked
    /\ Deed
    /\ StartFetch
    /\ UNCHANGED <<tree, screen, table, heads, gathering, gatherAgain, firstGather,
                   removing, quitAsked, ghosts>>

(* q, Esc or Ctrl-C (Ctrl-C also as an answer): during a removal it is noted.  *)
Quit ==
    /\ Key
    /\ \/ ~Busy /\ EndLoop("closed") /\ UNCHANGED quitAsked
       \/ /\ Busy
          /\ quitAsked' = TRUE
          /\ confirm' = NoRows /\ seen' = NoRows
          /\ UNCHANGED <<screen, assessing, rows, cursor, heads, work, shown>>
    /\ UNCHANGED <<world, removing, approved, past, removed>>

(* Enter: herdr shows the selected worktree and the screen closes.             *)
Open ==
    /\ Key /\ ~Asked /\ ~Busy
    /\ Selected # {}
    /\ EndLoop("closed")
    /\ UNCHANGED <<world, removing, quitAsked, approved, past, removed>>

(* The end of the input, or of the context.                                    *)
InputEnds ==
    /\ Key
    /\ EndLoop(IF Busy THEN "waiting" ELSE "closed")
    /\ UNCHANGED <<world, removing, quitAsked, approved, past, removed>>

-------------------------------------------------------------------------------
(* What people and agents do meanwhile: edit, commit, push, merge, delete an   *)
(* upstream, open and close, work and rest, or remove the worktree.            *)
Successors(w) ==
    {[w EXCEPT !.dirty = ~@]}
    \cup {[w EXCEPT !.head = h] : h \in {0, w.head + 1} \cap Commits}
    \cup {[w EXCEPT !.head = h, !.dirty = FALSE] : h \in {0, w.head + 1} \cap Commits}
    \cup {[w EXCEPT !.pushed = w.head, !.lost = FALSE], [w EXCEPT !.lost = TRUE]}
    \cup {[w EXCEPT !.landed = h] : h \in {w.pushed, w.head}}
    \cup {[w EXCEPT !.agent = a] : a \in Agents}
    \cup {[w EXCEPT !.there = FALSE, !.agent = "closed"]}

Change ==
    /\ screen # "closed"
    /\ Deed
    /\ \E t \in {u \in Trees : tree[u].there} : \E w \in Successors(tree[t]) \ {tree[t]} :
         tree' = [tree EXCEPT ![t] = w]
    /\ past' = IF past = {} THEN {} ELSE past \cup {tree'[Target]}
    /\ UNCHANGED <<screen, table, heads, work, removing, quitAsked, seen, approved, removed,
                   shown>>

Removal == CheckList \/ CheckAgents \/ CheckFiles \/ CheckHead \/ CheckCommits \/ PassOver
           \/ RemoveTarget
Background == ListTrees \/ Removal
Results == GatherArrives \/ FetchArrives \/ RemoveArrives \/ RemovalAwaited
Keys == \/ MoveCursor \/ RemoveSelected \/ RemoveAllSafe \/ ConfirmYes \/ ConfirmNo
        \/ Refresh \/ Quit \/ Open \/ InputEnds

Next == Background \/ Results \/ Keys \/ Change

Spec == Init /\ [][Next]_vars

(* The removal's commands have their time limits, and the loop takes what has  *)
(* come: select chooses fairly among the channels that are ready.              *)
FairSpec == Spec /\ WF_vars(Removal \/ RemoveArrives \/ RemovalAwaited)

-------------------------------------------------------------------------------
Heads == [known : BOOLEAN, gone : SUBSET Trees]
Rows == [head : Commits \cup {NoHead}, open : BOOLEAN,
         verdict : {"safe", "review", "keep", "blocked"}]
PartialRows == UNION {[ts -> Rows] : ts \in SUBSET Trees}
Gatherings == [at : {"idle", "asked", "listed"}, heads : Heads, list : [Trees -> Sights]]
Removals == [at : Looks \cup {"idle", "removing", "answered"}, todo : PartialRows,
             heads : Heads, row : Rows]

(* Every variable has its type, the cursor is on a row, and a removal has rows *)
(* to remove exactly until it has answered.                                    *)
TypeOK ==
    /\ tree \in [Trees -> TreeStates]
    /\ deeds \in 0..MaxDeeds
    /\ screen \in {"open", "waiting", "closed"}
    /\ assessing \in BOOLEAN
    /\ rows \in PartialRows
    /\ cursor \in Nat
    /\ confirm \in PartialRows
    /\ heads \in Heads
    /\ gathering \in Gatherings
    /\ gatherAgain \in BOOLEAN
    /\ firstGather \in BOOLEAN
    /\ fetching \in BOOLEAN
    /\ removing \in Removals
    /\ quitAsked \in BOOLEAN
    /\ seen \in PartialRows /\ approved \in PartialRows
    /\ past \subseteq TreeStates
    /\ past # {} => removing.at \in Looks \cup {"removing"}
    /\ removed \subseteq Trees
    /\ shown \in {"latest", "older", "failed"}
    /\ removing.at \in Looks \cup {"removing"} <=> DOMAIN removing.todo # {}
    /\ cursor > 0 => cursor < Cardinality(DOMAIN rows)

(* Only what the table showed as safe, and just as it showed it, is removed:   *)
(* the table at the d, or at the D that the y answers.  Results that come in   *)
(* while the question waits neither widen nor replace the choice               *)
(* (model.go:71-72).                                                           *)
OnlyShownRemoved ==
    \A t \in DOMAIN removing.todo :
      /\ t \in DOMAIN approved
      /\ removing.todo[t] = approved[t]
      /\ approved[t].verdict = "safe"

Secured(w, commit) == commit <= w.landed \/ commit <= w.pushed

(* A removal command is given only for a worktree that was looked at anew, with*)
(* people and agents at work meanwhile: since the look began it has once been  *)
(* there with nothing uncommitted, its HEAD has been the very commit that the  *)
(* user was shown, that commit has been in the remote or in an integration     *)
(* branch, and the agent of an open one has been seen at rest (run.go:199-205).*)
CheckedAtTheEnd ==
    removing.at = "removing" =>
      LET want == removing.todo[Target] IN
      /\ \E w \in past : w.there /\ ~w.dirty
      /\ \E w \in past : w.head = want.head
      /\ \E w \in past : Secured(w, want.head)
      /\ want.open => \E w \in past : w.agent = "resting"

(* When all is quiet after a gather that went well, the table was judged by    *)
(* the latest heads and shows nothing that the screen has removed: no late     *)
(* result of an earlier gather survives (run.go:264-266).                      *)
TableCatchesUp ==
    gathering.at = "idle" /\ ~Busy /\ screen = "open" /\ shown # "failed" =>
      /\ shown = "latest"
      /\ DOMAIN rows \cap removed = {}

(* Rows that are replaced leave the selection where it was, as long as the     *)
(* worktree is listed (docs/REFERENCE.md:171-172), under the same path: the    *)
(* loop compares paths as they are given, and a list of git's may write one    *)
(* otherwise than herdr's.  Or else a d pressed at that moment would remove    *)
(* another one.                                                                *)
SelectionKept ==
    [][screen' = "open" /\ rows' # rows => Selected \cap DOMAIN rows' \subseteq Selected']_vars

(* A close request during a removal is granted in the end.                     *)
QuitCloses == quitAsked ~> screen = "closed"

(* A worktree that is open all through the look, and whose agent cannot be     *)
(* asked about, is not removed (docs/REFERENCE.md:207-208).                    *)
UnknownAgentProtected ==
    removing.at = "removing" /\ (\A w \in past : w.agent # "closed") =>
      removing.todo[Target].open
===============================================================================
