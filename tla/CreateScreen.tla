----------------------------- MODULE CreateScreen -----------------------------
(* The popup that creates a worktree: one event loop for the keys, the fetches *)
(* of the candidates for a base, the lookup of the default branch, which       *)
(* brings a new list of candidates, and the creation itself.  How a creation   *)
(* protects its base is in PopupProtection; here it succeeds or fails.         *)
(*                                                                             *)
(* A candidate is told by its ref.  A name is a stem with a number, 1 for none.*)
(* The query of the menu is the set of refs whose label contains it.  The      *)
(* status of the current branch is "" for every count of commits behind.  The  *)
(* view of a long message, in which nothing but closing it works, is left out. *)
EXTENDS Integers, FiniteSets, Sequences

CONSTANTS Refs,       \* the refs that may be candidates
          NoRef,      \* the menu has nothing to highlight
          Blank,      \* a name that has been deleted altogether
          NameOf,     \* NameOf[r]: the name a worktree on r would get
          First,      \* the list of candidates when the popup opens
          Later,      \* the lists that the lookup may bring
          Queries,    \* the queries a user may type, each a set of refs
          Typed,      \* the names a user may type, here or elsewhere
          MaxTyped    \* bound on the branches made elsewhere and names typed

Kinds == {"current", "upstream", "default", "merge target", "local", "remote"}
Statuses == {"", "up to date", "not fetched", "fetching", "fetch failed"}

RefsOf(l) == {l[i].ref : i \in DOMAIN l}
Names == ({NameOf[r][1] : r \in Refs} \X Nat) \cup Typed

ASSUME ListAssumption ==
    \A l \in {First} \cup Later :
      /\ l \in Seq([ref : Refs, kind : Kinds]) /\ l # <<>>
      /\ \A i, j \in DOMAIN l : l[i].ref = l[j].ref => i = j

ASSUME NameAssumption ==
    /\ NoRef \notin Refs
    /\ \A r \in Refs : /\ NameOf[r] = <<NameOf[r][1], NameOf[r][2]>>
                       /\ NameOf[r][2] \in Nat \ {0}
    /\ \A q \in Queries : q \subseteq Refs
    /\ MaxTyped \in Nat

VARIABLES
    locals,    \* the names of the local branches of the repository
    tracked,   \* the refs that have been fetched at some time, by anybody
    deeds,     \* branches made elsewhere and names typed so far
    screen,    \* "open", "waiting" for a creation after the loop ended, "closed"
    list,      \* the candidates: a sequence of [ref, kind]
    status,    \* status[r]: the status of the candidate r
    selected,  \* the place of the confirmed base in the list
    menu,      \* the menu of bases: open or not, its highlight, its query
    focus,     \* the field that has the focus
    name,      \* the content of the name field
    edited,    \* the user has edited it
    taken,     \* the names that a suggestion avoids
    creating,  \* the creation under way
    asked,     \* the refs whose fetch has been started
    jobs,      \* jobs[r]: the fetch of r
    lookup,    \* the lookup of the default branch is under way
    chosen,    \* ghost: the base as the user knows it
    fetched,   \* ghost: the refs that this popup has fetched
    seen,      \* ghost: all names that were reported as taken
    missed     \* ghost: a result came during a creation, without a new suggestion

repo == <<locals, tracked, deeds>>
form == <<menu, focus, name, edited>>
bases == <<list, status, selected>>
work == <<asked, jobs, lookup>>
ghosts == <<chosen, fetched, seen, missed>>
vars == <<repo, screen, bases, form, taken, creating, work, ghosts>>

NoCreation == [on |-> FALSE, name |-> Blank, base |-> NoRef, kind |-> "current"]
NoJob == [at |-> "none", ok |-> FALSE, names |-> {}]
Busy == creating.on

Base == list[selected]
Place(l, r) == CHOOSE i \in DOMAIN l : l[i].ref = r
KindIn(l, r) == l[Place(l, r)].kind

(* Candidates of these kinds have an upstream to be fetched from.              *)
OfRemote(kind) == kind \notin {"current", "local"}

(* AutoName: the name itself, or the same stem with the next free number.      *)
AutoName(n, used) ==
    IF n \notin used THEN n
    ELSE LET free == {k \in (n[2] + 1)..(n[2] + 1 + Cardinality(used)) : <<n[1], k>> \notin used}
         IN  <<n[1], CHOOSE k \in free : \A j \in free : k <= j>>

(* takenNames: the local branches and those of the remotes, as far as fetched. *)
TakenNames(refs) == locals \cup {NameOf[r] : r \in refs}

-------------------------------------------------------------------------------
(* The menu.                                                                   *)
Closed == [open |-> FALSE, index |-> 1, ref |-> NoRef, query |-> Refs]

Matches(l, query) == {i \in DOMAIN l : l[i].ref \in query}
Least(is) == CHOOSE i \in is : \A j \in is : i <= j

Highlight(l, m, i) == [m EXCEPT !.index = i, !.ref = l[i].ref]

(* filterMenu: the highlight stays if it matches, or goes to the first match.  *)
Filtered(l, m) ==
    LET matches == Matches(l, m.query)
        same == {i \in matches : l[i].ref = m.ref}
    IN  IF matches = {} THEN [m EXCEPT !.index = 0, !.ref = NoRef]
        ELSE Highlight(l, m, Least(IF same = {} THEN matches ELSE same))

(* The menu after a result: it follows its highlight, or closes without it.    *)
Reconciled(l, m) ==
    IF ~m.open THEN m
    ELSE IF m.ref = NoRef THEN Filtered(l, m)
    ELSE IF m.ref \in RefsOf(l) \cap m.query THEN Highlight(l, m, Place(l, m.ref))
    ELSE Closed

(* The suggestion for the base at place i; names that were typed stay.         *)
Suggest(l, i, used) ==
    name' = IF edited THEN name ELSE AutoName(NameOf[l[i].ref], used)

(* A bug: the menu is left alone once the name was edited.                     *)
AutoNameAndMenuUnlessEdited(l, i, used) ==
    /\ Suggest(l, i, used)
    /\ menu' = IF edited THEN menu ELSE Reconciled(l, menu)
    /\ missed' = FALSE

(* CreateModel.autoName, which a result calls only while nothing is created.   *)
AutoNameAndMenu(l, i, used) ==
    /\ Suggest(l, i, used)
    /\ menu' = Reconciled(l, menu)
    /\ missed' = FALSE

Settle(l, i, used) ==
    IF Busy THEN missed' = TRUE /\ UNCHANGED <<menu, name>>
    ELSE AutoNameAndMenu(l, i, used)

-------------------------------------------------------------------------------
(* The fetches.                                                                *)

(* startFetch: every candidate of a remote once, those of the long tail only   *)
(* when they are the base.                                                     *)
Due(l, i) ==
    {r \in RefsOf(l) \ asked :
       OfRemote(KindIn(l, r)) /\ (KindIn(l, r) = "remote" => r = l[i].ref)}

StartFetch(l, i, st) ==
    /\ asked' = asked \cup Due(l, i)
    /\ jobs' = [r \in Refs |-> IF r \in Due(l, i) THEN [NoJob EXCEPT !.at = "running"]
                               ELSE jobs[r]]
    /\ status' = [r \in Refs |-> IF r \in Due(l, i) THEN "fetching" ELSE st[r]]

(* What candidates says of one that was not in the list before.                *)
Fresh(kind) ==
    CASE kind = "current" -> {"", "up to date"}
      [] kind = "local" -> {"up to date"}
      [] kind = "remote" -> {"not fetched"}
      [] OTHER -> {"up to date", "not fetched"}

FreshStatuses(l, known) ==
    {st \in [Refs -> Statuses] :
       \A r \in Refs : IF r \notin RefsOf(l) THEN st[r] = ""
                       ELSE IF r \in known THEN st[r] = status[r]
                       ELSE st[r] \in Fresh(KindIn(l, r))}

(* newCreateController, and loop up to its first draw.                         *)
Init ==
    /\ locals = {NameOf[First[i].ref] : i \in {j \in DOMAIN First : ~OfRemote(First[j].kind)}}
    /\ tracked = {First[i].ref : i \in {j \in DOMAIN First : OfRemote(First[j].kind)}}
    /\ deeds = 0
    /\ screen = "open"
    /\ list = First
    /\ selected = 1
    /\ taken = TakenNames(RefsOf(First))
    /\ menu = Closed
    /\ focus = "name"
    /\ name = AutoName(NameOf[First[1].ref], taken)
    /\ edited = FALSE
    /\ creating = NoCreation
    /\ asked = {First[i].ref : i \in {j \in DOMAIN First :
                  OfRemote(First[j].kind) /\ (First[j].kind = "remote" => j = 1)}}
    /\ jobs = [r \in Refs |-> IF r \in asked THEN [NoJob EXCEPT !.at = "running"] ELSE NoJob]
    /\ status \in [Refs -> Statuses]
    /\ \A r \in Refs : IF r \in asked THEN status[r] = "fetching"
                      ELSE IF r \in RefsOf(First) THEN status[r] \in Fresh(KindIn(First, r))
                      ELSE status[r] = ""
    /\ lookup \in BOOLEAN
    /\ chosen = First[1].ref
    /\ fetched = {}
    /\ seen = taken
    /\ missed = FALSE

(* A fetch ends, and what it read of the names waits in the channel.           *)
FetchEnds(r) ==
    /\ screen = "open" /\ jobs[r].at = "running"
    /\ \E ok \in BOOLEAN :
         /\ tracked' = IF ok THEN tracked \cup {r} ELSE tracked
         /\ \E names \in {TakenNames(tracked'), {}} :
              jobs' = [jobs EXCEPT ![r] = [at |-> "done", ok |-> ok, names |-> names]]
    /\ UNCHANGED <<locals, deeds, screen, bases, form, taken, creating, asked, lookup, ghosts>>

(* What the fetch of r says of r, and of the current branch if that follows r. *)
CurrentNow(r) ==
    IF jobs[r].ok THEN {"", "up to date"} ELSE {"fetch failed"}

StatusAfter(r, now) ==
    [s \in Refs |->
       IF ~({r, s} \subseteq RefsOf(list)) THEN status[s]
       ELSE IF s = r THEN (IF jobs[r].ok THEN "up to date" ELSE "fetch failed")
       ELSE IF KindIn(list, s) = "current" /\ KindIn(list, r) = "upstream" THEN now
       ELSE status[s]]

(* A bug: a result's names replace the known ones.                             *)
FetchArrivesForgetting(r) ==
    /\ screen = "open" /\ jobs[r].at = "done"
    /\ jobs' = [jobs EXCEPT ![r] = NoJob]
    /\ \E now \in CurrentNow(r) : status' = StatusAfter(r, now)
    /\ fetched' = IF jobs[r].ok THEN fetched \cup {r} ELSE fetched
    /\ taken' = IF jobs[r].names = {} THEN taken ELSE jobs[r].names
    /\ seen' = seen \cup jobs[r].names
    /\ Settle(list, selected, taken')
    /\ UNCHANGED <<repo, screen, list, selected, focus, edited, creating, asked, lookup, chosen>>

(* The loop gets the result of a fetch.                                        *)
FetchArrives(r) ==
    /\ screen = "open" /\ jobs[r].at = "done"
    /\ jobs' = [jobs EXCEPT ![r] = NoJob]
    /\ \E now \in CurrentNow(r) : status' = StatusAfter(r, now)
    /\ fetched' = IF jobs[r].ok THEN fetched \cup {r} ELSE fetched
    /\ taken' = taken \cup jobs[r].names
    /\ seen' = seen \cup jobs[r].names
    /\ Settle(list, selected, taken')
    /\ UNCHANGED <<repo, screen, list, selected, focus, edited, creating, asked, lookup, chosen>>

(* A bug: the place of the base is kept, whatever is there now.                *)
PlaceKept(l) == IF selected \in DOMAIN l THEN selected ELSE 1

(* Where the base is in a new list; the first candidate if it is not.          *)
PlaceOfBase(l) == IF Base.ref \in RefsOf(l) THEN Place(l, Base.ref) ELSE 1

(* A bug: new candidates are not fetched until the base changes.               *)
ReplaceUnfetched(l) ==
    /\ list' = l
    /\ selected' = PlaceOfBase(l)
    /\ status' \in FreshStatuses(l, RefsOf(list))
    /\ UNCHANGED <<asked, jobs>>

(* The new list; a candidate that was in the old one keeps its status.         *)
ReplaceCandidates(l) ==
    /\ list' = l
    /\ selected' = PlaceOfBase(l)
    /\ \E st \in FreshStatuses(l, RefsOf(list)) : StartFetch(l, selected', st)

(* The loop gets the lookup's list, or its error.                              *)
LookupArrives ==
    /\ screen = "open" /\ lookup
    /\ lookup' = FALSE
    /\ \/ \E l \in Later :
            /\ ReplaceCandidates(l)
            /\ chosen' = IF chosen \in RefsOf(l) THEN chosen ELSE l[1].ref
            /\ Settle(l, selected', taken)
       \/ /\ Settle(list, selected, taken)
          /\ UNCHANGED <<bases, asked, jobs, chosen>>
    /\ UNCHANGED <<repo, screen, focus, edited, taken, creating, fetched, seen>>

-------------------------------------------------------------------------------
(* The loop returns, its context is cancelled and what it held is gone.        *)
EndLoop(next) ==
    /\ screen' = next
    /\ list' = First /\ selected' = 1 /\ status' = [r \in Refs |-> ""]
    /\ menu' = Closed /\ focus' = "name" /\ name' = Blank /\ edited' = FALSE
    /\ taken' = {} /\ asked' = {} /\ jobs' = [r \in Refs |-> NoJob] /\ lookup' = FALSE
    /\ chosen' = First[1].ref /\ fetched' = {} /\ seen' = {} /\ missed' = FALSE

(* create ends well, or fails, perhaps after its branch was made.              *)
CreateArrives ==
    /\ screen = "open" /\ Busy
    /\ creating' = NoCreation
    /\ \/ EndLoop("closed") /\ locals' = locals \cup {creating.name}
       \/ /\ locals' \in {locals, locals \cup {creating.name}}
          /\ UNCHANGED <<screen, bases, form, taken, work, ghosts>>
    /\ UNCHANGED <<tracked, deeds>>

(* loop's deferred receive.                                                    *)
CreateAwaited ==
    /\ screen = "waiting" /\ Busy
    /\ screen' = "closed"
    /\ creating' = NoCreation
    /\ locals' \in {locals, locals \cup {creating.name}}
    /\ UNCHANGED <<tracked, deeds, bases, form, taken, work, ghosts>>

-------------------------------------------------------------------------------
(* The keys; while a worktree is created only cancelling works.                *)
Key(field) == screen = "open" /\ ~Busy /\ focus = field
Deed == deeds < MaxTyped /\ deeds' = deeds + 1

(* A bug: the result of a creation is waited for although there is none.       *)
CancelAwaiting ==
    /\ screen = "open"
    /\ EndLoop("waiting")
    /\ UNCHANGED <<repo, creating>>

Cancel ==
    /\ screen = "open"
    /\ EndLoop(IF Busy THEN "waiting" ELSE "closed")
    /\ UNCHANGED <<repo, creating>>

Tab ==
    /\ screen = "open" /\ ~Busy
    /\ focus' = IF focus = "name" THEN "base" ELSE "name"
    /\ menu' = Closed
    /\ UNCHANGED <<repo, screen, bases, name, edited, taken, creating, work, ghosts>>

EditName ==
    /\ Key("name")
    /\ Deed
    /\ name' \in Typed \cup {Blank, name}
    /\ edited' = TRUE
    /\ UNCHANGED <<locals, tracked, screen, bases, menu, focus, taken, creating, work, ghosts>>

OpenMenu ==
    /\ Key("base") /\ ~menu.open
    /\ menu' = [open |-> TRUE, index |-> selected, ref |-> Base.ref, query |-> Refs]
    /\ UNCHANGED <<repo, screen, bases, focus, name, edited, taken, creating, work, ghosts>>

CloseMenu ==
    /\ Key("base") /\ menu.open
    /\ menu' = Closed
    /\ UNCHANGED <<repo, screen, bases, focus, name, edited, taken, creating, work, ghosts>>

(* One up or down among the matches.                                           *)
MoveHighlight ==
    /\ Key("base") /\ menu.open /\ menu.ref # NoRef
    /\ \E i \in Matches(list, menu.query) \ {menu.index} :
         /\ \A j \in Matches(list, menu.query) :
              ~(menu.index < j /\ j < i) /\ ~(i < j /\ j < menu.index)
         /\ menu' = Highlight(list, menu, i)
    /\ UNCHANGED <<repo, screen, bases, focus, name, edited, taken, creating, work, ghosts>>

(* A character more or less in the query.                                      *)
Search ==
    /\ Key("base") /\ menu.open
    /\ \E q \in Queries \cup {Refs} :
         /\ q \subseteq menu.query \/ menu.query \subseteq q
         /\ menu' = Filtered(list, [menu EXCEPT !.query = q])
    /\ UNCHANGED <<repo, screen, bases, focus, name, edited, taken, creating, work, ghosts>>

(* A bug: a base of the long tail is taken without fetching it.                *)
ConfirmUnfetched ==
    /\ Key("base") /\ menu.open /\ menu.ref \in RefsOf(list) \cap menu.query
    /\ selected' = Place(list, menu.ref)
    /\ menu' = Closed
    /\ Suggest(list, selected', taken) /\ missed' = FALSE
    /\ UNCHANGED <<status, asked, jobs>>
    /\ chosen' = list[menu.index].ref
    /\ UNCHANGED <<repo, screen, list, focus, edited, taken, creating, lookup, fetched, seen>>

(* Enter in the menu: the highlighted base, fetched if it is a new one.        *)
ConfirmBase ==
    /\ Key("base") /\ menu.open /\ menu.ref \in RefsOf(list) \cap menu.query
    /\ selected' = Place(list, menu.ref)
    /\ menu' = Closed
    /\ Suggest(list, selected', taken) /\ missed' = FALSE
    /\ IF menu.ref # Base.ref THEN StartFetch(list, selected', status)
       ELSE UNCHANGED <<status, asked, jobs>>
    /\ chosen' = list[menu.index].ref
    /\ UNCHANGED <<repo, screen, list, focus, edited, taken, creating, lookup, fetched, seen>>

(* Enter in the name field.                                                    *)
Ready == Base.kind = "current" \/ status[Base.ref] = "up to date"

Submit ==
    /\ Key("name")
    /\ name # Blank
    /\ Ready
    /\ creating' = [on |-> TRUE, name |-> name, base |-> Base.ref, kind |-> Base.kind]
    /\ UNCHANGED <<repo, screen, bases, form, taken, work, ghosts>>

(* Elsewhere a branch is made.                                                 *)
BranchMade ==
    /\ screen # "closed"
    /\ Deed
    /\ \E n \in Typed \ locals : locals' = locals \cup {n}
    /\ UNCHANGED <<tracked, screen, bases, form, taken, creating, work, ghosts>>

Results == (\E r \in Refs : FetchEnds(r) \/ FetchArrives(r)) \/ LookupArrives
Creation == CreateArrives \/ CreateAwaited
Keys == \/ Cancel \/ Tab \/ EditName \/ OpenMenu \/ CloseMenu \/ MoveHighlight \/ Search
        \/ ConfirmBase \/ Submit

Next == Results \/ Creation \/ Keys \/ BranchMade

Spec == Init /\ [][Next]_vars

(* Fetches and creations have their time limits, and select takes what has     *)
(* come.  Each fetch ends but once, so nothing need be said of a single one.   *)
Answers == CreateAwaited \/ \E r \in Refs : FetchEnds(r) \/ FetchArrives(r)

FairSpec == Spec /\ WF_vars(Answers)

-------------------------------------------------------------------------------
(* Every variable has its type, and no menu is open while a worktree is made.  *)
TypeOK ==
    /\ locals \subseteq Names /\ tracked \subseteq Refs /\ deeds \in 0..MaxTyped
    /\ screen \in {"open", "waiting", "closed"}
    /\ list \in {First} \cup Later
    /\ status \in [Refs -> Statuses]
    /\ selected \in DOMAIN list
    /\ menu \in [open : BOOLEAN, index : Nat, ref : Refs \cup {NoRef}, query : SUBSET Refs]
    /\ focus \in {"name", "base"}
    /\ name \in Names \cup {Blank}
    /\ edited \in BOOLEAN
    /\ taken \subseteq Names
    /\ creating \in [on : BOOLEAN, name : Names \cup {Blank}, base : Refs \cup {NoRef}, kind : Kinds]
    /\ asked \subseteq Refs
    /\ jobs \in [Refs -> [at : {"none", "running", "done"}, ok : BOOLEAN, names : SUBSET Names]]
    /\ lookup \in BOOLEAN
    /\ chosen \in Refs /\ fetched \subseteq Refs /\ seen \subseteq Names /\ missed \in BOOLEAN
    /\ menu.open => focus = "base" /\ ~Busy

(* A worktree is based on a branch of a remote only after this popup has       *)
(* fetched that branch (docs/REFERENCE.md:279).                                *)
BaseFetched == screen = "open" /\ Busy /\ OfRemote(creating.kind) => creating.base \in fetched

(* A new list of candidates leaves the base where the user put it, as long as  *)
(* it is listed; the creation has the base that was drawn as confirmed.        *)
BaseAsConfirmed == screen = "open" => Base.ref = chosen

(* What is drawn as highlighted is what Enter confirms (create.go:151-152).    *)
HighlightHonest ==
    menu.open /\ menu.ref # NoRef =>
      /\ menu.index \in DOMAIN list /\ list[menu.index].ref = menu.ref
      /\ menu.ref \in menu.query

(* A suggested name comes from the base and avoids every name reported so far  *)
(* (docs/REFERENCE.md:252-253), whatever order the results came in.  Results   *)
(* that come during a creation which then fails are the exception: until the   *)
(* next result the name stays as it was.                                       *)
SuggestionFollows ==
    screen = "open" /\ ~edited /\ ~missed => name \notin seen /\ name[1] = NameOf[Base.ref][1]

(* Creation waits for the fetch of the base no longer than that takes: a base  *)
(* of a remote is fetched or its fetch has failed in the end.                  *)
WaitEnds ==
    \A r \in Refs :
      (screen = "open" /\ Base.ref = r /\ OfRemote(Base.kind))
        ~> (screen # "open" \/ Base.ref # r \/ status[r] \in {"up to date", "fetch failed"})

(* A popup that is cancelled while it creates waits for the creation, and then *)
(* it closes; nothing is left to create (create_controller.go:344-356).        *)
PopupCloses == screen = "waiting" ~> screen = "closed" /\ ~Busy
===============================================================================
