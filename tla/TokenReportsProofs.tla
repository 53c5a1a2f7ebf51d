-------------------------- MODULE TokenReportsProofs --------------------------
(* TokenReports, for any number of workspaces and checkouts, and for every     *)
(* bound.                                                                      *)
EXTENDS TokenReports, TLAPS

(* Who holds localMu has a plugin that is enabled, works on what it found, and *)
(* finds every entry of Syncer.watched where it reports.                       *)
EnabledAtWork == mu # "free" \/ sweep # "idle" => enabled

InTargets ==
    /\ \A w \in Targets : InScope(w)
    /\ mu = "sweep" =>
         /\ todo \subseteq Targets
         /\ current # Idle => current.ws \in Targets /\ current.place = targets[current.ws]

InEntries ==
    mu = "poll" => todo \subseteq Entries /\ (current # Idle => current.kept)

AtPlace ==
    /\ sweep \in {"fetch", "report"} =>
         \A w \in Entries : InScope(w) => watched[w].place = targets[w]
    /\ current # Idle =>
         /\ current.kept => current.ws \in Entries
         /\ current.ws \in Entries => watched[current.ws].place = current.place

Holding == TypeOK /\ EnabledAtWork /\ InTargets /\ InEntries /\ AtPlace

(* Nothing is newer than the refs and the HEAD it was computed from.           *)
Seen(v) == v.refs <= refs /\ v.head <= heads[v.place]

Known ==
    /\ \A w \in Workspaces : shown[w] # Blank => Seen(shown[w])
    /\ \A w \in Entries : Seen(watched[w])
    /\ common # Unread => common <= refs
    /\ current.tokens # Blank => Seen(current.tokens) /\ current.tokens.place = current.place

(* Tokens that are about to be sent are newer than the stamps of their entry   *)
(* and than what is shown of the same place; and what is shown is newer than   *)
(* the stamps of its entry, unless a report failed or is under way.            *)
NotNewer(old, new) == old.refs <= new.refs /\ old.head <= new.head

Newest ==
    current.tokens # Blank =>
      /\ current.ws \in Entries => NotNewer(watched[current.ws], current.tokens)
      /\ shown[current.ws] # Blank /\ shown[current.ws].place = current.place =>
           NotNewer(shown[current.ws], current.tokens)

AtWork(w) == current.ws = w /\ current.kept

UpToDate ==
    \A w \in Entries : AtWork(w) \/ watched[w].retry \/ shown[w] = Blank
      \/ (shown[w].place = watched[w].place /\ NotNewer(watched[w], shown[w]))

IInv == Holding /\ Known /\ Newest /\ UpToDate

-------------------------------------------------------------------------------
LEMMA IdleHasNoTokens ==
  /\ Idle.ws = Nobody /\ Idle.kept = FALSE /\ Idle.step = "none" /\ Idle.tokens = Blank
  /\ Nobody \notin Workspaces
BY NamesAssumption DEF Idle

LEMMA StampInRange == ASSUME TypeOK PROVE Stamp \in 0..MaxRefs /\ Stamp # Unread
BY NamesAssumption, BoundsAssumption DEF TypeOK, Stamp

LEMMA VersionIsTokens ==
  ASSUME TypeOK, NEW c \in Checkouts
  PROVE  Version(c) \in [place : Checkouts, refs : 0..MaxRefs, head : 0..MaxHead]
BY DEF TypeOK, Version

LEMMA WatchIsEntry == NotWatched \notin Watch
BY BoundsAssumption, NamesAssumption DEF Watch

LEMMA EntryIsWatch ==
  ASSUME TypeOK, NEW w \in Entries
  PROVE  w \in Workspaces /\ watched[w] \in Watch
BY DEF TypeOK, Entries

LEMMA TargetIsCheckout ==
  ASSUME TypeOK, NEW w \in Targets
  PROVE  w \in Workspaces /\ targets[w] \in Checkouts
BY DEF TypeOK, Targets

LEMMA ReporterKnown ==
  ASSUME TypeOK, current.step \in {"read", "send"}
  PROVE  /\ current # Idle
         /\ current.ws \in Workspaces /\ current.place \in Checkouts
         /\ current.kept \in BOOLEAN /\ current.tokens \in Tokens
BY IdleHasNoTokens DEF TypeOK

-------------------------------------------------------------------------------
LEMMA InitHolds == Init => IInv
<1> SUFFICES ASSUME Init PROVE IInv
  OBVIOUS
<1> USE NamesAssumption, BoundsAssumption DEF Init
<1>1. TypeOK
  BY DEF TypeOK, Tokens, Watch, Idle
<1>2. Entries = {} /\ Targets = {}
  BY DEF Entries, Targets
<1>3. QED
  BY <1>1, <1>2, IdleHasNoTokens
  DEF IInv, Holding, EnabledAtWork, InTargets, InEntries, AtPlace, Known, Newest, UpToDate

-------------------------------------------------------------------------------
(* Types, localMu and places.                                                  *)
LEMMA WorldHolds ==
  ASSUME Holding, World
  PROVE  Holding'
<1> USE BoundsAssumption, NamesAssumption
<1>1. UNCHANGED <<enabled, watched, mu, job, round>>
  BY DEF World, MoveRefs, MoveHead, MovePlace, Expire
<1>2. TypeOK'
  <2>1. CASE MoveRefs
    BY <2>1 DEF MoveRefs, Holding, TypeOK, job, round
  <2>2. ASSUME NEW c \in Checkouts, MoveHead(c) PROVE TypeOK'
    BY <2>2 DEF MoveHead, Holding, TypeOK, job, round
  <2>3. ASSUME NEW w \in Workspaces, MovePlace(w) PROVE TypeOK'
    BY <2>3 DEF MovePlace, Holding, TypeOK, job, round, Tokens
  <2>4. ASSUME NEW w \in Workspaces, Expire(w) PROVE TypeOK'
    BY <2>4 DEF Expire, Holding, TypeOK, job, round, world, Tokens
  <2>5. QED
    BY <2>1, <2>2, <2>3, <2>4 DEF World
<1>3. QED
  BY <1>1, <1>2
  DEF Holding, EnabledAtWork, InTargets, InEntries, AtPlace, Targets, Entries, InScope, job, round

LEMMA ReadTokensHolds ==
  ASSUME Holding, ReadTokens
  PROVE  Holding'
<1> USE DEF Holding
<1>1. PICK tokens \in {Version(current.place), Blank} :
        current' = [current EXCEPT !.step = "send", !.tokens = tokens]
  BY DEF ReadTokens
<1>2. tokens \in Tokens
  BY ReporterKnown, VersionIsTokens DEF ReadTokens, Tokens
<1>3. current \in [ws : Workspaces, place : Checkouts, kept : BOOLEAN,
                   step : {"read", "send"}, tokens : Tokens]
  BY ReporterKnown DEF ReadTokens, TypeOK
<1>4. /\ current' \in [ws : Workspaces, place : Checkouts, kept : BOOLEAN,
                       step : {"read", "send"}, tokens : Tokens]
      /\ current'.ws = current.ws /\ current'.place = current.place
      /\ current'.kept = current.kept
  BY <1>1, <1>2, <1>3
<1>5. current # Idle /\ mu # "free"
  BY ReporterKnown DEF ReadTokens, TypeOK
<1>6. UNCHANGED <<world, enabled, shown, watched, mu, job, todo, common>>
  BY DEF ReadTokens
<1>7. TypeOK'
  BY <1>4, <1>5, <1>6 DEF TypeOK, world, job
<1>8. QED
  BY <1>4, <1>5, <1>6, <1>7
  DEF EnabledAtWork, InTargets, InEntries, AtPlace, Targets, Entries, InScope, job

LEMMA KeepRetryKeeps ==
  ASSUME TypeOK, NEW retry \in BOOLEAN, current.ws \in Workspaces,
         current.kept => current.ws \in Entries,
         KeepRetry(retry)
  PROVE  /\ watched' \in [Workspaces -> Watch \cup {NotWatched}]
         /\ Entries' = Entries
         /\ \A w \in Entries :
              /\ watched'[w].place = watched[w].place
              /\ watched'[w].refs = watched[w].refs
              /\ watched'[w].head = watched[w].head
              /\ watched'[w].retry = (IF AtWork(w) THEN retry ELSE watched[w].retry)
<1>1. CASE current.kept
  <2>1. watched[current.ws] \in Watch
    BY <1>1, EntryIsWatch
  <2>2. watched' = [watched EXCEPT ![current.ws] = [@ EXCEPT !.retry = retry]]
    BY <1>1 DEF KeepRetry
  <2> DEFINE entry == [watched[current.ws] EXCEPT !.retry = retry]
  <2>3. /\ entry \in Watch
        /\ entry.place = watched[current.ws].place /\ entry.refs = watched[current.ws].refs
        /\ entry.head = watched[current.ws].head /\ entry.retry = retry
    BY <2>1 DEF Watch
  <2>4. /\ DOMAIN watched = Workspaces
        /\ watched'[current.ws] = entry
        /\ \A w \in Workspaces \ {current.ws} : watched'[w] = watched[w]
    BY <2>2 DEF TypeOK
  <2>5. watched' \in [Workspaces -> Watch \cup {NotWatched}]
    BY <2>2, <2>3, <2>4 DEF TypeOK
  <2>6. Entries' = Entries
    BY <2>1, <2>3, <2>4, WatchIsEntry DEF Entries
  <2> HIDE DEF entry
  <2>7. QED
    BY <1>1, <2>3, <2>4, <2>5, <2>6 DEF AtWork, Entries
<1>2. CASE ~current.kept
  BY <1>2 DEF KeepRetry, AtWork, TypeOK, Entries
<1>3. QED
  BY <1>1, <1>2

(* What one report does to the variables, whether herdr takes it or not.       *)
LEMMA SendEffect ==
  ASSUME Holding, SendTokens \/ SendFails
  PROVE  /\ current.ws \in Workspaces /\ current.place \in Checkouts
         /\ current.kept \in BOOLEAN /\ current.tokens \in Tokens /\ current # Idle
         /\ current' = Idle
         /\ UNCHANGED <<refs, heads, place, moves, enabled, mu, sweep, only, targets, todo, common>>
         /\ KeepRetry(FALSE) \/ KeepRetry(TRUE)
         /\ \/ shown' = shown /\ KeepRetry(TRUE)
            \/ shown' = [shown EXCEPT ![current.ws] = current.tokens]
BY ReporterKnown DEF Holding, SendTokens, SendFails, world, job

LEMMA SendHolds ==
  ASSUME Holding, SendTokens \/ SendFails
  PROVE  Holding'
<1>1. /\ watched' \in [Workspaces -> Watch \cup {NotWatched}]
      /\ Entries' = Entries
      /\ \A w \in Entries : watched'[w].place = watched[w].place
  <2>1. current.kept => current.ws \in Entries
    BY SendEffect DEF Holding, AtPlace
  <2>2. QED
    BY <2>1, SendEffect, KeepRetryKeeps DEF Holding
<1>2. shown' \in [Workspaces -> Tokens]
  BY SendEffect DEF Holding, TypeOK
<1>3. TypeOK'
  BY <1>1, <1>2, SendEffect DEF Holding, TypeOK
<1>4. QED
  BY <1>1, <1>3, SendEffect
  DEF Holding, EnabledAtWork, InTargets, InEntries, AtPlace, Targets, InScope

(* The entry that a round of the holder of localMu leaves, and the report it   *)
(* begins.                                                                     *)
LEMMA NewEntry ==
  ASSUME TypeOK, NEW w \in Workspaces, NEW c \in Checkouts, NEW retry \in BOOLEAN
  PROVE  [place |-> c, refs |-> Stamp, head |-> heads[c], retry |-> retry] \in Watch
BY StampInRange DEF TypeOK, Watch

LEMMA ReportType ==
  ASSUME TypeOK, NEW w \in Workspaces, NEW c \in Checkouts, NEW kept \in BOOLEAN,
         Report(w, c, kept)
  PROVE  /\ current' \in [ws : Workspaces, place : Checkouts, kept : BOOLEAN,
                          step : {"read", "send"}, tokens : Tokens]
         /\ current'.ws = w /\ current'.place = c /\ current'.kept = kept
         /\ current'.tokens = Blank /\ current' # Idle
BY IdleHasNoTokens DEF Report, Tokens

(* A changed entry: the same place, with the stamps of now.                    *)
LEMMA PollReportsEffect ==
  ASSUME Holding, NEW w \in Workspaces, PollReports(w)
  PROVE  /\ w \in Entries /\ watched[w] \in Watch
         /\ watched' \in [Workspaces -> Watch \cup {NotWatched}]
         /\ Entries' = Entries
         /\ \A u \in Entries : watched'[u].place = watched[u].place
         /\ \A u \in Entries \ {w} : watched'[u] = watched[u]
         /\ watched'[w].refs = Stamp /\ watched'[w].head = heads[watched[w].place]
<1>1. w \in Entries /\ watched[w] \in Watch
  BY EntryIsWatch DEF Holding, PollReports, PollTurn, InEntries
<1> DEFINE entry == [place |-> watched[w].place, refs |-> Stamp,
                     head |-> heads[watched[w].place], retry |-> watched[w].retry]
<1>2. entry \in Watch
  BY <1>1, NewEntry DEF Holding, Watch
<1>3. /\ DOMAIN watched = Workspaces
      /\ watched[w] = [place |-> watched[w].place, refs |-> watched[w].refs,
                       head |-> watched[w].head, retry |-> watched[w].retry]
  BY <1>1 DEF Holding, TypeOK, Watch
<1>4. /\ watched'[w] = entry
      /\ DOMAIN watched' = Workspaces
      /\ \A u \in Workspaces \ {w} : watched'[u] = watched[u]
  <2> DEFINE mid == [watched EXCEPT ![w].refs = Stamp]
  <2>1. watched' = [mid EXCEPT ![w].head = heads[watched[w].place]]
    BY DEF PollReports
  <2>2. /\ DOMAIN mid = Workspaces
        /\ mid[w] = [place |-> watched[w].place, refs |-> Stamp,
                     head |-> watched[w].head, retry |-> watched[w].retry]
        /\ \A u \in Workspaces \ {w} : mid[u] = watched[u]
    BY <1>3
  <2> HIDE DEF mid
  <2>3. QED
    BY <2>1, <2>2
<1>5. watched' \in [Workspaces -> Watch \cup {NotWatched}]
  <2>1. watched' = [u \in Workspaces |-> watched'[u]]
    BY <1>4 DEF PollReports
  <2>2. \A u \in Workspaces : watched'[u] \in Watch \cup {NotWatched}
    BY <1>2, <1>4 DEF Holding, TypeOK
  <2>3. QED
    BY <2>1, <2>2
<1>6. Entries' = Entries
  BY <1>1, <1>2, <1>4, WatchIsEntry DEF Entries
<1>7. QED
  BY <1>1, <1>4, <1>5, <1>6 DEF Entries

LEMMA PollHolds ==
  ASSUME Holding, Poll
  PROVE  Holding'
<1> USE BoundsAssumption, NamesAssumption
<1>1. CASE BeginPoll
  <2>1. current = Idle
    BY <1>1 DEF BeginPoll, Lock, Holding, TypeOK
  <2>2. QED
    BY <1>1, <2>1
    DEF BeginPoll, Lock, Holding, TypeOK, world, job, EnabledAtWork, InTargets, InEntries, AtPlace,
        Targets, Entries, InScope
<1>2. CASE EndPoll
  BY <1>2
  DEF EndPoll, Unlock, Holding, TypeOK, world, job, EnabledAtWork, InTargets, InEntries, AtPlace,
      Targets, Entries, InScope
<1>3. ASSUME NEW w \in Workspaces, PollSkips(w) PROVE Holding'
  <2>1. common' \in 0..MaxRefs
    BY <1>3, StampInRange DEF PollSkips, Holding
  <2>2. QED
    BY <1>3, <2>1
    DEF PollSkips, PollTurn, Holding, TypeOK, world, job, EnabledAtWork, InTargets, InEntries,
        AtPlace, Targets, Entries, InScope
<1>4. ASSUME NEW w \in Workspaces, PollReports(w) PROVE Holding'
  <2>1. /\ w \in Entries /\ watched[w] \in Watch
        /\ watched' \in [Workspaces -> Watch \cup {NotWatched}]
        /\ Entries' = Entries
        /\ \A u \in Entries : watched'[u].place = watched[u].place
    BY <1>4, PollReportsEffect
  <2>2. watched[w].place \in Checkouts
    BY <2>1 DEF Watch
  <2>3. /\ current' \in [ws : Workspaces, place : Checkouts, kept : BOOLEAN,
                         step : {"read", "send"}, tokens : Tokens]
        /\ current'.ws = w /\ current'.place = watched[w].place /\ current'.kept = TRUE
        /\ current' # Idle
    BY <1>4, <2>2, ReportType DEF PollReports, Holding
  <2>4. /\ mu = "poll" /\ todo' = todo \ {w} /\ common' \in 0..MaxRefs
        /\ UNCHANGED <<refs, heads, place, moves, enabled, shown, mu, sweep, only, targets>>
    BY <1>4, StampInRange DEF PollReports, PollTurn, Holding, world, job
  <2>5. TypeOK'
    BY <2>1, <2>3, <2>4 DEF Holding, TypeOK
  <2>6. QED
    BY <2>1, <2>3, <2>4, <2>5
    DEF Holding, EnabledAtWork, InTargets, InEntries, AtPlace, Targets, InScope
<1>5. QED
  BY <1>1, <1>2, <1>3, <1>4 DEF Poll

(* The three outcomes of a round of reportAll.                                 *)
LEMMA ReportTargetEffect ==
  ASSUME Holding, NEW w \in Workspaces, ReportTarget(w)
  PROVE  /\ w \in Targets /\ targets[w] \in Checkouts
         /\ watched' \in [Workspaces -> Watch \cup {NotWatched}]
         /\ \A u \in Workspaces \ {w} : watched'[u] = watched[u]
         /\ \/ /\ watched'[w] \in Watch /\ watched'[w].place = targets[w]
               /\ watched'[w].refs = Stamp /\ watched'[w].head = heads[targets[w]]
               /\ Report(w, targets[w], TRUE) /\ common' = Stamp
            \/ /\ watched'[w] = NotWatched /\ Report(w, targets[w], FALSE) /\ common' = common
            \/ /\ watched' = watched /\ Report(w, targets[w], FALSE)
               /\ common' \in {common, Stamp}
<1>1. w \in Targets /\ targets[w] \in Checkouts
  BY TargetIsCheckout DEF Holding, ReportTarget, SweepTurn, InTargets
<1> DEFINE entry == [place |-> targets[w], refs |-> Stamp, head |-> heads[targets[w]],
                     retry |-> FALSE]
<1>2. entry \in Watch
  BY <1>1, NewEntry DEF Holding
<1>3. CASE watched' = [watched EXCEPT ![w] = entry] /\ Report(w, targets[w], TRUE)
           /\ common' = Stamp
  BY <1>1, <1>2, <1>3 DEF Holding, TypeOK
<1>4. CASE watched' = [watched EXCEPT ![w] = NotWatched] /\ Report(w, targets[w], FALSE)
           /\ common' = common
  BY <1>1, <1>4 DEF Holding, TypeOK
<1>5. CASE watched' = watched /\ Report(w, targets[w], FALSE) /\ common' \in {common, Stamp}
  BY <1>1, <1>5 DEF Holding, TypeOK
<1>6. QED
  BY <1>3, <1>4, <1>5 DEF ReportTarget

LEMMA ReportTargetHolds ==
  ASSUME Holding, NEW w \in Workspaces, ReportTarget(w)
  PROVE  Holding'
<1>1. /\ w \in Targets /\ targets[w] \in Checkouts
      /\ watched' \in [Workspaces -> Watch \cup {NotWatched}]
      /\ \A u \in Workspaces \ {w} : watched'[u] = watched[u]
  BY ReportTargetEffect
<1>2. PICK kept \in BOOLEAN : Report(w, targets[w], kept)
  BY ReportTargetEffect
<1>3. /\ current' \in [ws : Workspaces, place : Checkouts, kept : BOOLEAN,
                       step : {"read", "send"}, tokens : Tokens]
      /\ current'.ws = w /\ current'.place = targets[w] /\ current'.kept = kept
      /\ current' # Idle
  BY <1>1, <1>2, ReportType DEF Holding
<1>4. /\ mu = "sweep" /\ todo' = todo \ {w} /\ current = Idle
      /\ UNCHANGED <<refs, heads, place, moves, enabled, shown, mu, sweep, only, targets>>
  BY DEF ReportTarget, SweepTurn, world, job
<1>5. common' \in 0..MaxRefs \cup {Unread}
  BY ReportTargetEffect, StampInRange DEF Holding, TypeOK
<1>6. TypeOK'
  BY <1>1, <1>3, <1>4, <1>5 DEF Holding, TypeOK
<1>7. w \in Entries' => watched'[w].place = targets[w]
  <2>1. CASE watched' = watched
    BY <1>1, <1>4, <2>1 DEF Holding, TypeOK, AtPlace, InTargets, Entries
  <2>2. QED
    BY <2>1, ReportTargetEffect DEF Entries
<1>8. kept => w \in Entries'
  <2>1. kept => watched'[w] \in Watch
    BY <1>2, ReportTargetEffect DEF Report
  <2>2. QED
    BY <2>1, WatchIsEntry DEF Entries
<1>9. AtPlace'
  BY <1>1, <1>3, <1>4, <1>7, <1>8 DEF Holding, AtPlace, Entries, InScope
<1>10. QED
  BY <1>1, <1>3, <1>4, <1>6, <1>9
  DEF Holding, EnabledAtWork, InTargets, InEntries, Targets, InScope

LEMMA ForgetMissingEffect ==
  ASSUME Holding, ForgetMissing
  PROVE  /\ watched' \in [Workspaces -> Watch \cup {NotWatched}]
         /\ \A w \in Workspaces : watched'[w] \in {watched[w], NotWatched}
         /\ \A w \in Entries' : InScope(w) => watched'[w].place = targets[w]
BY DEF ForgetMissing, Holding, TypeOK, Entries

LEMMA SweepHolds ==
  ASSUME Holding, Sweep
  PROVE  Holding'
<1> USE NamesAssumption
<1>1. CASE BeginReport
  BY <1>1
  DEF BeginReport, Lock, Holding, TypeOK, world, EnabledAtWork, InTargets, InEntries, AtPlace,
      Targets, Entries, InScope
<1>2. CASE EndSweep
  BY <1>2
  DEF EndSweep, Unlock, SweepOver, Holding, TypeOK, world, EnabledAtWork, InTargets, InEntries,
      AtPlace, Targets, Entries, InScope
<1>3. CASE ForgetMissing
  <2>1. /\ watched' \in [Workspaces -> Watch \cup {NotWatched}]
        /\ \A w \in Entries' : InScope(w) => watched'[w].place = targets[w]
    BY <1>3, ForgetMissingEffect
  <2>2. /\ current = Idle /\ mu = "free" /\ enabled
        /\ UNCHANGED <<refs, heads, place, moves, enabled, shown, mu, todo, current, common>>
    BY <1>3 DEF ForgetMissing, Holding, TypeOK, EnabledAtWork, world, round
  <2>3. CASE Targets = {}
    BY <1>3, <2>1, <2>2, <2>3
    DEF ForgetMissing, SweepOver, Holding, TypeOK, EnabledAtWork, InTargets, InEntries, AtPlace,
        Targets
  <2>4. CASE Targets # {}
    <3>1. sweep' = "fetch" /\ UNCHANGED <<only, targets>>
      BY <1>3, <2>4 DEF ForgetMissing
    <3>2. QED
      BY <2>1, <2>2, <3>1
      DEF Holding, TypeOK, EnabledAtWork, InTargets, InEntries, AtPlace, Targets, InScope
  <2>5. QED
    BY <2>3, <2>4
<1>4. ASSUME NEW w \in Workspaces, ReportTarget(w) PROVE Holding'
  BY <1>4, ReportTargetHolds
<1>5. QED
  BY <1>1, <1>2, <1>3, <1>4 DEF Sweep

LEMMA MainLoopHolds ==
  ASSUME Holding,
         ReloadConfig \/ ClearAll \/ Restart
           \/ \E scope \in Workspaces \cup {Nobody} : BeginSweep(scope)
  PROVE  Holding'
<1> USE NamesAssumption
<1>1. CASE ReloadConfig
  BY <1>1
  DEF ReloadConfig, Holding, TypeOK, world, job, round, EnabledAtWork, InTargets, InEntries, AtPlace,
      Targets, Entries, InScope
<1>2. CASE ClearAll
  <2>1. shown' \in [Workspaces -> Tokens]
    BY <1>2 DEF ClearAll, Holding, TypeOK, Tokens
  <2>2. QED
    BY <1>2, <2>1
    DEF ClearAll, Holding, TypeOK, world, job, round, EnabledAtWork, InTargets, InEntries, AtPlace,
        Targets, Entries, InScope
<1>3. CASE Restart
  BY <1>3
  DEF Restart, SweepOver, Holding, TypeOK, world, EnabledAtWork, InTargets, InEntries, AtPlace,
      Targets, Entries, InScope
<1>4. ASSUME NEW scope \in Workspaces \cup {Nobody}, BeginSweep(scope) PROVE Holding'
  <2>1. /\ targets' \in [Workspaces -> Checkouts \cup {NoPlace}]
        /\ \A w \in Workspaces : targets'[w] # NoPlace => scope \in {Nobody, w}
    BY <1>4 DEF BeginSweep, Holding, TypeOK
  <2>2. mu # "sweep"
    BY <1>4 DEF BeginSweep, Holding, TypeOK
  <2>3. QED
    BY <1>4, <2>1, <2>2
    DEF BeginSweep, Holding, TypeOK, world, round, EnabledAtWork, InTargets, InEntries, AtPlace,
        Targets, Entries, InScope
<1>5. QED
  BY <1>1, <1>2, <1>3, <1>4

LEMMA HoldingStep == Holding /\ [Next]_vars => Holding'
<1> SUFFICES ASSUME Holding, [Next]_vars PROVE Holding'
  OBVIOUS
<1>1. CASE UNCHANGED vars
  BY <1>1
  DEF vars, world, job, round, Holding, TypeOK, EnabledAtWork, InTargets, InEntries, AtPlace,
      Targets, Entries, InScope
<1>2. QED
  BY <1>1, WorldHolds, ReadTokensHolds, SendHolds, PollHolds, SweepHolds, MainLoopHolds DEF Next

(* Every variable has its type; localMu covers every report, and reportAll is  *)
(* where the main loop holds it.                                               *)
THEOREM TypeCorrect == Spec => []TypeOK
<1>1. Init => Holding
  BY InitHolds DEF IInv
<1>2. Holding => TypeOK
  BY DEF Holding
<1>3. QED
  BY <1>1, <1>2, HoldingStep, PTL DEF Spec

-------------------------------------------------------------------------------
(* What is newer than what.                                                    *)
Fresh == Known /\ Newest /\ UpToDate

(* In numbers, what the types say of a version that is shown or watched.       *)
LEMMA Numbers ==
  ASSUME TypeOK
  PROVE  /\ refs \in Nat /\ \A c \in Checkouts : heads[c] \in Nat
         /\ \A w \in Workspaces : shown[w] # Blank =>
              shown[w].refs \in Nat /\ shown[w].head \in Nat /\ shown[w].place \in Checkouts
         /\ \A w \in Entries :
              watched[w].refs \in Nat /\ watched[w].head \in Nat /\ watched[w].place \in Checkouts
<1>1. refs \in Nat /\ \A c \in Checkouts : heads[c] \in Nat
  BY BoundsAssumption DEF TypeOK
<1>2. ASSUME NEW w \in Workspaces, shown[w] # Blank
      PROVE  shown[w].refs \in Nat /\ shown[w].head \in Nat /\ shown[w].place \in Checkouts
  <2>1. shown[w] \in [place : Checkouts, refs : 0..MaxRefs, head : 0..MaxHead]
    BY <1>2 DEF TypeOK, Tokens
  <2>2. QED
    BY <2>1, BoundsAssumption
<1>3. ASSUME NEW w \in Entries
      PROVE  /\ watched[w].refs \in Nat /\ watched[w].head \in Nat
             /\ watched[w].place \in Checkouts
  <2>1. watched[w] \in [place : Checkouts, refs : 0..MaxRefs, head : 0..MaxHead, retry : BOOLEAN]
    BY EntryIsWatch DEF Watch
  <2>2. QED
    BY <2>1, BoundsAssumption
<1>4. QED
  BY <1>1, <1>2, <1>3

LEMMA StampSeen == ASSUME TypeOK, Known PROVE Stamp <= refs /\ refs <= refs
BY BoundsAssumption DEF TypeOK, Known, Stamp

(* Steps that send nothing and only let the world move on, or tokens end.      *)
LEMMA WorldFresh ==
  ASSUME Holding, Fresh, World
  PROVE  Fresh'
<1>1. /\ UNCHANGED <<watched, current, common>>
      /\ refs' \in Nat /\ refs <= refs'
      /\ \A c \in Checkouts : heads'[c] \in Nat /\ heads[c] <= heads'[c]
      /\ \A w \in Workspaces : shown'[w] \in {shown[w], Blank}
  <2> USE Numbers DEF Holding
  <2>1. CASE MoveRefs
    BY <2>1 DEF MoveRefs, round
  <2>2. ASSUME NEW c \in Checkouts, MoveHead(c) PROVE <1>1!:
    BY <2>2 DEF MoveHead, round, TypeOK
  <2>3. ASSUME NEW w \in Workspaces, MovePlace(w) PROVE <1>1!:
    BY <2>3 DEF MovePlace, round, TypeOK
  <2>4. ASSUME NEW w \in Workspaces, Expire(w) PROVE <1>1!:
    BY <2>4 DEF Expire, round, world, TypeOK
  <2>5. QED
    BY <2>1, <2>2, <2>3, <2>4 DEF World
<1>2. Entries' = Entries
  BY <1>1 DEF Entries
<1>3. current.tokens # Blank =>
        /\ current.tokens.refs \in Nat /\ current.tokens.head \in Nat
        /\ current.tokens.place \in Checkouts /\ current.ws \in Workspaces
  <2>1. SUFFICES ASSUME current.tokens # Blank
        PROVE  /\ current.tokens.refs \in Nat /\ current.tokens.head \in Nat
               /\ current.tokens.place \in Checkouts /\ current.ws \in Workspaces
    OBVIOUS
  <2>2. /\ current.tokens \in [place : Checkouts, refs : 0..MaxRefs, head : 0..MaxHead]
        /\ current.ws \in Workspaces
    BY <2>1, IdleHasNoTokens DEF Holding, TypeOK, Tokens
  <2>3. QED
    BY <2>2, BoundsAssumption
<1>4. common # Unread => common \in Nat
  BY BoundsAssumption DEF Holding, TypeOK
<1>5. Known'
  <2>1. \A w \in Workspaces : shown'[w] # Blank => Seen(shown[w])'
    BY <1>1, Numbers DEF Holding, Fresh, Known, Seen
  <2>2. \A w \in Entries : Seen(watched[w])'
    BY <1>1, Numbers DEF Holding, Fresh, Known, Seen
  <2>3. current.tokens # Blank => Seen(current.tokens)' /\ current.tokens.place = current.place
    BY <1>1, <1>3, Numbers DEF Holding, Fresh, Known, Seen
  <2>4. common # Unread => common <= refs'
    BY <1>1, <1>4, Numbers DEF Holding, Fresh, Known
  <2>5. QED
    BY <1>1, <1>2, <2>1, <2>2, <2>3, <2>4 DEF Known
<1>6. Newest' /\ UpToDate'
  BY <1>1, <1>2, <1>3 DEF Fresh, Newest, UpToDate, NotNewer, AtWork, Entries
<1>7. QED
  BY <1>5, <1>6 DEF Fresh

LEMMA ReadTokensFresh ==
  ASSUME Holding, Fresh, ReadTokens
  PROVE  Fresh'
<1>1. current # Idle /\ current.ws \in Workspaces /\ current.place \in Checkouts
      /\ current.kept \in BOOLEAN
  BY ReporterKnown DEF ReadTokens, Holding
<1>2. PICK tokens \in {Version(current.place), Blank} :
        current' = [current EXCEPT !.step = "send", !.tokens = tokens]
  BY DEF ReadTokens
<1>3. /\ current'.ws = current.ws /\ current'.place = current.place
      /\ current'.kept = current.kept /\ current'.tokens = tokens
  <2>1. current \in [ws : Workspaces, place : Checkouts, kept : BOOLEAN,
                     step : {"read", "send"}, tokens : Tokens]
    BY <1>1 DEF Holding, TypeOK
  <2>2. QED
    BY <1>2, <2>1
<1>4. UNCHANGED <<refs, heads, shown, watched, common>>
  BY DEF ReadTokens, world
<1>5. Entries' = Entries
  BY <1>4 DEF Entries
<1>6. tokens # Blank => tokens.place = current.place /\ tokens.refs = refs
                          /\ tokens.head = heads[current.place]
  BY <1>2 DEF Version
<1>7. Known'
  BY <1>1, <1>3, <1>4, <1>5, <1>6, Numbers DEF Holding, Fresh, Known, Seen
<1>8. Newest'
  BY <1>1, <1>3, <1>4, <1>5, <1>6, Numbers
  DEF Holding, AtPlace, Fresh, Known, Seen, Newest, NotNewer
<1>9. UpToDate'
  BY <1>3, <1>4, <1>5 DEF Fresh, UpToDate, AtWork, NotNewer
<1>10. QED
  BY <1>7, <1>8, <1>9 DEF Fresh

LEMMA SendFresh ==
  ASSUME Holding, Fresh, SendTokens \/ SendFails
  PROVE  Fresh'
<1>1. /\ current.ws \in Workspaces /\ current.kept \in BOOLEAN /\ current # Idle
      /\ current' = Idle /\ UNCHANGED <<refs, heads, common>>
      /\ \/ shown' = shown /\ KeepRetry(TRUE)
         \/ shown' = [shown EXCEPT ![current.ws] = current.tokens]
  BY SendEffect
<1>2. PICK retry \in BOOLEAN : KeepRetry(retry)
  BY SendEffect
<1>3. current.kept => current.ws \in Entries
  BY <1>1 DEF Holding, AtPlace
<1>4. /\ Entries' = Entries
      /\ \A w \in Entries :
           /\ watched'[w].place = watched[w].place
           /\ watched'[w].refs = watched[w].refs
           /\ watched'[w].head = watched[w].head
           /\ ~AtWork(w) => watched'[w].retry = watched[w].retry
  BY <1>1, <1>2, <1>3, KeepRetryKeeps DEF Holding
<1>5. KeepRetry(TRUE) => \A w \in Entries : AtWork(w) => watched'[w].retry
  BY <1>1, <1>3, KeepRetryKeeps DEF Holding
<1>6. shown \in [Workspaces -> Tokens] /\ DOMAIN shown = Workspaces
  BY DEF Holding, TypeOK
<1>7. current'.tokens = Blank /\ current'.ws = Nobody /\ Nobody \notin Workspaces
  BY <1>1, IdleHasNoTokens
<1>8. Known'
  BY <1>1, <1>4, <1>6, <1>7 DEF Fresh, Known, Seen
<1>9. Newest'
  BY <1>7 DEF Newest
<1>10. ASSUME NEW w \in Entries
       PROVE  watched'[w].retry \/ shown'[w] = Blank
                \/ (shown'[w].place = watched'[w].place /\ NotNewer(watched'[w], shown'[w]))
  <2>1. w \in Workspaces
    BY DEF Entries
  <2>2. CASE shown'[w] = shown[w] /\ ~AtWork(w)
    BY <1>4, <2>2 DEF Fresh, UpToDate, NotNewer
  <2>3. CASE shown' = shown /\ KeepRetry(TRUE) /\ AtWork(w)
    BY <1>5, <2>3
  <2>4. CASE shown' = [shown EXCEPT ![current.ws] = current.tokens] /\ w = current.ws
    <3>1. shown'[w] = current.tokens
      BY <1>6, <2>1, <2>4
    <3>2. SUFFICES ASSUME current.tokens # Blank
                   PROVE  /\ current.tokens.place = watched[w].place
                          /\ NotNewer(watched[w], current.tokens)
      BY <1>4, <3>1 DEF NotNewer
    <3>3. QED
      BY <1>1, <2>4, <3>2 DEF Holding, AtPlace, Fresh, Known, Newest
  <2>5. CASE shown' = [shown EXCEPT ![current.ws] = current.tokens] /\ w # current.ws
    BY <1>6, <2>1, <2>2, <2>5 DEF AtWork
  <2>6. QED
    BY <1>1, <2>2, <2>3, <2>4, <2>5
<1>11. UpToDate'
  BY <1>4, <1>10 DEF UpToDate, NotNewer
<1>12. QED
  BY <1>8, <1>9, <1>11 DEF Fresh

(* While nothing is reported, nothing is at work.                              *)
LEMMA NothingAtWork ==
  ASSUME Holding, current = Idle
  PROVE  current.tokens = Blank /\ \A w \in Workspaces : ~AtWork(w)
BY IdleHasNoTokens DEF AtWork

(* Steps between reports that keep entries, or forget them.                    *)
LEMMA BetweenReportsFresh ==
  ASSUME Holding, Fresh, current = Idle, current' = Idle,
         UNCHANGED <<refs, heads>>,
         \A w \in Workspaces : shown'[w] \in {shown[w], Blank},
         \A w \in Workspaces : watched'[w] \in {watched[w], NotWatched},
         common' \in {common, Stamp, Unread}
  PROVE  Fresh'
<1>1. Entries' \subseteq Entries /\ \A w \in Entries' : watched'[w] = watched[w]
  BY DEF Entries
<1>2. current.tokens = Blank /\ \A w \in Workspaces : ~AtWork(w)
  BY NothingAtWork
<1>3. common' # Unread => common' <= refs
  BY StampSeen DEF Holding, Fresh, Known
<1>4. QED
  BY <1>1, <1>2, <1>3 DEF Fresh, Known, Newest, UpToDate, Seen, NotNewer, AtWork, Entries

(* A report begins: its entry has the stamps of now, or is what it was, or is  *)
(* gone.                                                                       *)
LEMMA BeginningFresh ==
  ASSUME Holding, Fresh, current = Idle, UNCHANGED <<refs, heads, shown>>,
         NEW w \in Workspaces, NEW c \in Checkouts, NEW kept \in BOOLEAN, Report(w, c, kept),
         \A u \in Workspaces \ {w} : watched'[u] = watched[u],
         \/ kept /\ watched'[w].refs = Stamp /\ watched'[w].head = heads[c]
                 /\ watched'[w].place = c
         \/ watched'[w] \in {watched[w], NotWatched},
         common' \in {common, Stamp}
  PROVE  Fresh'
<1>1. current'.ws = w /\ current'.kept = kept /\ current'.tokens = Blank
  BY DEF Report
<1>2. \A u \in Workspaces : ~AtWork(u)
  BY NothingAtWork
<1>3. Stamp <= refs /\ heads[c] <= heads[c] /\ (common' # Unread => common' <= refs)
  BY StampSeen, Numbers DEF Holding, Fresh, Known
<1>4. Known'
  BY <1>1, <1>3 DEF Fresh, Known, Seen, Entries
<1>5. Newest'
  BY <1>1 DEF Newest
<1>6. UpToDate'
  BY <1>1, <1>2 DEF Fresh, UpToDate, AtWork, NotNewer, Entries
<1>7. QED
  BY <1>4, <1>5, <1>6 DEF Fresh

LEMMA PollFresh ==
  ASSUME Holding, Fresh, Poll
  PROVE  Fresh'
<1>1. current = Idle
  BY DEF Poll, BeginPoll, Lock, EndPoll, PollSkips, PollReports, PollTurn, Holding, TypeOK
<1>2. CASE BeginPoll \/ EndPoll \/ \E w \in Workspaces : PollSkips(w)
  BY <1>1, <1>2, BetweenReportsFresh
  DEF BeginPoll, Lock, EndPoll, Unlock, PollSkips, world
<1>3. ASSUME NEW w \in Workspaces, PollReports(w) PROVE Fresh'
  <2>1. /\ w \in Entries /\ watched[w] \in Watch
        /\ watched'[w].place = watched[w].place
        /\ \A u \in Entries \ {w} : watched'[u] = watched[u]
        /\ watched'[w].refs = Stamp /\ watched'[w].head = heads[watched[w].place]
    BY <1>3, PollReportsEffect
  <2>2. \A u \in Workspaces \ {w} : watched'[u] = watched[u]
    BY <1>3 DEF PollReports, Holding, TypeOK
  <2>3. watched[w].place \in Checkouts
    BY <2>1 DEF Watch
  <2>4. QED
    BY <1>1, <1>3, <2>1, <2>2, <2>3, BeginningFresh DEF PollReports, world
<1>4. QED
  BY <1>2, <1>3 DEF Poll

LEMMA SweepFresh ==
  ASSUME Holding, Fresh, Sweep
  PROVE  Fresh'
<1>1. current = Idle
  BY DEF Sweep, BeginReport, Lock, EndSweep, ForgetMissing, ReportTarget, SweepTurn, Holding, TypeOK
<1>2. CASE BeginReport \/ EndSweep
  BY <1>1, <1>2, BetweenReportsFresh DEF BeginReport, Lock, EndSweep, Unlock, world
<1>3. CASE ForgetMissing
  BY <1>1, <1>3, ForgetMissingEffect, BetweenReportsFresh DEF ForgetMissing, world, round
<1>4. ASSUME NEW w \in Workspaces, ReportTarget(w) PROVE Fresh'
  <2>1. UNCHANGED <<refs, heads, shown>>
    BY <1>4 DEF ReportTarget, world
  <2>2. QED
    BY <1>1, <1>4, <2>1, ReportTargetEffect, BeginningFresh
<1>5. QED
  BY <1>2, <1>3, <1>4 DEF Sweep

LEMMA MainLoopFresh ==
  ASSUME Holding, Fresh,
         ReloadConfig \/ ClearAll \/ Restart
           \/ \E scope \in Workspaces \cup {Nobody} : BeginSweep(scope)
  PROVE  Fresh'
<1>1. CASE ClearAll
  BY <1>1, BetweenReportsFresh DEF ClearAll, world, round, Holding, TypeOK
<1>2. CASE Restart
  BY <1>2, IdleHasNoTokens
  DEF Restart, world, Fresh, Known, Newest, UpToDate, Seen, Entries
<1>3. CASE ReloadConfig \/ \E scope \in Workspaces \cup {Nobody} : BeginSweep(scope)
  <2>1. UNCHANGED <<refs, heads, shown, watched, current, common>>
    BY <1>3 DEF ReloadConfig, BeginSweep, world, round
  <2>2. QED
    BY <2>1 DEF Fresh, Known, Newest, UpToDate, Seen, NotNewer, AtWork, Entries
<1>4. QED
  BY <1>1, <1>2, <1>3

LEMMA FreshStep == Holding /\ Fresh /\ [Next]_vars => Fresh'
<1> SUFFICES ASSUME Holding, Fresh, [Next]_vars PROVE Fresh'
  OBVIOUS
<1>1. CASE UNCHANGED vars
  BY <1>1
  DEF vars, world, round, Fresh, Known, Newest, UpToDate, Seen, NotNewer, AtWork, Entries
<1>2. QED
  BY <1>1, WorldFresh, ReadTokensFresh, SendFresh, PollFresh, SweepFresh, MainLoopFresh DEF Next

LEMMA InvariantHolds == Spec => []IInv
<1>1. IInv <=> Holding /\ Fresh
  BY DEF IInv, Fresh
<1>2. QED
  BY <1>1, InitHolds, HoldingStep, FreshStep, PTL DEF Spec

-------------------------------------------------------------------------------
(* No local change is missed: outdated tokens of a watched workspace are known *)
(* to be outdated, whatever moved between the stamps, the reading of HEAD and  *)
(* the report (local_refresh.go:66, reportAll).                                *)
THEOREM NoChangeMissed == Spec => []NoMissedChange
<1>1. IInv => NoMissedChange
  <2> SUFFICES ASSUME IInv, mu = "free", NEW w \in Workspaces, Outdated(w),
                      ~watched[w].retry, watched[w].refs = refs,
                      watched[w].head = heads[watched[w].place]
               PROVE  FALSE
    BY DEF NoMissedChange
  <2>1. w \in Entries /\ shown[w] # Blank /\ shown[w] # Version(watched[w].place)
    BY DEF Outdated, Entries
  <2>2. ~AtWork(w)
    BY IdleHasNoTokens DEF IInv, Holding, TypeOK, AtWork
  <2>3. shown[w].place = watched[w].place /\ NotNewer(watched[w], shown[w]) /\ Seen(shown[w])
    BY <2>1, <2>2 DEF IInv, UpToDate, Known
  <2>4. shown[w].refs = refs /\ shown[w].head = heads[watched[w].place]
    BY <2>1, <2>3, Numbers DEF IInv, Holding, NotNewer, Seen
  <2>5. shown[w] \in [place : Checkouts, refs : 0..MaxRefs, head : 0..MaxHead]
    BY <2>1 DEF IInv, Holding, TypeOK, Tokens
  <2>6. QED
    BY <2>1, <2>3, <2>4, <2>5 DEF Version
<1>2. QED
  BY <1>1, InvariantHolds, PTL

(* Tokens appear by a report only.                                             *)
LEMMA PublishedByReport ==
  ASSUME IInv, [Next]_vars, NEW w \in Workspaces, Published(w)
  PROVE  /\ SendTokens \/ SendFails
         /\ current.ws = w /\ shown'[w] = current.tokens /\ current.tokens # Blank
         /\ mu \in {"poll", "sweep"}
<1>1. shown'[w] # shown[w] /\ shown'[w] # Blank
  BY DEF Published
<1>2. SendTokens \/ SendFails
  <2>1. ~World
    BY <1>1 DEF World, MoveRefs, MoveHead, MovePlace, Expire, IInv, Holding, TypeOK
  <2>2. ~ClearAll
    BY <1>1 DEF ClearAll
  <2>3. QED
    BY <1>1, <2>1, <2>2
    DEF Next, vars, ReadTokens, Poll, BeginPoll, EndPoll, PollSkips, PollReports, ReloadConfig,
        BeginSweep, Sweep, BeginReport, EndSweep, ForgetMissing, ReportTarget, Restart
<1>3. shown' = [shown EXCEPT ![current.ws] = current.tokens] /\ current # Idle
  BY <1>1, <1>2, SendEffect DEF IInv
<1>4. current.ws = w /\ shown'[w] = current.tokens
  BY <1>1, <1>3 DEF IInv, Holding, TypeOK
<1>5. mu \in {"poll", "sweep"}
  BY <1>3 DEF IInv, Holding, TypeOK
<1>6. QED
  BY <1>1, <1>2, <1>4, <1>5

(* A slow sweep never replaces the tokens of a newer pull by those of an older *)
(* HEAD, nor does anything else (docs/REFERENCE.md on the local watcher).      *)
THEOREM NothingOlderShown == Spec => NeverOlder
<1>1. IInv /\ [Next]_vars => [\A w \in Workspaces : ~Older(shown'[w], shown[w])]_vars
  <2> SUFFICES ASSUME IInv, [Next]_vars, NEW w \in Workspaces, Older(shown'[w], shown[w])
               PROVE  FALSE
    OBVIOUS
  <2>1. /\ shown[w] # Blank /\ shown'[w] # Blank /\ shown'[w].place = shown[w].place
        /\ shown'[w].refs < shown[w].refs \/ shown'[w].head < shown[w].head
    BY DEF Older
  <2>2. shown[w].refs \in Nat /\ shown[w].head \in Nat
    BY <2>1, Numbers DEF IInv, Holding
  <2>3. Published(w)
    BY <2>1, <2>2 DEF Published
  <2>4. current.ws = w /\ shown'[w] = current.tokens /\ current.tokens # Blank
    BY <2>3, PublishedByReport
  <2>5. current.tokens \in [place : Checkouts, refs : 0..MaxRefs, head : 0..MaxHead]
    BY <2>4, IdleHasNoTokens DEF IInv, Holding, TypeOK, Tokens
  <2>6. NotNewer(shown[w], current.tokens)
    BY <2>1, <2>4 DEF IInv, Known, Newest
  <2>7. QED
    BY <2>1, <2>2, <2>4, <2>5, <2>6, BoundsAssumption DEF NotNewer
<1>2. QED
  BY <1>1, InvariantHolds, PTL DEF Spec, NeverOlder

(* Once a sweep has noticed that a workspace went elsewhere or was closed, the *)
(* tokens of the place it left are not published any more, however long the    *)
(* fetches take (forgetMissingTargets).                                        *)
THEOREM LeftPlaceStaysSilent == Spec => LeftPlaceSilent
<1>1. IInv /\ [Next]_vars =>
        [\A w \in Workspaces :
           sweep \in {"fetch", "report"} /\ InScope(w) /\ Published(w)
             => targets[w] = shown'[w].place]_vars
  <2> SUFFICES ASSUME IInv, [Next]_vars, NEW w \in Workspaces,
                      sweep \in {"fetch", "report"}, InScope(w), Published(w)
               PROVE  targets[w] = shown'[w].place
    OBVIOUS
  <2>1. /\ current.ws = w /\ shown'[w] = current.tokens /\ current.tokens # Blank
        /\ mu \in {"poll", "sweep"}
    BY PublishedByReport
  <2>2. current.tokens.place = current.place /\ current # Idle
    BY <2>1, IdleHasNoTokens DEF IInv, Known
  <2>3. CASE mu = "sweep"
    BY <2>1, <2>2, <2>3 DEF IInv, Holding, InTargets
  <2>4. CASE mu = "poll"
    BY <2>1, <2>2, <2>4 DEF IInv, Holding, InEntries, AtPlace
  <2>5. QED
    BY <2>1, <2>3, <2>4
<1>2. QED
  BY <1>1, InvariantHolds, PTL DEF Spec, LeftPlaceSilent

(* A plugin that took note of its being disabled publishes no tokens, not even *)
(* from a poll under way (daemon.go:109, local_refresh.go:39).                 *)
THEOREM DisabledStaysSilent == Spec => DisabledSilent
<1>1. IInv /\ [Next]_vars => [~enabled => \A w \in Workspaces : ~Published(w)]_vars
  <2> SUFFICES ASSUME IInv, [Next]_vars, NEW w \in Workspaces, Published(w)
               PROVE  enabled
    OBVIOUS
  <2>1. mu \in {"poll", "sweep"}
    BY PublishedByReport
  <2>2. QED
    BY <2>1 DEF IInv, Holding, EnabledAtWork
<1>2. QED
  BY <1>1, InvariantHolds, PTL DEF Spec, DisabledSilent
===============================================================================
