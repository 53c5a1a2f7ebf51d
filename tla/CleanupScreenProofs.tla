------------------------- MODULE CleanupScreenProofs -------------------------
(* What the worktree screen promises of its table and its removals, for any    *)
(* number of worktrees, any of them flaky, and any number of deeds.            *)
EXTENDS CleanupScreen, FiniteSetTheorems, WellFoundedInduction, TLAPS

Verdict == {"safe", "review", "keep", "blocked"}

LEMMA AssessType == ASSUME NEW f PROVE Assess(f) \in Verdict
BY DEF Assess, Verdict

(* A worktree with unknown facts is safe only if it would be safe whatever     *)
(* those facts turned out to be: Facts' "unknown" is never taken for a yes.    *)
THEOREM UnknownSpeaksForNothing == UnknownNeverSafe(Facts)
<1> SUFFICES ASSUME NEW f \in Facts, NEW g \in Facts, MayBe(g, f), Assess(f) = "safe"
             PROVE  Assess(g) = "safe"
  BY DEF UnknownNeverSafe
<1>1. ~Blocked(f) /\ Clean(f) /\ (f.merged \/ GoneAndPushed(f))
  BY DEF Assess
<1>2. ~Blocked(g)
  BY <1>1 DEF MayBe, Blocked
<1>3. Clean(g)
  BY <1>1 DEF MayBe, Clean
<1>4. g.merged \/ GoneAndPushed(g)
  BY <1>1 DEF MayBe, GoneAndPushed, Gone
<1>5. QED
  BY <1>2, <1>3, <1>4 DEF Assess

(* A safe worktree has no working agent, no uncommitted work and no commits    *)
(* but merged or pushed ones.                                                  *)
THEOREM SafeHasNothingToLose == SafeLosesNothing(Facts)
BY DEF SafeLosesNothing, Assess, Blocked, Clean, GoneAndPushed

LEMMA PartialType ==
  ASSUME NEW rs
  PROVE  /\ rs \in PartialRows => /\ DOMAIN rs \subseteq Trees
                                  /\ rs = [t \in DOMAIN rs |-> rs[t]]
                                  /\ \A t \in DOMAIN rs : rs[t] \in Rows
         /\ /\ DOMAIN rs \subseteq Trees
            /\ rs = [t \in DOMAIN rs |-> rs[t]]
            /\ \A t \in DOMAIN rs : rs[t] \in Rows
            => rs \in PartialRows
BY DEF PartialRows

LEMMA PartPartial ==
  ASSUME NEW rs \in PartialRows, NEW S, S \subseteq DOMAIN rs
  PROVE  [t \in S |-> rs[t]] \in PartialRows
BY DEF PartialRows

LEMMA TreesFinite == IsFiniteSet(Trees)
BY FS_Interval, BoundAssumption DEF Trees

LEMMA NothingType ==
  /\ NoRows \in PartialRows /\ DOMAIN NoRows = {}
  /\ NoHeads \in Heads
  /\ \A open \in BOOLEAN : EmptyRow(open) \in Rows
  /\ NoRemoval \in Removals /\ NoRemoval.at = "idle" /\ NoRemoval.todo = NoRows
  /\ Idle \in Gatherings /\ Idle.at = "idle"
  /\ \A hs \in Heads : /\ Gather(hs) \in Gatherings
                      /\ Gather(hs).at = "asked" /\ Gather(hs).heads = hs
<1>1. NoRows \in PartialRows /\ DOMAIN NoRows = {}
  <2>1. NoRows \in [{} -> Rows] /\ DOMAIN NoRows = {}
    BY DEF NoRows
  <2>2. {} \in SUBSET Trees
    OBVIOUS
  <2>3. QED
    BY <2>1, <2>2 DEF PartialRows
<1>2. NoHeads \in Heads
  BY DEF NoHeads, Heads
<1>3. NoList \in [Trees -> Sights]
  BY DEF NoList, Sights
<1>4. \A open \in BOOLEAN : EmptyRow(open) \in Rows
  BY DEF EmptyRow, Rows
<1>5. NoRemoval \in Removals /\ NoRemoval.at = "idle" /\ NoRemoval.todo = NoRows
  BY <1>1, <1>2, <1>4 DEF NoRemoval, Removals
<1>6. QED
  BY <1>1, <1>2, <1>3, <1>4, <1>5 DEF Idle, Gather, Gatherings

(* A row's place is one of the table.                                          *)
LEMMA PlaceInside ==
  ASSUME NEW rs \in PartialRows, NEW t \in DOMAIN rs
  PROVE  Place(rs, t) \in Nat /\ Place(rs, t) < Cardinality(DOMAIN rs)
<1> DEFINE before == {u \in DOMAIN rs : Before(rs, u, t)}
<1>1. DOMAIN rs \subseteq Trees /\ \A u \in DOMAIN rs : rs[u] \in Rows
  BY PartialType
<1>2. ~Before(rs, t, t)
  <2>1. t \in Nat
    BY <1>1, BoundAssumption DEF Trees
  <2>2. Order[rs[t].verdict] \in Nat
    BY <1>1 DEF Rows, Order
  <2>3. QED
    BY <2>1, <2>2 DEF Before
<1>3. IsFiniteSet(DOMAIN rs)
  BY <1>1, TreesFinite, FS_Subset
<1>4. IsFiniteSet(DOMAIN rs \ {t})
      /\ Cardinality(DOMAIN rs \ {t}) = Cardinality(DOMAIN rs) - 1
  BY <1>3, FS_RemoveElement
<1>5. before \in SUBSET (DOMAIN rs \ {t})
  BY <1>2
<1>6. IsFiniteSet(before) /\ Cardinality(before) <= Cardinality(DOMAIN rs \ {t})
  BY <1>4, <1>5, FS_Subset
<1>7. Cardinality(before) \in Nat /\ Cardinality(DOMAIN rs) \in Nat
  BY <1>3, <1>6, FS_CardinalityType
<1>8. Place(rs, t) = Cardinality(before)
  BY DEF Place
<1> HIDE DEF before
<1>9. QED
  BY <1>4, <1>6, <1>7, <1>8

LEMMA ClampInside ==
  ASSUME NEW rs \in PartialRows, NEW place \in Int
  PROVE  /\ Clamp(rs, place) \in Nat
         /\ Clamp(rs, place) > 0 => Clamp(rs, place) < Cardinality(DOMAIN rs)
<1>1. IsFiniteSet(DOMAIN rs)
  BY PartialType, TreesFinite, FS_Subset
<1>2. Cardinality(DOMAIN rs) \in Nat /\ (Cardinality(DOMAIN rs) = 0 => DOMAIN rs = {})
  BY <1>1, FS_CardinalityType, FS_EmptySet
<1>3. QED
  BY <1>2 DEF Clamp

-------------------------------------------------------------------------------
LEMMA RowsType ==
  ASSUME tree \in [Trees -> TreeStates], NEW t \in Trees, NEW sight, NEW hs
  PROVE  RowsFor(t, sight, hs) \subseteq Rows
<1>1. tree[t].head \in Commits
  BY DEF TreeStates
<1>2. \A open \in BOOLEAN : Judged(t, open, hs) \subseteq Rows
  BY <1>1, AssessType DEF Judged, Rows, Verdict
<1>3. EmptyRow(TRUE) \in Rows
  BY DEF EmptyRow, Rows
<1>4. (sight = "open") \in BOOLEAN
  OBVIOUS
<1>5. QED
  BY <1>2, <1>3, <1>4, Zenon DEF RowsFor

LEMMA TablesType ==
  ASSUME tree \in [Trees -> TreeStates], NEW rs \in Tables
  PROVE  /\ rs \in PartialRows
         /\ DOMAIN rs = {t \in Trees : gathering.list[t] # "unlisted"}
<1> DEFINE listed == {t \in Trees : gathering.list[t] # "unlisted"}
<1>1. rs \in [listed -> UNION {RowsFor(t, gathering.list[t], gathering.heads) : t \in listed}]
  BY DEF Tables
<1>2. \A t \in listed : RowsFor(t, gathering.list[t], gathering.heads) \subseteq Rows
  BY RowsType
<1>3. \A t \in listed : rs[t] \in Rows
  BY <1>1, <1>2
<1>4. QED
  BY <1>1, <1>3 DEF PartialRows

LEMMA SightType ==
  ASSUME NEW t, NEW answer
  PROVE  Sight(t, answer) \in Sights
BY DEF Sight, Sights

LEMMA SafeRowsType ==
  ASSUME rows \in PartialRows
  PROVE  /\ SafeRows \in PartialRows
         /\ DOMAIN SafeRows \subseteq DOMAIN rows
         /\ \A t \in DOMAIN SafeRows : SafeRows[t] = rows[t] /\ rows[t].verdict = "safe"
BY PartPartial DEF SafeRows

LEMMA StartGatherType ==
  ASSUME TypeOK, NEW hs \in Heads, StartGather(hs)
  PROVE  /\ gathering' \in Gatherings
         /\ gatherAgain' \in BOOLEAN
BY NothingType DEF StartGather, TypeOK

LEMMA LeastNatural ==
  ASSUME NEW S \in SUBSET Nat, S # {}
  PROVE  \E m \in S : \A n \in S : m <= n
<1> DEFINE R == {ss \in Nat \X Nat : ss[1] < ss[2]}
<1>1. IsWellFoundedOn(R, Nat)
  <2>1. R = OpToRel(<, Nat)
    BY Zenon DEF OpToRel
  <2>2. QED
    BY <2>1, NatLessThanWellFounded, Zenon
<1>2. \A n, m \in Nat : n < m => <<n, m>> \in R
  OBVIOUS
<1> HIDE DEF R
<1>3. PICK m \in S : \A n \in S : ~ (<<n, m>> \in R)
  BY <1>1, WFMin
<1>4. ASSUME NEW n \in S
      PROVE  m <= n
  <2>1. n \in Nat /\ m \in Nat
    OBVIOUS
  <2>2. ~(n < m)
    BY <1>2, <1>3, <2>1, Zenon
  <2>3. QED
    BY <2>1, <2>2
<1>5. QED
  BY <1>3, <1>4, Zenon

(* The row under removal is one of those to do.                                *)
LEMMA TargetListed ==
  ASSUME TypeOK, removing.at \in Looks \cup {"removing"}
  PROVE  Target \in DOMAIN removing.todo /\ Target \in Trees
<1>1. removing.todo \in PartialRows /\ DOMAIN removing.todo # {}
  BY DEF TypeOK, Removals
<1>2. DOMAIN removing.todo \subseteq Trees
  BY <1>1, PartialType
<1>3. Trees \subseteq Nat
  BY BoundAssumption DEF Trees
<1>4. \E t \in DOMAIN removing.todo : \A u \in DOMAIN removing.todo : t <= u
  BY <1>1, <1>2, <1>3, LeastNatural
<1>5. QED
  BY <1>2, <1>4 DEF Target

LEMMA DoneType ==
  ASSUME TypeOK, removing.at \in Looks \cup {"removing"}
  PROVE  /\ Done(removing) \in Removals
         /\ Done(removing).at \in Looks \cup {"removing"} <=> DOMAIN Done(removing).todo # {}
         /\ Done(removing).at \in {"checking", "answered"}
         /\ \A t \in DOMAIN Done(removing).todo :
              t \in DOMAIN removing.todo /\ Done(removing).todo[t] = removing.todo[t]
<1> DEFINE left == DOMAIN removing.todo \ {Target}
           rest == [t \in left |-> removing.todo[t]]
<1>1. removing \in Removals
  BY DEF TypeOK
<1>2. rest \in PartialRows /\ DOMAIN rest = left
  BY <1>1, PartPartial DEF Removals
<1>3. CASE left = {}
  <2>1. Done(removing) = [NoRemoval EXCEPT !.at = "answered"]
    BY <1>3 DEF Done
  <2>2. /\ Done(removing) \in Removals
        /\ Done(removing).at = "answered"
        /\ Done(removing).todo = NoRows
    BY <2>1, NothingType DEF NoRemoval, Removals
  <2>3. QED
    BY <2>2, NothingType DEF Looks
<1>4. CASE left # {}
  <2>1. Done(removing) = [removing EXCEPT !.at = "checking", !.todo = rest,
                                          !.row = EmptyRow(FALSE)]
    BY <1>4 DEF Done
  <2>2. \A t \in DOMAIN rest : t \in DOMAIN removing.todo /\ rest[t] = removing.todo[t]
    OBVIOUS
  <2> HIDE DEF rest
  <2>3. EmptyRow(FALSE) \in Rows
    BY NothingType
  <2>5. /\ Done(removing) \in Removals
        /\ Done(removing).at = "checking"
        /\ Done(removing).todo = rest
    BY <1>1, <1>2, <2>1, <2>3 DEF Removals, Looks
  <2>6. QED
    BY <1>2, <1>4, <2>2, <2>5 DEF Looks
<1>5. QED
  BY <1>3, <1>4

LEMMA EndType ==
  ASSUME TypeOK, NEW s \in {"waiting", "closed"}, EndLoop(s),
         UNCHANGED tree, UNCHANGED deeds, removing' \in Removals, quitAsked' \in BOOLEAN,
         removing'.at \in Looks \cup {"removing"} <=> DOMAIN removing'.todo # {},
         approved' \in PartialRows, past' \subseteq TreeStates, UNCHANGED removed,
         past' # {} => removing'.at \in Looks \cup {"removing"}
  PROVE  TypeOK'
<1>1. /\ screen' \in {"open", "waiting", "closed"}
      /\ assessing' = TRUE /\ rows' = NoRows /\ cursor' = 0 /\ confirm' = NoRows
      /\ heads' = NoHeads /\ gathering' = Idle /\ gatherAgain' = FALSE
      /\ firstGather' = TRUE /\ fetching' = FALSE /\ shown' = "failed"
      /\ seen' = NoRows
  BY DEF EndLoop
<1>2. gathering' \in Gatherings
  BY <1>1, NothingType
<1>3. NoRows \in PartialRows /\ NoHeads \in Heads /\ 0 \in Nat
  BY NothingType
<1>4. cursor' > 0 => cursor' < Cardinality(DOMAIN rows')
  BY <1>1
<1>5. QED
  BY <1>1, <1>2, <1>3, <1>4, Zenon DEF TypeOK

LEMMA InitType == Init => TypeOK
<1> SUFFICES ASSUME Init PROVE TypeOK
  OBVIOUS
<1>1. tree \in [Trees -> TreeStates]
  BY BoundAssumption DEF Init
<1>2. rows \in PartialRows
  <2>1. PICK reached \in BOOLEAN :
          rows = [t \in {u \in Trees : Start[u].there} |->
                    EmptyRow(reached /\ Start[t].agent # "closed")]
    BY DEF Init
  <2>2. \A t \in Trees : EmptyRow(reached /\ Start[t].agent # "closed") \in Rows
    BY DEF EmptyRow, Rows
  <2>3. QED
    BY <2>1, <2>2 DEF PartialRows
<1>3. deeds \in 0..MaxDeeds
  BY BoundAssumption DEF Init
<1>4. /\ removing \in Removals /\ gathering \in Gatherings
      /\ removing.at \in Looks \cup {"removing"} <=> DOMAIN removing.todo # {}
  BY NothingType DEF Init, Looks
<1>5. cursor \in Nat /\ (cursor > 0 => cursor < Cardinality(DOMAIN rows))
  BY DEF Init
<1>6. /\ confirm \in PartialRows /\ heads \in Heads
      /\ seen \in PartialRows /\ approved \in PartialRows
  BY NothingType DEF Init
<1>7. /\ screen \in {"open", "waiting", "closed"} /\ assessing \in BOOLEAN
      /\ gatherAgain \in BOOLEAN /\ firstGather \in BOOLEAN /\ fetching \in BOOLEAN
      /\ quitAsked \in BOOLEAN /\ past = {}
      /\ removed \subseteq Trees /\ shown \in {"latest", "older", "failed"}
  BY DEF Init
<1>8. QED
  BY <1>1, <1>2, <1>3, <1>4, <1>5, <1>6, <1>7, Zenon DEF TypeOK

LEMMA SuccessorsType ==
  ASSUME NEW w \in TreeStates
  PROVE  Successors(w) \subseteq TreeStates
<1>1. \A h \in Commits : /\ [w EXCEPT !.head = h] \in TreeStates
                         /\ [w EXCEPT !.head = h, !.dirty = FALSE] \in TreeStates
  BY DEF TreeStates
<1>2. /\ [w EXCEPT !.pushed = w.head, !.lost = FALSE] \in TreeStates
      /\ \A h \in {w.pushed, w.head} : [w EXCEPT !.landed = h] \in TreeStates
  BY DEF TreeStates
<1>3. /\ [w EXCEPT !.dirty = ~@] \in TreeStates
      /\ [w EXCEPT !.lost = TRUE] \in TreeStates
      /\ [w EXCEPT !.there = FALSE, !.agent = "closed"] \in TreeStates
      /\ \A a \in Agents : [w EXCEPT !.agent = a] \in TreeStates
  BY DEF TreeStates, Agents
<1>4. QED
  BY <1>1, <1>2, <1>3, Zenon DEF Successors

(* The moments of a look stay states of a worktree.                            *)
LEMMA PastType ==
  ASSUME TypeOK, tree' \in [Trees -> TreeStates],
         past' = IF past = {} THEN {} ELSE past \cup {tree'[Target]}
  PROVE  past' \subseteq TreeStates
BY TargetListed DEF TypeOK

LEMMA DeedType ==
  ASSUME TypeOK, Deed
  PROVE  deeds' \in 0..MaxDeeds
BY BoundAssumption DEF TypeOK, Deed

LEMMA SomeRows ==
  ASSUME NEW rs \in PartialRows
  PROVE  rs # NoRows <=> DOMAIN rs # {}
BY NothingType, PartialType DEF NoRows

LEMMA StartRemovalType ==
  ASSUME TypeOK, NEW rs \in PartialRows, DOMAIN rs # {}, StartRemoval(rs)
  PROVE  /\ removing' \in Removals
         /\ removing'.at \in Looks \cup {"removing"} <=> DOMAIN removing'.todo # {}
<1>1. heads \in Heads
  BY DEF TypeOK
<1>2. removing' = [NoRemoval EXCEPT !.at = "checking", !.todo = rs, !.heads = heads]
  BY DEF StartRemoval
<1>3. removing' \in Removals /\ removing'.at = "checking" /\ removing'.todo = rs
  BY <1>1, <1>2, NothingType DEF Removals, Looks
<1>4. QED
  BY <1>3 DEF Looks

(* What a look finds out, step by step, until the command may be given.        *)
LEMMA LookType ==
  ASSUME TypeOK,
         CheckList \/ CheckAgents \/ CheckFiles \/ CheckHead \/ CheckCommits
  PROVE  /\ removing' \in Removals
         /\ removing'.at \in Looks \cup {"removing"}
         /\ removing.at \in Looks
         /\ removing'.todo = removing.todo
         /\ past' \subseteq TreeStates
<1>1. removing \in Removals /\ tree \in [Trees -> TreeStates] /\ past \subseteq TreeStates
  BY DEF TypeOK
<1>2. removing.at \in Looks
  BY DEF CheckList, CheckAgents, CheckFiles, CheckHead, CheckCommits, Looks
<1>3. Target \in Trees
  BY <1>2, TargetListed
<1>4. CASE CheckList
  <2>1. PICK answered \in BOOLEAN :
          removing' = [removing EXCEPT !.at = "agents",
                         !.row = EmptyRow(answered /\ tree[Target].agent # "closed")]
    BY <1>4 DEF CheckList
  <2>2. EmptyRow(answered /\ tree[Target].agent # "closed") \in Rows
    BY NothingType
  <2>3. past' = {tree[Target]}
    BY <1>4 DEF CheckList
  <2>4. QED
    BY <1>1, <1>2, <1>3, <2>1, <2>2, <2>3 DEF Removals, Looks
<1>5. CASE CheckAgents
  BY <1>1, <1>2, <1>5 DEF CheckAgents, Removals, Looks, ghosts
<1>6. CASE CheckFiles
  BY <1>1, <1>2, <1>6 DEF CheckFiles, Removals, Looks, ghosts
<1>7. CASE CheckHead
  <2>1. tree[Target].head \in Commits
    BY <1>1, <1>3 DEF TreeStates
  <2>2. [removing.row EXCEPT !.head = tree[Target].head] \in Rows
    BY <1>1, <2>1 DEF Removals, Rows
  <2>3. removing' = [removing EXCEPT !.at = "commits",
                                     !.row = [removing.row EXCEPT !.head = tree[Target].head]]
    BY <1>1, <1>7 DEF CheckHead, Removals
  <2>4. QED
    BY <1>1, <1>2, <1>7, <2>2, <2>3 DEF CheckHead, Removals, Looks, ghosts
<1>8. CASE CheckCommits
  <2>1. PICK f : removing' = [removing EXCEPT !.at = "removing",
                                !.row = [removing.row EXCEPT !.verdict = Assess(f)]]
    BY <1>8 DEF CheckCommits
  <2>2. [removing.row EXCEPT !.verdict = Assess(f)] \in Rows
    BY <1>1, AssessType DEF Removals, Rows, Verdict
  <2>3. QED
    BY <1>1, <1>2, <1>8, <2>1, <2>2 DEF CheckCommits, Removals, Looks, ghosts
<1>9. QED
  BY <1>4, <1>5, <1>6, <1>7, <1>8

LEMMA StepType == TypeOK /\ [Next]_vars => TypeOK'
<1> SUFFICES ASSUME TypeOK, [Next]_vars PROVE TypeOK'
  OBVIOUS
<1> USE DEF table, work, world, ghosts
<1>1. CASE ListTrees
  <2>1. PICK answer \in Answers :
          gathering' = [gathering EXCEPT !.at = "listed",
                                         !.list = [t \in Trees |-> Sight(t, answer)]]
    BY <1>1 DEF ListTrees
  <2>2. [t \in Trees |-> Sight(t, answer)] \in [Trees -> Sights]
    BY SightType
  <2>3. gathering' \in Gatherings
    BY <2>1, <2>2 DEF TypeOK, Gatherings
  <2>4. QED
    BY <1>1, <2>3 DEF ListTrees, TypeOK
<1>2. CASE CheckList \/ CheckAgents \/ CheckFiles \/ CheckHead \/ CheckCommits
  <2>1. /\ removing' \in Removals /\ past' \subseteq TreeStates
        /\ removing'.at \in Looks \cup {"removing"}
        /\ removing'.at \in Looks \cup {"removing"} <=> DOMAIN removing'.todo # {}
    BY <1>2, LookType DEF TypeOK
  <2>2. UNCHANGED <<world, screen, table, heads, work, quitAsked, seen, approved, removed,
                    shown>>
    BY <1>2 DEF CheckList, CheckAgents, CheckFiles, CheckHead, CheckCommits
  <2>3. QED
    BY <2>1, <2>2 DEF TypeOK
<1>20. CASE PassOver
  <2>1. /\ removing' \in Removals
        /\ removing'.at \in Looks \cup {"removing"} <=> DOMAIN removing'.todo # {}
    BY <1>20, DoneType DEF PassOver
  <2>2. QED
    BY <1>20, <2>1 DEF PassOver, TypeOK
<1>3. CASE RemoveTarget
  <2>1. removing.at = "removing" /\ Target \in Trees
    BY <1>3, TargetListed DEF RemoveTarget
  <2>2. /\ removing' \in Removals
        /\ removing'.at \in Looks \cup {"removing"} <=> DOMAIN removing'.todo # {}
    BY <1>3, <2>1, DoneType DEF RemoveTarget
  <2>3. removed' \subseteq Trees
    BY <1>3, <2>1 DEF RemoveTarget, TypeOK
  <2>4. [tree EXCEPT ![Target].there = FALSE, ![Target].agent = "closed"] \in [Trees -> TreeStates]
    <3>1. tree \in [Trees -> TreeStates] /\ Target \in Trees
      BY <2>1 DEF TypeOK
    <3>2. QED
      BY <3>1 DEF TreeStates, Agents
  <2>5. tree' \in [Trees -> TreeStates]
    BY <1>3, <2>4 DEF RemoveTarget, TypeOK
  <2>6. QED
    BY <1>3, <2>2, <2>3, <2>5 DEF RemoveTarget, TypeOK
<1>4. CASE GatherArrives
  <2>1. /\ gathering' \in Gatherings /\ gatherAgain' \in BOOLEAN
        /\ firstGather' \in BOOLEAN /\ fetching' \in BOOLEAN
        /\ shown' \in {"latest", "older", "failed"}
    BY <1>4, NothingType DEF GatherArrives, StartFetch, TypeOK
  <2>2. /\ rows' \in PartialRows /\ assessing' \in BOOLEAN /\ cursor' \in Nat
        /\ cursor' > 0 => cursor' < Cardinality(DOMAIN rows')
    <3>1. CASE UNCHANGED <<rows, assessing, cursor>>
      BY <3>1 DEF TypeOK
    <3>2. ASSUME NEW rs \in Tables, ReplaceRows(rs)
          PROVE  /\ rows' \in PartialRows /\ assessing' \in BOOLEAN /\ cursor' \in Nat
                 /\ cursor' > 0 => cursor' < Cardinality(DOMAIN rows')
      <4>1. rs \in PartialRows
        BY TablesType DEF TypeOK
      <4>2. CASE Selected \cap DOMAIN rs = {}
        <5>1. cursor \in Int
          BY DEF TypeOK
        <5>2. Clamp(rs, cursor) \in Nat
                /\ (Clamp(rs, cursor) > 0 => Clamp(rs, cursor) < Cardinality(DOMAIN rs))
          BY <4>1, <5>1, ClampInside
        <5>3. cursor' = Clamp(rs, cursor) /\ rows' = rs /\ assessing' = FALSE
          BY <3>2, <4>2 DEF ReplaceRows
        <5>4. QED
          BY <4>1, <5>2, <5>3
      <4>3. CASE Selected \cap DOMAIN rs # {}
        <5>1. cursor' \in {Place(rs, t) : t \in Selected \cap DOMAIN rs}
          BY <3>2, <4>3 DEF ReplaceRows
        <5>2. QED
          BY <3>2, <4>1, <5>1, PlaceInside DEF ReplaceRows
      <4>4. QED
        BY <4>2, <4>3
    <3>3. QED
      BY <1>4, <3>1, <3>2 DEF GatherArrives
  <2>3. QED
    BY <1>4, <2>1, <2>2 DEF GatherArrives, TypeOK
<1>5. CASE FetchArrives
  <2>1. heads' \in Heads
    <3>1. \A gone \in SUBSET Trees : [known |-> TRUE, gone |-> gone] \in Heads
      BY DEF Heads
    <3>2. {t \in Trees : tree[t].lost} \in SUBSET Trees
      OBVIOUS
    <3>3. QED
      BY <1>5, <3>1, <3>2, NothingType DEF FetchArrives
  <2>2. gathering' \in Gatherings /\ gatherAgain' \in BOOLEAN
    BY <1>5, <2>1, StartGatherType DEF FetchArrives
  <2>3. QED
    BY <1>5, <2>1, <2>2 DEF FetchArrives, TypeOK
<1>6. CASE RemoveArrives
  <2>1. /\ removing' \in Removals /\ approved' \in PartialRows
        /\ removing'.at \in Looks \cup {"removing"} <=> DOMAIN removing'.todo # {}
    BY <1>6, NothingType DEF RemoveArrives, Looks
  <2>5. past' = {}
    BY <1>6 DEF RemoveArrives, TypeOK, Looks
  <2>2. CASE quitAsked /\ EndLoop("closed")
    BY <1>6, <2>1, <2>2, <2>5, EndType DEF RemoveArrives, TypeOK
  <2>3. CASE ~quitAsked /\ StartGather(heads) /\ UNCHANGED screen
    <3>1. gathering' \in Gatherings /\ gatherAgain' \in BOOLEAN
      BY <2>3, StartGatherType DEF TypeOK
    <3>2. QED
      BY <1>6, <2>1, <2>3, <2>5, <3>1 DEF RemoveArrives, TypeOK, EndLoop
  <2>4. QED
    BY <1>6, <2>2, <2>3 DEF RemoveArrives
<1>7. CASE RemovalAwaited
  BY <1>7, NothingType DEF RemovalAwaited, TypeOK, Looks
<1>8. CASE MoveCursor
  <2>1. PICK delta \in {-1, 1} : cursor' = Clamp(rows, cursor + delta)
    BY <1>8 DEF MoveCursor
  <2>2. cursor' \in Nat /\ (cursor' > 0 => cursor' < Cardinality(DOMAIN rows))
    BY <2>1, ClampInside DEF TypeOK
  <2>3. QED
    BY <1>8, <2>2 DEF MoveCursor, TypeOK
<1>9. CASE RemoveSelected
  <2>1. PICK t \in Selected \cap DOMAIN SafeRows : StartRemoval([u \in {t} |-> rows[u]])
    BY <1>9 DEF RemoveSelected
  <2>2. rows \in PartialRows /\ t \in DOMAIN rows
    BY <2>1, SafeRowsType DEF TypeOK
  <2>4. [u \in {t} |-> rows[u]] \in PartialRows
    BY <2>2, PartPartial
  <2>5. /\ removing' \in Removals
        /\ removing'.at \in Looks \cup {"removing"} <=> DOMAIN removing'.todo # {}
    BY <2>1, <2>4, StartRemovalType
  <2>6. approved' \in PartialRows
    BY <1>9, <2>2 DEF RemoveSelected
  <2>7. deeds' \in 0..MaxDeeds
    BY <1>9, DeedType DEF RemoveSelected
  <2>8. past' = {}
    BY <1>9 DEF RemoveSelected, Busy, TypeOK, Looks
  <2>9. QED
    BY <1>9, <2>5, <2>6, <2>7, <2>8 DEF RemoveSelected, TypeOK
<1>10. CASE RemoveAllSafe
  <2>1. deeds' \in 0..MaxDeeds
    BY <1>10, DeedType DEF RemoveAllSafe
  <2>2. SafeRows \in PartialRows
    BY SafeRowsType DEF TypeOK
  <2>3. QED
    BY <1>10, <2>1, <2>2 DEF RemoveAllSafe, TypeOK
<1>11. CASE ConfirmYes
  <2>1. confirm \in PartialRows /\ DOMAIN confirm # {}
    BY <1>11, SomeRows DEF ConfirmYes, Asked, TypeOK
  <2>2. /\ removing' \in Removals /\ approved' \in PartialRows
        /\ removing'.at \in Looks \cup {"removing"} <=> DOMAIN removing'.todo # {}
    <3>1. CASE UNCHANGED <<removing, approved>>
      BY <3>1 DEF TypeOK
    <3>2. CASE StartRemoval(confirm) /\ approved' = seen
      BY <2>1, <3>2, StartRemovalType DEF TypeOK
    <3>3. QED
      BY <1>11, <3>1, <3>2 DEF ConfirmYes
  <2>3. confirm' \in PartialRows
    BY <1>11, NothingType DEF ConfirmYes
  <2>4. past' # {} => removing'.at \in Looks \cup {"removing"}
    BY <1>11 DEF ConfirmYes, Busy, TypeOK, Looks
  <2>5. QED
    BY <1>11, <2>2, <2>3, <2>4 DEF ConfirmYes, TypeOK
<1>12. CASE ConfirmNo
  BY <1>12, NothingType DEF ConfirmNo, TypeOK
<1>13. CASE Refresh
  <2>1. deeds' \in 0..MaxDeeds
    BY <1>13, DeedType DEF Refresh
  <2>2. QED
    BY <1>13, <2>1 DEF Refresh, StartFetch, TypeOK
<1>14. CASE Quit
  <2>1. CASE ~Busy /\ EndLoop("closed") /\ UNCHANGED quitAsked
    BY <1>14, <2>1, EndType DEF Quit, TypeOK
  <2>2. CASE Busy /\ quitAsked' = TRUE /\ confirm' = NoRows /\ seen' = NoRows
             /\ UNCHANGED <<screen, assessing, rows, cursor, heads, work, shown>>
    BY <1>14, <2>2, NothingType DEF Quit, TypeOK
  <2>3. QED
    BY <1>14, <2>1, <2>2 DEF Quit
<1>15. CASE Open
  BY <1>15, EndType DEF Open, TypeOK
<1>16. CASE InputEnds
  BY <1>16, EndType DEF InputEnds, TypeOK
<1>17. CASE Change
  <2>1. deeds' \in 0..MaxDeeds
    BY <1>17, DeedType DEF Change
  <2>2. PICK t \in {u \in Trees : tree[u].there} : \E w \in Successors(tree[t]) \ {tree[t]} :
          tree' = [tree EXCEPT ![t] = w]
    BY <1>17 DEF Change
  <2>3. tree[t] \in TreeStates
    BY <2>2 DEF TypeOK
  <2>4. Successors(tree[t]) \subseteq TreeStates
    BY <2>3, SuccessorsType
  <2>5. tree' \in [Trees -> TreeStates]
    BY <2>2, <2>4 DEF TypeOK
  <2>6. past' \subseteq TreeStates
    BY <1>17, <2>5, PastType DEF Change
  <2>7. QED
    BY <1>17, <2>1, <2>5, <2>6 DEF Change, TypeOK
<1>18. CASE UNCHANGED vars
  BY <1>18 DEF vars, TypeOK
<1>19. QED
  BY <1>1, <1>2, <1>3, <1>4, <1>5, <1>6, <1>7, <1>8, <1>9, <1>10, <1>11, <1>12, <1>13,
     <1>14, <1>15, <1>16, <1>17, <1>18, <1>20
     DEF Next, Background, Removal, Results, Keys

(* Every variable keeps its type, the cursor never points beyond the rows, and *)
(* a removal has rows left exactly while it works on them.                     *)
THEOREM TypeCorrect == Spec => []TypeOK
<1>1. Init => TypeOK
  BY InitType
<1>2. TypeOK /\ [Next]_vars => TypeOK'
  BY StepType
<1>3. QED
  BY <1>1, <1>2, PTL DEF Spec

-------------------------------------------------------------------------------
(* The question is about safe rows of the table that it was asked over.        *)
ShownInv ==
    /\ OnlyShownRemoved
    /\ \A t \in DOMAIN confirm :
         t \in DOMAIN seen /\ confirm[t] = seen[t] /\ seen[t].verdict = "safe"

LEMMA ShownStep == TypeOK /\ ShownInv /\ [Next]_vars => ShownInv'
<1> SUFFICES ASSUME TypeOK, ShownInv, [Next]_vars PROVE ShownInv'
  OBVIOUS
<1> USE DEF table, work, world, ghosts
<1>1. ASSUME UNCHANGED <<removing, approved>>, UNCHANGED <<confirm, seen>> \/ confirm' = NoRows
      PROVE  ShownInv'
  BY <1>1, NothingType DEF ShownInv, OnlyShownRemoved
<1>2. ASSUME UNCHANGED <<confirm, seen, approved>>,
             \A t \in DOMAIN removing'.todo :
               t \in DOMAIN removing.todo /\ removing'.todo[t] = removing.todo[t]
      PROVE  ShownInv'
  BY <1>2 DEF ShownInv, OnlyShownRemoved
<1>3. ASSUME removing' = NoRemoval, UNCHANGED <<confirm, seen>> \/ confirm' = NoRows
      PROVE  ShownInv'
  BY <1>3, NothingType DEF ShownInv, OnlyShownRemoved
<1>4. ASSUME NEW rs, StartRemoval(rs), UNCHANGED <<confirm, seen>> \/ confirm' = NoRows,
             \A t \in DOMAIN rs :
               t \in DOMAIN approved' /\ rs[t] = approved'[t] /\ rs[t].verdict = "safe"
      PROVE  ShownInv'
  <2>1. removing' = [NoRemoval EXCEPT !.at = "checking", !.todo = rs, !.heads = heads]
    BY <1>4 DEF StartRemoval
  <2>2. removing'.todo = rs
    BY <2>1 DEF NoRemoval
  <2>3. QED
    BY <1>4, <2>2, NothingType DEF ShownInv, OnlyShownRemoved
<1>5. CASE CheckList \/ CheckAgents \/ CheckFiles \/ CheckHead \/ CheckCommits
  <2>1. removing'.todo = removing.todo
    BY <1>5, LookType
  <2>2. UNCHANGED <<confirm, seen, approved>>
    BY <1>5 DEF CheckList, CheckAgents, CheckFiles, CheckHead, CheckCommits
  <2>3. QED
    BY <1>2, <2>1, <2>2
<1>6. CASE PassOver \/ RemoveTarget
  BY <1>2, <1>6, DoneType DEF PassOver, RemoveTarget
<1>7. CASE RemoveArrives
  BY <1>3, <1>7 DEF RemoveArrives, EndLoop
<1>8. CASE RemovalAwaited
  BY <1>3, <1>8 DEF RemovalAwaited
<1>9. CASE RemoveSelected
  <2>1. PICK t \in Selected \cap DOMAIN SafeRows : StartRemoval([u \in {t} |-> rows[u]])
    BY <1>9 DEF RemoveSelected
  <2>2. t \in DOMAIN rows /\ rows[t].verdict = "safe"
    BY <2>1, SafeRowsType DEF TypeOK
  <2>3. approved' = rows /\ UNCHANGED <<confirm, seen>>
    BY <1>9 DEF RemoveSelected
  <2>4. QED
    BY <1>4, <2>1, <2>2, <2>3
<1>10. CASE RemoveAllSafe
  <2>1. \A t \in DOMAIN confirm' :
          t \in DOMAIN seen' /\ confirm'[t] = seen'[t] /\ seen'[t].verdict = "safe"
    BY <1>10, SafeRowsType DEF RemoveAllSafe, TypeOK
  <2>2. QED
    BY <1>10, <2>1 DEF RemoveAllSafe, ShownInv, OnlyShownRemoved
<1>11. CASE ConfirmYes
  <2>1. CASE UNCHANGED <<removing, approved>>
    BY <1>1, <1>11, <2>1 DEF ConfirmYes
  <2>2. CASE StartRemoval(confirm) /\ approved' = seen
    BY <1>4, <1>11, <2>2 DEF ConfirmYes, ShownInv
  <2>3. QED
    BY <1>11, <2>1, <2>2 DEF ConfirmYes
<1>12. CASE Quit \/ Open \/ InputEnds
  BY <1>1, <1>12 DEF Quit, Open, InputEnds, EndLoop
<1>13. CASE \/ ListTrees \/ GatherArrives \/ FetchArrives \/ MoveCursor
             \/ ConfirmNo \/ Refresh \/ Change \/ UNCHANGED vars
  <2>1. UNCHANGED <<removing, approved>> /\ (UNCHANGED <<confirm, seen>> \/ confirm' = NoRows)
    BY <1>13 DEF ListTrees, GatherArrives, FetchArrives, MoveCursor, ConfirmNo, Refresh,
                 Change, vars
  <2>2. QED
    BY <1>1, <2>1
<1>14. QED
  BY <1>5, <1>6, <1>7, <1>8, <1>9, <1>10, <1>11, <1>12, <1>13
     DEF Next, Background, Removal, Results, Keys

(* Whatever the background brings while a question is on the screen, only what *)
(* the table showed as safe when it was asked is removed, and as it was shown. *)
THEOREM OnlyWhatWasShown == Spec => []OnlyShownRemoved
<1>1. Init => ShownInv
  BY NothingType DEF Init, ShownInv, OnlyShownRemoved
<1>2. TypeOK /\ ShownInv /\ [Next]_vars => ShownInv'
  BY ShownStep
<1>3. ShownInv => OnlyShownRemoved
  BY DEF ShownInv
<1>4. QED
  BY <1>1, <1>2, <1>3, TypeCorrect, PTL DEF Spec

-------------------------------------------------------------------------------
(* What each step of a look leaves behind: a moment, since the look began, at  *)
(* which it was so.  Later moments only add to them.                           *)
AfterList == {"agents", "files", "head", "commits", "removing"}
AfterAgents == {"files", "head", "commits", "removing"}
AfterFiles == {"head", "commits", "removing"}
AfterHead == {"commits", "removing"}

LookInv ==
    /\ removing.at \in AfterList => tree[Target] \in past
    /\ removing.at \in AfterAgents /\ removing.row.open =>
         \E w \in past : w.agent = "resting"
    /\ removing.at \in AfterFiles => \E w \in past : w.there /\ ~w.dirty
    /\ removing.at \in AfterHead => \E w \in past : w.head = removing.row.head
    /\ removing.at = "removing" =>
         /\ removing.row.head = removing.todo[Target].head
         /\ removing.row.open = removing.todo[Target].open
         /\ \E w \in past : Secured(w, removing.row.head)

(* A look begins anew with every target, and while it goes on the moments add  *)
(* up.                                                                         *)
LEMMA NoLook ==
  ASSUME removing'.at \notin AfterList
  PROVE  LookInv'
BY DEF LookInv, AfterList, AfterAgents, AfterFiles, AfterHead

LEMMA LookGoesOn ==
  ASSUME LookInv, UNCHANGED removing, past \subseteq past',
         removing.at \in AfterList => tree'[Target] \in past'
  PROVE  LookInv'
<1>1. Target' = Target
  BY DEF Target
<1>2. QED
  BY <1>1, Zenon DEF LookInv, Secured

(* A commit that was judged safe is in the remote or in an integration branch. *)
LEMMA SafeCommit ==
  ASSUME TypeOK, NEW t \in Trees, NEW commit \in Commits, NEW hs, NEW f,
         f \in FactsOf(t, [tree[t] EXCEPT !.head = commit, !.dirty = FALSE], hs),
         Assess(f) = "safe"
  PROVE  Secured(tree[t], commit)
<1> DEFINE w == [tree[t] EXCEPT !.head = commit, !.dirty = FALSE]
<1>1. tree[t] \in TreeStates
  BY DEF TypeOK
<1>2. w.head = commit /\ w.pushed = tree[t].pushed /\ w.landed = tree[t].landed
  BY <1>1 DEF TreeStates
<1>3. f.merged \/ f.ahead = 0
  BY DEF Assess, GoneAndPushed
<1> HIDE DEF w
<1>4. f \in FactsOf(t, w, hs)
  BY DEF w
<1>5. f.ahead = Ahead(w) /\ (f.merged => Merged(w))
  BY <1>4 DEF FactsOf
<1>6. CASE f.merged
  BY <1>2, <1>5, <1>6 DEF Merged, Secured
<1>7. CASE f.ahead = 0
  <2>1. commit \in Int /\ tree[t].pushed \in Int
    BY <1>1 DEF TreeStates, Commits
  <2>2. Ahead(w) = 0
    BY <1>5, <1>7
  <2>3. QED
    BY <1>2, <2>1, <2>2 DEF Ahead, Secured
<1>8. QED
  BY <1>3, <1>6, <1>7

LEMMA LookStep == TypeOK /\ LookInv /\ [Next]_vars => LookInv'
<1> SUFFICES ASSUME TypeOK, LookInv, [Next]_vars PROVE LookInv'
  OBVIOUS
<1> USE DEF table, work, world, ghosts
<1>1. ASSUME UNCHANGED <<tree, removing, past>>
      PROVE  LookInv'
  BY <1>1, LookGoesOn DEF LookInv
<1>2. ASSUME UNCHANGED <<tree, past>>, removing'.todo = removing.todo
      PROVE  Target' = Target /\ (removing.at \in AfterList => tree'[Target'] \in past')
  BY <1>2 DEF LookInv, Target
<1>3. CASE CheckList
  <2>1. /\ removing'.at = "agents" /\ removing'.todo = removing.todo
        /\ past' = {tree[Target]} /\ tree' = tree
    BY <1>3 DEF CheckList, TypeOK, Removals
  <2>2. Target' = Target
    BY <2>1 DEF Target
  <2>3. QED
    BY <2>1, <2>2 DEF LookInv, AfterAgents, AfterFiles, AfterHead
<1>4. CASE CheckAgents
  <2>1. /\ removing.at = "agents" /\ removing'.at = "files"
        /\ removing'.todo = removing.todo /\ removing'.row = removing.row
        /\ UNCHANGED <<tree, past>>
        /\ removing.row.open => tree[Target].agent = "resting"
    BY <1>4 DEF CheckAgents, TypeOK, Removals
  <2>2. Target' = Target /\ tree[Target] \in past
    BY <2>1 DEF Target, LookInv, AfterList
  <2>3. QED
    BY <2>1, <2>2 DEF LookInv, AfterFiles, AfterHead
<1>5. CASE CheckFiles
  <2>1. /\ removing.at = "files" /\ removing'.at = "head"
        /\ removing'.todo = removing.todo /\ removing'.row = removing.row
        /\ UNCHANGED <<tree, past>>
        /\ tree[Target].there /\ ~tree[Target].dirty
    BY <1>5 DEF CheckFiles, TypeOK, Removals
  <2>2. Target' = Target /\ tree[Target] \in past
    BY <2>1 DEF Target, LookInv, AfterList
  <2>3. removing.at \in AfterAgents
    BY <2>1 DEF AfterAgents
  <2>4. QED
    BY <2>1, <2>2, <2>3 DEF LookInv, AfterHead
<1>6. CASE CheckHead
  <2>1. /\ removing.at = "head" /\ removing'.at = "commits"
        /\ removing'.todo = removing.todo
        /\ removing'.row = [removing.row EXCEPT !.head = tree[Target].head]
        /\ UNCHANGED <<tree, past>>
    BY <1>6 DEF CheckHead, TypeOK, Removals
  <2>2. removing'.row.open = removing.row.open /\ removing'.row.head = tree[Target].head
    BY <2>1 DEF TypeOK, Removals, Rows
  <2>3. Target' = Target /\ tree[Target] \in past
    BY <2>1 DEF Target, LookInv, AfterList
  <2>4. removing.at \in AfterAgents /\ removing.at \in AfterFiles
    BY <2>1 DEF AfterAgents, AfterFiles
  <2>5. QED
    BY <2>1, <2>2, <2>3, <2>4 DEF LookInv
<1>7. CASE CheckCommits
  <2>1. removing.at = "commits" /\ Target \in Trees /\ removing \in Removals
    BY <1>7, TargetListed DEF CheckCommits, TypeOK, Looks
  <2>2. PICK f \in FactsOf(Target, [tree[Target] EXCEPT !.head = removing.row.head,
                                                       !.dirty = FALSE], removing.heads) :
          LET row == [removing.row EXCEPT !.verdict = Assess(f)] IN
          /\ RemovalCheck(removing.todo[Target], row)
          /\ removing' = [removing EXCEPT !.at = "removing", !.row = row]
    BY <1>7 DEF CheckCommits
  <2> DEFINE row == [removing.row EXCEPT !.verdict = Assess(f)]
  <2>3. /\ row.head = removing.row.head /\ row.open = removing.row.open
        /\ row.verdict = Assess(f)
    BY <2>1 DEF Removals, Rows
  <2>4. /\ row.head = removing.todo[Target].head /\ row.open = removing.todo[Target].open
        /\ row.verdict = "safe" /\ row.head # NoHead
    BY <2>2 DEF RemovalCheck
  <2>5. /\ removing'.at = "removing" /\ removing'.todo = removing.todo
        /\ removing'.row = row
    BY <2>1, <2>2 DEF Removals
  <2> HIDE DEF row
  <2>6. removing.row.head \in Commits
    BY <2>1, <2>3, <2>4 DEF Removals, Rows
  <2>7. Secured(tree[Target], removing.row.head)
    BY <2>1, <2>2, <2>3, <2>4, <2>6, SafeCommit
  <2>8. UNCHANGED <<tree, past>>
    BY <1>7 DEF CheckCommits
  <2>9. Target' = Target /\ tree[Target] \in past
    BY <2>1, <2>5 DEF Target, LookInv, AfterList
  <2>10. /\ removing.at \in AfterAgents /\ removing.at \in AfterFiles
         /\ removing.at \in AfterHead
    BY <2>1 DEF AfterAgents, AfterFiles, AfterHead
  <2>11. \E w \in past' : Secured(w, removing'.row.head)
    BY <2>3, <2>5, <2>7, <2>8, <2>9
  <2>12. QED
    BY <2>3, <2>4, <2>5, <2>8, <2>9, <2>10, <2>11 DEF LookInv
<1>8. CASE PassOver \/ RemoveTarget
  <2>1. removing.at \in Looks \cup {"removing"}
    BY <1>8 DEF PassOver, RemoveTarget
  <2>2. removing'.at \in {"checking", "answered"}
    BY <1>8, <2>1, DoneType DEF PassOver, RemoveTarget
  <2>3. QED
    BY <2>2, NoLook DEF AfterList
<1>9. CASE RemoveArrives \/ RemovalAwaited
  BY <1>9, NothingType, NoLook DEF RemoveArrives, RemovalAwaited, AfterList
<1>10. CASE RemoveSelected \/ ConfirmYes
  <2>1. CASE UNCHANGED removing
    BY <1>1, <1>10, <2>1 DEF RemoveSelected, ConfirmYes
  <2>2. ASSUME NEW rs, StartRemoval(rs)
        PROVE  LookInv'
    <3>1. removing' = [NoRemoval EXCEPT !.at = "checking", !.todo = rs, !.heads = heads]
      BY <2>2 DEF StartRemoval
    <3>2. removing'.at = "checking"
      BY <3>1 DEF NoRemoval
    <3>3. QED
      BY <3>2, NoLook DEF AfterList
  <2>3. QED
    BY <1>10, <2>1, <2>2 DEF RemoveSelected, ConfirmYes
<1>11. CASE Change
  <2>1. UNCHANGED removing /\ past' = IF past = {} THEN {} ELSE past \cup {tree'[Target]}
    BY <1>11 DEF Change
  <2>2. past \subseteq past'
    BY <2>1
  <2>3. removing.at \in AfterList => tree'[Target] \in past'
    BY <2>1 DEF LookInv
  <2>4. QED
    BY <2>1, <2>2, <2>3, LookGoesOn
<1>12. CASE \/ ListTrees \/ GatherArrives \/ FetchArrives \/ MoveCursor \/ RemoveAllSafe
             \/ ConfirmNo \/ Refresh \/ Quit \/ Open \/ InputEnds \/ UNCHANGED vars
  BY <1>1, <1>12 DEF ListTrees, GatherArrives, FetchArrives, MoveCursor, RemoveAllSafe,
              ConfirmNo, Refresh, Quit, Open, InputEnds, vars
<1>13. QED
  BY <1>3, <1>4, <1>5, <1>6, <1>7, <1>8, <1>9, <1>10, <1>11, <1>12
     DEF Next, Background, Removal, Results, Keys

(* However people and agents change a worktree between the commands of a look, *)
(* a removal command follows a look that found it clean, at the commit that    *)
(* the user was shown, that commit secured and its agent at rest.              *)
THEOREM RemovedOnlyWhenSafe == Spec => []CheckedAtTheEnd
<1>1. Init => LookInv
  BY NothingType DEF Init, LookInv, AfterList, AfterAgents, AfterFiles, AfterHead
<1>2. TypeOK /\ LookInv /\ [Next]_vars => LookInv'
  BY LookStep
<1>3. LookInv => CheckedAtTheEnd
  BY DEF LookInv, CheckedAtTheEnd, AfterAgents, AfterFiles, AfterHead
<1>4. QED
  BY <1>1, <1>2, <1>3, TypeCorrect, PTL DEF Spec

-------------------------------------------------------------------------------
(* What keeps the table from going stale for good.  A gather by older heads,   *)
(* or one whose list still has what has been removed since, is followed by     *)
(* another; and a table of the one or the other kind has a gather under way.   *)
ListsRemoved == \E t \in removed : gathering.list[t] # "unlisted"

FreshInv ==
    /\ \A t \in removed : ~tree[t].there
    /\ gathering.at = "idle" => ~gatherAgain
    /\ screen = "open" =>
         /\ gathering.at # "idle" /\ gathering.heads # heads => gatherAgain
         /\ shown = "older" => gathering.at # "idle"
         /\ ~Busy /\ gathering.at = "listed" /\ ListsRemoved => gatherAgain
         /\ ~Busy /\ shown # "failed" /\ DOMAIN rows \cap removed # {} =>
              gathering.at # "idle"

LEMMA FreshStep == TypeOK /\ FreshInv /\ [Next]_vars => FreshInv'
<1> SUFFICES ASSUME TypeOK, FreshInv, [Next]_vars PROVE FreshInv'
  OBVIOUS
<1> USE DEF table, work, world, ghosts
<1>1. ASSUME UNCHANGED <<tree, removed>>, screen' # "open",
             (gathering' = Idle /\ gatherAgain' = FALSE) \/ UNCHANGED <<gathering, gatherAgain>>
      PROVE  FreshInv'
  BY <1>1, NothingType DEF FreshInv
<1>2. ASSUME UNCHANGED <<tree, removed, screen, gathering, gatherAgain, heads, shown, rows>>,
             Busy => Busy'
      PROVE  FreshInv'
  BY <1>2 DEF FreshInv, ListsRemoved
<1>3. CASE ListTrees
  <2>1. PICK answer \in Answers :
          gathering' = [gathering EXCEPT !.at = "listed",
                                         !.list = [t \in Trees |-> Sight(t, answer)]]
    BY <1>3 DEF ListTrees
  <2>2. /\ gathering'.at = "listed" /\ gathering'.heads = gathering.heads
        /\ gathering'.list = [t \in Trees |-> Sight(t, answer)]
    BY <2>1 DEF TypeOK, Gatherings
  <2>3. ~ListsRemoved'
    BY <1>3, <2>2 DEF ListTrees, ListsRemoved, FreshInv, Sight, TypeOK
  <2>4. gathering.at # "idle"
    BY <1>3 DEF ListTrees
  <2>5. QED
    BY <1>3, <2>2, <2>3, <2>4 DEF ListTrees, FreshInv
<1>4. CASE CheckList \/ CheckAgents \/ CheckFiles \/ CheckHead \/ CheckCommits \/ PassOver
  <2>1. CASE PassOver
    <3>1. removing'.at \in {"checking", "answered"}
      BY <2>1, DoneType DEF PassOver
    <3>2. QED
      BY <1>2, <2>1, <3>1 DEF PassOver, Busy
  <2>2. CASE ~PassOver
    <3>1. removing'.at # "idle"
      BY <1>4, <2>2, LookType DEF Looks
    <3>2. QED
      BY <1>2, <1>4, <2>2, <3>1
         DEF CheckList, CheckAgents, CheckFiles, CheckHead, CheckCommits, Busy
  <2>3. QED
    BY <2>1, <2>2
<1>5. CASE RemoveTarget
  <2>1. removing.at = "removing" /\ Target \in Trees
    BY <1>5, TargetListed DEF RemoveTarget
  <2>2. Busy'
    BY <1>5, <2>1, DoneType DEF RemoveTarget, Busy
  <2>3. \A t \in removed' : ~tree'[t].there
    <3>1. CASE UNCHANGED <<tree, removed>>
      BY <3>1 DEF FreshInv
    <3>2. CASE /\ tree' = [tree EXCEPT ![Target].there = FALSE, ![Target].agent = "closed"]
               /\ removed' = removed \cup {Target}
      <4>1. tree'[Target].there = FALSE
        BY <2>1, <3>2 DEF TypeOK, TreeStates
      <4>2. \A t \in removed : t \in Trees /\ (t # Target => tree'[t] = tree[t])
        BY <3>2 DEF TypeOK
      <4>3. QED
        BY <3>2, <4>1, <4>2 DEF FreshInv
    <3>3. QED
      BY <1>5, <3>1, <3>2 DEF RemoveTarget
  <2>4. QED
    BY <1>5, <2>2, <2>3 DEF RemoveTarget, FreshInv
<1>6. CASE GatherArrives
  <2>1. /\ gathering' = IF gatherAgain THEN Gather(heads) ELSE Idle
        /\ gatherAgain' = FALSE /\ screen = "open"
        /\ UNCHANGED <<tree, removed, screen, heads, removing>>
    BY <1>6 DEF GatherArrives
  <2>2. CASE gatherAgain
    <3>1. gathering'.at = "asked" /\ gathering'.heads = heads
      BY <2>1, <2>2, NothingType DEF TypeOK
    <3>2. QED
      BY <2>1, <3>1 DEF FreshInv
  <2>3. CASE ~gatherAgain
    <3>1. gathering'.at = "idle"
      BY <2>1, <2>3, NothingType
    <3>2. CASE gathering.at = "listed" /\ \E rs \in Tables : ReplaceRows(rs)
                 /\ shown' = IF gathering.heads = heads THEN "latest" ELSE "older"
      <4>1. gathering.heads = heads
        BY <2>1, <2>3, <3>2 DEF FreshInv
      <4>2. DOMAIN rows' = {t \in Trees : gathering.list[t] # "unlisted"}
        BY <3>2, TablesType DEF ReplaceRows, TypeOK
      <4>3. ~Busy => DOMAIN rows' \cap removed = {}
        BY <2>1, <2>3, <3>2, <4>2 DEF FreshInv, ListsRemoved
      <4>4. QED
        BY <2>1, <3>1, <3>2, <4>1, <4>3 DEF FreshInv, Busy
    <3>3. CASE shown' = "failed"
      BY <2>1, <3>1, <3>3 DEF FreshInv
    <3>4. QED
      BY <1>6, <3>2, <3>3 DEF GatherArrives
  <2>4. QED
    BY <2>2, <2>3
<1>7. CASE FetchArrives
  <2>1. heads' \in Heads
    BY <1>7, StepType DEF TypeOK
  <2>2. /\ StartGather(heads')
        /\ UNCHANGED <<tree, removed, screen, rows, removing>>
    BY <1>7 DEF FetchArrives
  <2>3. CASE gathering.at = "idle"
    <3>1. gathering'.at = "asked" /\ gathering'.heads = heads'
      BY <2>1, <2>2, <2>3, NothingType DEF StartGather
    <3>2. QED
      BY <2>2, <3>1 DEF FreshInv
  <2>4. CASE gathering.at # "idle"
    <3>1. gatherAgain' = TRUE /\ gathering' = gathering
      BY <2>2, <2>4 DEF StartGather
    <3>2. QED
      BY <2>2, <2>4, <3>1 DEF FreshInv
  <2>5. QED
    BY <2>3, <2>4
<1>8. CASE RemoveArrives
  <2>1. CASE EndLoop("closed")
    BY <1>1, <1>8, <2>1 DEF RemoveArrives, EndLoop
  <2>2. CASE StartGather(heads) /\ UNCHANGED <<screen, table, heads, firstGather, fetching, shown>>
    <3>1. UNCHANGED <<tree, removed, screen, rows, heads, shown>>
      BY <1>8, <2>2 DEF RemoveArrives
    <3>2. CASE gathering.at = "idle"
      <4>1. gathering'.at = "asked" /\ gathering'.heads = heads /\ gatherAgain' = gatherAgain
        BY <2>2, <3>2, NothingType DEF StartGather, TypeOK
      <4>2. QED
        BY <3>1, <4>1 DEF FreshInv
    <3>3. CASE gathering.at # "idle"
      <4>1. gatherAgain' = TRUE /\ gathering' = gathering
        BY <2>2, <3>3 DEF StartGather
      <4>2. QED
        BY <3>1, <3>3, <4>1 DEF FreshInv
    <3>4. QED
      BY <3>2, <3>3
  <2>3. QED
    BY <1>8, <2>1, <2>2 DEF RemoveArrives
<1>9. CASE RemovalAwaited
  BY <1>1, <1>9 DEF RemovalAwaited
<1>10. CASE RemoveSelected \/ ConfirmYes
  <2>1. UNCHANGED <<tree, removed, screen, gathering, gatherAgain, heads, shown, rows>>
    BY <1>10 DEF RemoveSelected, ConfirmYes
  <2>2. Busy => Busy'
    BY <1>10 DEF RemoveSelected, ConfirmYes, Busy
  <2>3. QED
    BY <1>2, <2>1, <2>2
<1>11. CASE Quit \/ Open \/ InputEnds
  <2>1. CASE \E next \in {"waiting", "closed"} : EndLoop(next)
    BY <1>1, <1>11, <2>1 DEF Quit, Open, InputEnds, EndLoop
  <2>2. CASE Quit /\ UNCHANGED <<screen, rows, heads, work, shown>>
    BY <1>2, <2>2 DEF Quit, Busy
  <2>3. QED
    BY <1>11, <2>1, <2>2 DEF Quit, Open, InputEnds
<1>12. CASE Change
  <2>1. PICK t \in {u \in Trees : tree[u].there} : \E w : tree' = [tree EXCEPT ![t] = w]
    BY <1>12 DEF Change
  <2>2. \A u \in removed : u # t /\ u \in Trees
    BY <2>1 DEF FreshInv, TypeOK
  <2>3. \A u \in removed : tree'[u] = tree[u]
    BY <2>1, <2>2 DEF TypeOK
  <2>4. UNCHANGED <<removed, screen, gathering, gatherAgain, heads, shown, rows, removing>>
    BY <1>12 DEF Change
  <2>5. QED
    BY <2>3, <2>4 DEF FreshInv, ListsRemoved, Busy
<1>13. CASE \/ MoveCursor \/ RemoveAllSafe \/ ConfirmNo \/ Refresh \/ UNCHANGED vars
  BY <1>2, <1>13 DEF MoveCursor, RemoveAllSafe, ConfirmNo, Refresh, vars, Busy
<1>14. QED
  BY <1>3, <1>4, <1>5, <1>6, <1>7, <1>8, <1>9, <1>10, <1>11, <1>12, <1>13
     DEF Next, Background, Removal, Results, Keys

(* Whatever order the results of gathers, fetches and removals come in, the    *)
(* last of them leaves a table by the latest heads without removed worktrees.  *)
THEOREM NothingStaleForGood == Spec => []TableCatchesUp
<1>1. Init => FreshInv
  <2> SUFFICES ASSUME Init PROVE FreshInv
    OBVIOUS
  <2>1. gathering.at = "asked" /\ gathering.heads = heads
    BY NothingType DEF Init
  <2>2. QED
    BY <2>1 DEF Init, FreshInv, ListsRemoved
<1>2. TypeOK /\ FreshInv /\ [Next]_vars => FreshInv'
  BY FreshStep
<1>3. TypeOK /\ FreshInv => TableCatchesUp
  BY DEF TypeOK, FreshInv, TableCatchesUp
<1>4. QED
  BY <1>1, <1>2, <1>3, TypeCorrect, PTL DEF Spec

-------------------------------------------------------------------------------
(* The table is strictly ordered, by verdict and then by number.               *)
LEMMA TableOrder ==
  ASSUME NEW rs \in PartialRows, NEW t \in DOMAIN rs, NEW u \in DOMAIN rs
  PROVE  /\ ~(Before(rs, t, u) /\ Before(rs, u, t))
         /\ t # u => Before(rs, t, u) \/ Before(rs, u, t)
         /\ \A v \in DOMAIN rs : Before(rs, v, t) /\ Before(rs, t, u) => Before(rs, v, u)
<1>1. \A v \in DOMAIN rs : v \in Nat
  BY PartialType, BoundAssumption DEF Trees
<1>2. \A v \in DOMAIN rs : Order[rs[v].verdict] \in Nat
  BY PartialType DEF Rows, Order
<1>3. QED
  BY <1>1, <1>2 DEF Before

(* No two rows are at one place, so that the cursor selects one at most.       *)
LEMMA EarlierPlace ==
  ASSUME NEW rs \in PartialRows, NEW t \in DOMAIN rs, NEW u \in DOMAIN rs,
         Before(rs, t, u)
  PROVE  Place(rs, t) < Place(rs, u)
<1> DEFINE aboveT == {v \in DOMAIN rs : Before(rs, v, t)}
           aboveU == {v \in DOMAIN rs : Before(rs, v, u)}
<1>1. IsFiniteSet(DOMAIN rs)
  BY PartialType, TreesFinite, FS_Subset
<1>2. IsFiniteSet(aboveT) /\ IsFiniteSet(aboveU)
  BY <1>1, FS_Subset
<1>3. t \notin aboveT /\ t \in aboveU /\ aboveT \subseteq aboveU
  BY TableOrder
<1> HIDE DEF aboveT, aboveU
<1>4. /\ IsFiniteSet(aboveT \cup {t})
      /\ Cardinality(aboveT \cup {t}) = Cardinality(aboveT) + 1
  BY <1>2, <1>3, FS_AddElement
<1>5. aboveT \cup {t} \in SUBSET aboveU
  BY <1>3
<1>6. Cardinality(aboveT \cup {t}) <= Cardinality(aboveU)
  BY <1>2, <1>5, FS_Subset
<1>7. Cardinality(aboveT) \in Nat /\ Cardinality(aboveU) \in Nat
  BY <1>2, FS_CardinalityType
<1>8. Place(rs, t) = Cardinality(aboveT) /\ Place(rs, u) = Cardinality(aboveU)
  BY DEF Place, aboveT, aboveU
<1>9. QED
  BY <1>4, <1>6, <1>7, <1>8

LEMMA OnePlaceOneRow ==
  ASSUME NEW rs \in PartialRows, NEW t \in DOMAIN rs, NEW u \in DOMAIN rs,
         Place(rs, t) = Place(rs, u)
  PROVE  t = u
<1>1. Place(rs, t) \in Nat /\ Place(rs, u) \in Nat
  BY PlaceInside
<1>2. ~Before(rs, t, u) /\ ~Before(rs, u, t)
  BY <1>1, EarlierPlace
<1>3. QED
  BY <1>2, TableOrder

LEMMA KeptStep ==
  TypeOK /\ [Next]_vars =>
    [screen' = "open" /\ rows' # rows => Selected \cap DOMAIN rows' \subseteq Selected']_vars
<1> SUFFICES ASSUME TypeOK, [Next]_vars, screen' = "open", rows' # rows,
                    NEW u \in Selected \cap DOMAIN rows'
             PROVE  u \in Selected'
  OBVIOUS
<1>1. CASE GatherArrives
  <2>1. PICK rs \in Tables : ReplaceRows(rs)
    BY <1>1 DEF GatherArrives
  <2>2. rows' = rs /\ u \in Selected \cap DOMAIN rs
    BY <2>1 DEF ReplaceRows
  <2>3. PICK t \in Selected \cap DOMAIN rs : cursor' = Place(rs, t)
    BY <2>1, <2>2 DEF ReplaceRows
  <2>4. Place(rows, t) = Place(rows, u)
    BY <2>2, <2>3 DEF Selected
  <2>5. t = u
    BY <2>2, <2>3, <2>4, OnePlaceOneRow DEF Selected, TypeOK
  <2>6. QED
    BY <2>2, <2>3, <2>5 DEF Selected, Place, Before
<1>2. CASE RemoveArrives \/ Quit \/ Open \/ InputEnds
  BY <1>2 DEF RemoveArrives, Quit, Open, InputEnds, EndLoop, table
<1>3. CASE \/ ListTrees \/ Removal \/ FetchArrives \/ RemovalAwaited \/ MoveCursor
            \/ RemoveSelected \/ RemoveAllSafe \/ ConfirmYes \/ ConfirmNo
            \/ Refresh \/ Change \/ UNCHANGED vars
  BY <1>3 DEF ListTrees, Removal, CheckList, CheckAgents, CheckFiles, CheckHead,
              CheckCommits, PassOver, RemoveTarget, FetchArrives, RemovalAwaited, MoveCursor,
              RemoveSelected, RemoveAllSafe, ConfirmYes, ConfirmNo,
              Refresh, Change, vars, table
<1>4. QED
  BY <1>1, <1>2, <1>3 DEF Next, Background, Results, Keys

(* However a gather reorders, adds and drops rows, the selection stays on the  *)
(* worktree it was on, as long as that is listed.                              *)
THEOREM SelectionStays == Spec => SelectionKept
<1>1. TypeOK /\ [Next]_vars =>
        [screen' = "open" /\ rows' # rows => Selected \cap DOMAIN rows' \subseteq Selected']_vars
  BY KeptStep
<1>2. QED
  BY <1>1, TypeCorrect, PTL DEF Spec, SelectionKept
===============================================================================
