--------------------------- MODULE CreateScreenProofs ---------------------------
(* What the creation popup promises of its base, its menu and its suggestion,   *)
(* for any candidates, any lists that the lookup may bring and any names.       *)
EXTENDS CreateScreen, FiniteSetTheorems, WellFoundedInduction, TLAPS

Lists == {First} \cup Later
Menus == [open : BOOLEAN, index : Nat, ref : Refs \cup {NoRef}, query : SUBSET Refs]
Jobs == [at : {"none", "running", "done"}, ok : BOOLEAN, names : SUBSET Names]
Creations == [on : BOOLEAN, name : Names \cup {Blank}, base : Refs \cup {NoRef}, kind : Kinds]

Honest(l, m) ==
    m.open /\ m.ref # NoRef =>
      m.index \in DOMAIN l /\ l[m.index].ref = m.ref /\ m.ref \in m.query

-------------------------------------------------------------------------------
(* Numbers and names.                                                          *)

LEMMA LeastThere ==
  ASSUME NEW S \in SUBSET Nat, S # {}
  PROVE  \E m \in S : \A n \in S : m <= n
<1> DEFINE R == {ss \in Nat \X Nat : ss[1] < ss[2]}
<1>1. IsWellFoundedOn(R, Nat)
  <2>1. R = OpToRel(<, Nat)
    BY Zenon DEF OpToRel
  <2>2. QED
    BY <2>1, NatLessThanWellFounded, Zenon
<1>2. \A n, m \in Nat : n < m => <<n, m>> \in R
  OBVIOUS
<1> HIDE DEF R
<1>3. PICK m \in S : \A n \in S : ~ (<<n, m>> \in R)
  BY <1>1, WFMin
<1>4. ASSUME NEW n \in S
      PROVE  m <= n
  <2>1. n \in Nat /\ m \in Nat
    OBVIOUS
  <2>2. ~(n < m)
    BY <1>2, <1>3, <2>1, Zenon
  <2>3. QED
    BY <2>1, <2>2
<1>5. QED
  BY <1>3, <1>4, Zenon

(* One of the numbers that AutoName tries is free, since it tries one more     *)
(* than there are names in use.                                                *)
LEMMA NumberFree ==
  ASSUME NEW stem, NEW k \in Nat, NEW used, IsFiniteSet(used)
  PROVE  \E j \in (k + 1)..(k + 1 + Cardinality(used)) : <<stem, j>> \notin used
<1> DEFINE Tried == (k + 1)..(k + 1 + Cardinality(used))
<1> DEFINE f == [j \in Tried |-> <<stem, j>>]
<1>1. Cardinality(used) \in Nat
  BY FS_CardinalityType
<1>2. IsFiniteSet(Tried) /\ Cardinality(Tried) = Cardinality(used) + 1
  BY <1>1, FS_Interval
<1>3. SUFFICES ASSUME \A j \in Tried : <<stem, j>> \in used
               PROVE  FALSE
  OBVIOUS
<1>4. f \in [Tried -> used]
  BY <1>3
<1>5. Cardinality(used) < Cardinality(Tried)
  BY <1>1, <1>2
<1> HIDE DEF Tried
<1>6. \E x, y \in Tried : x # y /\ f[x] = f[y]
  <2> HIDE DEF f
  <2>1. QED
    BY <1>2, <1>4, <1>5, FS_PigeonHole
<1>7. QED
  BY <1>6

LEMMA NameThere == ASSUME NEW r \in Refs PROVE NameOf[r] \in Names
<1> DEFINE stem == NameOf[r][1]
           k == NameOf[r][2]
<1>1. NameOf[r] = <<stem, k>> /\ k \in Nat
  BY NameAssumption
<1>2. QED
  BY <1>1 DEF Names

(* A suggestion avoids the names in use and keeps the stem.                    *)
LEMMA AutoNameFree ==
  ASSUME NEW r \in Refs, NEW used, IsFiniteSet(used)
  PROVE  /\ AutoName(NameOf[r], used) \in Names
         /\ AutoName(NameOf[r], used) \notin used
         /\ AutoName(NameOf[r], used)[1] = NameOf[r][1]
<1> DEFINE stem == NameOf[r][1]
           k == NameOf[r][2]
           free == {j \in (k + 1)..(k + 1 + Cardinality(used)) : <<stem, j>> \notin used}
<1>1. NameOf[r] = <<stem, k>> /\ k \in Nat
  BY NameAssumption
<1>2. free # {} /\ free \subseteq Nat
  <2>1. Cardinality(used) \in Nat
    BY FS_CardinalityType
  <2>2. PICK j \in (k + 1)..(k + 1 + Cardinality(used)) : <<stem, j>> \notin used
    BY <1>1, NumberFree
  <2>3. j \in free
    BY <2>2
  <2>4. free \subseteq Nat
    BY <1>1, <2>1
  <2>5. QED
    BY <2>3, <2>4
<1>3. NameOf[r] \in Names
  BY NameThere
<1>4. CASE NameOf[r] \notin used
  BY <1>3, <1>4 DEF AutoName
<1>5. CASE NameOf[r] \in used
  <2> DEFINE least == CHOOSE j \in free : \A i \in free : j <= i
  <2>1. least \in free
    BY <1>2, LeastThere
  <2>2. AutoName(NameOf[r], used) = <<stem, least>>
    BY <1>5 DEF AutoName
  <2>3. <<stem, least>> \in Names
    <3>1. least \in Nat
      BY <1>2, <2>1
    <3> HIDE DEF least
    <3>2. QED
      BY <3>1 DEF Names
  <2>4. <<stem, least>> \notin used
    BY <2>1
  <2>5. <<stem, least>>[1] = stem
    OBVIOUS
  <2>6. QED
    BY <2>2, <2>3, <2>4, <2>5
<1>6. QED
  BY <1>4, <1>5

-------------------------------------------------------------------------------
(* Lists and the menu.                                                         *)

LEMMA ListFacts ==
  ASSUME NEW l \in Lists
  PROVE  /\ DOMAIN l \subseteq Nat /\ 1 \in DOMAIN l /\ IsFiniteSet(DOMAIN l)
         /\ \A i \in DOMAIN l : l[i].ref \in Refs /\ l[i].kind \in Kinds
         /\ \A i, j \in DOMAIN l : l[i].ref = l[j].ref => i = j
         /\ RefsOf(l) \subseteq Refs
<1> DEFINE Listed == [ref : Refs, kind : Kinds]
<1>1. l \in Seq(Listed) /\ l # <<>>
  BY ListAssumption DEF Lists
<1>2. /\ DOMAIN l = 1..Len(l) /\ Len(l) \in Nat /\ Len(l) # 0
      /\ \A i \in DOMAIN l : l[i] \in Listed
  <2> HIDE DEF Listed
  <2>1. QED
    BY <1>1
<1>3. \A i \in DOMAIN l : l[i].ref \in Refs /\ l[i].kind \in Kinds
  BY <1>2
<1>4. \A i, j \in DOMAIN l : l[i].ref = l[j].ref => i = j
  BY ListAssumption DEF Lists
<1>5. IsFiniteSet(DOMAIN l)
  BY <1>2, FS_Interval
<1>6. QED
  BY <1>2, <1>3, <1>4, <1>5 DEF RefsOf

LEMMA PlaceFacts ==
  ASSUME NEW l \in Lists, NEW r \in RefsOf(l)
  PROVE  /\ Place(l, r) \in DOMAIN l /\ l[Place(l, r)].ref = r
         /\ KindIn(l, r) \in Kinds
         /\ \A i \in DOMAIN l : l[i].ref = r => i = Place(l, r)
BY ListFacts DEF Place, RefsOf, KindIn

LEMMA HighlightFacts ==
  ASSUME NEW l \in Lists, NEW m \in Menus, NEW i \in DOMAIN l, l[i].ref \in m.query
  PROVE  Highlight(l, m, i) \in Menus /\ Honest(l, Highlight(l, m, i))
BY ListFacts DEF Menus, Highlight, Honest

LEMMA FilteredFacts ==
  ASSUME NEW l \in Lists, NEW m \in Menus
  PROVE  Filtered(l, m) \in Menus /\ Honest(l, Filtered(l, m))
<1> DEFINE matches == Matches(l, m.query)
           same == {i \in matches : l[i].ref = m.ref}
<1>1. CASE matches = {}
  BY <1>1 DEF Filtered, Menus, Honest
<1>2. CASE matches # {}
  <2> DEFINE to == Least(IF same = {} THEN matches ELSE same)
  <2>1. matches \subseteq Nat
    BY ListFacts DEF Matches
  <2>2. to \in matches
    BY <1>2, <2>1, LeastThere DEF Least
  <2>3. to \in DOMAIN l /\ l[to].ref \in m.query
    BY <2>2 DEF Matches
  <2>4. Filtered(l, m) = Highlight(l, m, to)
    BY <1>2 DEF Filtered
  <2>5. QED
    BY <2>3, <2>4, HighlightFacts
<1>3. QED
  BY <1>1, <1>2

LEMMA ClosedFacts == Closed \in Menus /\ ~Closed.open
BY DEF Closed, Menus

LEMMA ReconciledFacts ==
  ASSUME NEW l \in Lists, NEW m \in Menus
  PROVE  /\ Reconciled(l, m) \in Menus /\ Honest(l, Reconciled(l, m))
         /\ Reconciled(l, m).open => m.open
<1>1. CASE ~m.open
  BY <1>1 DEF Reconciled, Honest
<1>2. CASE m.open /\ m.ref = NoRef
  BY <1>2, FilteredFacts DEF Reconciled
<1>3. CASE m.open /\ m.ref # NoRef /\ m.ref \in RefsOf(l) \cap m.query
  <2>1. Place(l, m.ref) \in DOMAIN l /\ l[Place(l, m.ref)].ref \in m.query
    BY <1>3, PlaceFacts
  <2>2. QED
    BY <1>3, <2>1, HighlightFacts DEF Reconciled
<1>4. CASE m.open /\ m.ref # NoRef /\ m.ref \notin RefsOf(l) \cap m.query
  BY <1>4, ClosedFacts DEF Reconciled, Honest
<1>5. QED
  BY <1>1, <1>2, <1>3, <1>4

-------------------------------------------------------------------------------
(* What several actions do alike.                                              *)

(* Only finitely many names and refs are ever known.                           *)
Finite ==
    /\ IsFiniteSet(locals) /\ IsFiniteSet(tracked) /\ IsFiniteSet(taken)
    /\ \A r \in Refs : IsFiniteSet(jobs[r].names)

(* A creation has a name.                                                      *)
Making == Busy => creating.name # Blank

LEMMA NoFetch ==
  NoJob \in Jobs /\ [NoJob EXCEPT !.at = "running"] \in Jobs
BY DEF NoJob, Jobs

LEMMA StartFetchFacts ==
  ASSUME TypeOK, Finite, NEW l \in Lists, NEW i \in DOMAIN l,
         NEW st \in [Refs -> Statuses], StartFetch(l, i, st)
  PROVE  /\ asked' \subseteq Refs /\ asked' = asked \cup Due(l, i)
         /\ jobs' \in [Refs -> Jobs] /\ status' \in [Refs -> Statuses]
         /\ \A r \in Refs : IsFiniteSet(jobs'[r].names)
         /\ \A r \in Due(l, i) : status'[r] = "fetching"
         /\ \A r \in Refs \ Due(l, i) : status'[r] = st[r]
<1>1. Due(l, i) \subseteq Refs
  BY ListFacts DEF Due
<1>2. asked' \subseteq Refs /\ asked' = asked \cup Due(l, i)
  BY <1>1 DEF StartFetch, TypeOK
<1>3. jobs' \in [Refs -> Jobs]
  BY NoFetch DEF StartFetch, TypeOK, Jobs
<1>4. status' \in [Refs -> Statuses]
  BY DEF StartFetch, Statuses
<1>5. \A r \in Refs : IsFiniteSet(jobs'[r].names)
  BY FS_EmptySet DEF StartFetch, Finite, NoJob
<1>6. QED
  BY <1>1, <1>2, <1>3, <1>4, <1>5 DEF StartFetch

LEMMA SuggestFacts ==
  ASSUME TypeOK, NEW l \in Lists, NEW i \in DOMAIN l,
         NEW used, IsFiniteSet(used), Suggest(l, i, used)
  PROVE  /\ name' \in Names \cup {Blank}
         /\ ~edited => name' \notin used /\ name'[1] = NameOf[l[i].ref][1]
<1>1. l[i].ref \in Refs
  BY ListFacts
<1>2. QED
  BY <1>1, AutoNameFree DEF Suggest, TypeOK

(* Between creations a result leaves a menu that is honest of the list it came *)
(* with and a suggestion that avoids the names in use.                         *)
LEMMA SettleFacts ==
  ASSUME TypeOK, NEW l \in Lists, NEW i \in DOMAIN l,
         NEW used, IsFiniteSet(used), Settle(l, i, used)
  PROVE  /\ name' \in Names \cup {Blank} /\ menu' \in Menus /\ missed' \in BOOLEAN
         /\ menu'.open => menu.open
         /\ Honest(l, menu')
         /\ ~edited /\ ~missed' => name' \notin used /\ name'[1] = NameOf[l[i].ref][1]
<1>1. CASE Busy
  BY <1>1 DEF Settle, TypeOK, Menus, Honest
<1>2. CASE ~Busy
  <2>1. menu \in Menus
    BY DEF TypeOK, Menus
  <2>2. Suggest(l, i, used) /\ menu' = Reconciled(l, menu) /\ missed' = FALSE
    BY <1>2 DEF Settle, AutoNameAndMenu
  <2>3. QED
    BY <2>1, <2>2, SuggestFacts, ReconciledFacts
<1>3. QED
  BY <1>1, <1>2

LEMMA TakenFacts ==
  ASSUME NEW S \in SUBSET Names, IsFiniteSet(S), NEW R \in SUBSET Refs, IsFiniteSet(R)
  PROVE  /\ S \cup {NameOf[r] : r \in R} \subseteq Names
         /\ IsFiniteSet(S \cup {NameOf[r] : r \in R})
<1> DEFINE T == {NameOf[r] : r \in R}
           f == [r \in R |-> NameOf[r]]
<1>1. T \subseteq Names
  BY NameThere
<1>2. f \in Surjection(R, T)
  BY DEF Surjection
<1>3. IsFiniteSet(T)
  <2> HIDE DEF f, T
  <2>1. QED
    BY <1>2, FS_Surjection
<1>4. QED
  <2> HIDE DEF T
  <2>1. IsFiniteSet(S \cup T)
    BY <1>3, FS_Union
  <2>2. QED
    BY <1>1, <2>1 DEF T

LEMMA RefsOfFinite ==
  ASSUME NEW l \in Lists
  PROVE  IsFiniteSet(RefsOf(l))
<1> DEFINE f == [i \in DOMAIN l |-> l[i].ref]
<1>1. f \in Surjection(DOMAIN l, RefsOf(l))
  BY DEF Surjection, RefsOf
<1>2. IsFiniteSet(DOMAIN l)
  BY ListFacts
<1> HIDE DEF f
<1>3. QED
  BY <1>1, <1>2, FS_Surjection

-------------------------------------------------------------------------------
(* Types, finiteness, an honest highlight, and a name for every creation.      *)

Basics == TypeOK /\ Finite /\ Making /\ HighlightHonest

LEMMA InitBasics == Init => Basics
<1> SUFFICES ASSUME Init PROVE Basics
  OBVIOUS
<1>1. First \in Lists
  BY DEF Lists
<1>2. /\ 1 \in DOMAIN First /\ First[1].ref \in Refs /\ IsFiniteSet(DOMAIN First)
      /\ \A i \in DOMAIN First : First[i].ref \in Refs
      /\ RefsOf(First) \subseteq Refs /\ IsFiniteSet(RefsOf(First))
  BY <1>1, ListFacts, RefsOfFinite
<1> DEFINE Own == {First[i].ref : i \in {j \in DOMAIN First : ~OfRemote(First[j].kind)}}
<1>3. Own \subseteq RefsOf(First) /\ tracked \subseteq RefsOf(First) /\ asked \subseteq RefsOf(First)
  BY DEF Init, RefsOf
<1>4. IsFiniteSet(Own) /\ IsFiniteSet(tracked)
  BY <1>2, <1>3, FS_Subset
<1>5. locals = {NameOf[r] : r \in Own}
  BY DEF Init
<1>6. locals \subseteq Names /\ IsFiniteSet(locals)
  <2> HIDE DEF Own
  <2>1. IsFiniteSet({}) /\ {} \subseteq Names
    BY FS_EmptySet
  <2>2. Own \subseteq Refs
    BY <1>2, <1>3
  <2>3. {} \cup {NameOf[r] : r \in Own} \subseteq Names
        /\ IsFiniteSet({} \cup {NameOf[r] : r \in Own})
    BY <1>4, <2>1, <2>2, TakenFacts
  <2>4. locals = {} \cup {NameOf[r] : r \in Own}
    BY <1>5
  <2>5. QED
    BY <2>3, <2>4
<1>7. taken \subseteq Names /\ IsFiniteSet(taken)
  BY <1>2, <1>6, TakenFacts DEF Init, TakenNames
<1>8. name \in Names
  BY <1>2, <1>7, AutoNameFree DEF Init
<1>9. jobs \in [Refs -> Jobs] /\ \A r \in Refs : IsFiniteSet(jobs[r].names)
  BY NoFetch, FS_EmptySet DEF Init, NoJob
<1>10. menu \in Menus /\ ~menu.open
  BY ClosedFacts DEF Init
<1>11. creating \in Creations /\ ~Busy
  BY DEF Init, NoCreation, Creations, Busy, Kinds
<1>12. TypeOK
  <2>1. /\ deeds \in 0..MaxTyped /\ screen = "open" /\ list \in {First} \cup Later
        /\ selected \in DOMAIN list /\ focus = "name" /\ edited = FALSE /\ lookup \in BOOLEAN
        /\ status \in [Refs -> Statuses]
        /\ chosen \in Refs /\ fetched = {} /\ seen = taken /\ missed = FALSE
    <3>1. deeds \in 0..MaxTyped
      <4>1. deeds = 0
        BY DEF Init
      <4>2. QED
        BY <4>1, NameAssumption
    <3>2. status \in [Refs -> Statuses]
      BY DEF Init
    <3>3. chosen \in Refs /\ selected \in DOMAIN list /\ lookup \in BOOLEAN
      BY <1>2 DEF Init
    <3>4. QED
      BY <3>1, <3>2, <3>3 DEF Init
  <2>2. tracked \subseteq Refs /\ asked \subseteq Refs
    BY <1>2, <1>3
  <2>3. QED
    BY <1>6, <1>7, <1>8, <1>9, <1>10, <1>11, <2>1, <2>2
       DEF TypeOK, Menus, Jobs, Creations
<1>13. QED
  BY <1>4, <1>6, <1>7, <1>9, <1>10, <1>11, <1>12 DEF Basics, Finite, Making, HighlightHonest

LEMMA EndFacts ==
  ASSUME NEW next \in {"waiting", "closed"}, EndLoop(next)
  PROVE  /\ screen' = next /\ list' \in Lists /\ selected' \in DOMAIN list'
         /\ status' \in [Refs -> Statuses] /\ menu' \in Menus /\ ~menu'.open
         /\ focus' = "name" /\ name' = Blank /\ edited' = FALSE /\ taken' = {} /\ asked' = {}
         /\ jobs' \in [Refs -> Jobs] /\ \A r \in Refs : IsFiniteSet(jobs'[r].names)
         /\ lookup' = FALSE /\ chosen' \in Refs /\ fetched' = {} /\ seen' = {} /\ missed' = FALSE
<1>1. First \in Lists
  BY DEF Lists
<1>2. 1 \in DOMAIN First /\ First[1].ref \in Refs
  BY <1>1, ListFacts
<1>3. jobs' \in [Refs -> Jobs] /\ \A r \in Refs : IsFiniteSet(jobs'[r].names)
  BY NoFetch, FS_EmptySet DEF EndLoop, NoJob
<1>4. QED
  BY <1>1, <1>2, <1>3, ClosedFacts DEF EndLoop, Statuses

LEMMA BasicsStep ==
  ASSUME Basics, [Next]_vars
  PROVE  Basics'
<1> USE DEF Basics
<1>0. list \in Lists /\ selected \in DOMAIN list /\ Base.ref \in Refs /\ Base.kind \in Kinds
  BY ListFacts DEF TypeOK, Lists, Base
<1>H. \A l, m : l = list' /\ m = menu' /\ Honest(l, m) => HighlightHonest'
  BY DEF Honest, HighlightHonest
<1>1. ASSUME NEW r \in Refs, FetchEnds(r)
      PROVE  Basics'
  <2>1. PICK ok \in BOOLEAN :
          /\ tracked' = IF ok THEN tracked \cup {r} ELSE tracked
          /\ \E names \in {TakenNames(tracked'), {}} :
               jobs' = [jobs EXCEPT ![r] = [at |-> "done", ok |-> ok, names |-> names]]
    BY <1>1 DEF FetchEnds
  <2>2. tracked' \subseteq Refs /\ IsFiniteSet(tracked')
    BY <2>1, FS_AddElement DEF TypeOK, Finite
  <2>3. TakenNames(tracked') \subseteq Names /\ IsFiniteSet(TakenNames(tracked'))
    BY <2>2, TakenFacts DEF TypeOK, Finite, TakenNames
  <2>4. PICK names \in {TakenNames(tracked'), {}} :
          jobs' = [jobs EXCEPT ![r] = [at |-> "done", ok |-> ok, names |-> names]]
    BY <2>1
  <2>5. names \subseteq Names /\ IsFiniteSet(names)
    BY <2>3, FS_EmptySet
  <2>6. jobs' \in [Refs -> Jobs] /\ \A q \in Refs : IsFiniteSet(jobs'[q].names)
    BY <2>4, <2>5 DEF TypeOK, Jobs, Finite
  <2>7. QED
    BY <1>1, <2>2, <2>6 DEF FetchEnds, TypeOK, Finite, Making, HighlightHonest, Jobs, Busy, form, bases, ghosts
<1>2. ASSUME NEW r \in Refs, FetchArrives(r)
      PROVE  Basics'
  <2>1. jobs[r].names \subseteq Names /\ IsFiniteSet(jobs[r].names)
    BY DEF TypeOK, Finite
  <2>2. taken' \subseteq Names /\ seen' \subseteq Names /\ IsFiniteSet(taken')
    BY <1>2, <2>1, FS_Union DEF FetchArrives, TypeOK, Finite
  <2>3. jobs' \in [Refs -> Jobs] /\ \A q \in Refs : IsFiniteSet(jobs'[q].names)
    BY <1>2, NoFetch, FS_EmptySet DEF FetchArrives, TypeOK, Finite, Jobs, NoJob
  <2>4. status' \in [Refs -> Statuses]
    BY <1>2 DEF FetchArrives, StatusAfter, CurrentNow, TypeOK, Statuses
  <2>5. /\ name' \in Names \cup {Blank} /\ menu' \in Menus /\ missed' \in BOOLEAN
        /\ menu'.open => menu.open
        /\ Honest(list, menu')
    BY <1>0, <1>2, <2>2, SettleFacts DEF FetchArrives
  <2>8. HighlightHonest'
    BY <1>2, <1>H, <2>5 DEF FetchArrives
  <2>6. fetched' \subseteq Refs
    BY <1>2 DEF FetchArrives, TypeOK
  <2>7. QED
    BY <1>2, <2>2, <2>3, <2>4, <2>5, <2>6, <2>8
       DEF FetchArrives, TypeOK, Finite, Making, Jobs, Menus, Busy, repo
<1>3. ASSUME LookupArrives
      PROVE  Basics'
  <2>1. ASSUME NEW l \in Later, ReplaceCandidates(l),
               chosen' = IF chosen \in RefsOf(l) THEN chosen ELSE l[1].ref,
               Settle(l, selected', taken)
        PROVE  Basics'
    <3>1. l \in Lists
      BY DEF Lists
    <3>2. list' = l /\ selected' \in DOMAIN l
      BY <2>1, <3>1, ListFacts, PlaceFacts DEF ReplaceCandidates, PlaceOfBase
    <3>3. PICK st \in FreshStatuses(l, RefsOf(list)) : StartFetch(l, selected', st)
      BY <2>1 DEF ReplaceCandidates
    <3>4. st \in [Refs -> Statuses]
      BY <3>3 DEF FreshStatuses
    <3>5. /\ asked' \subseteq Refs /\ jobs' \in [Refs -> Jobs] /\ status' \in [Refs -> Statuses]
          /\ \A q \in Refs : IsFiniteSet(jobs'[q].names)
      BY <3>1, <3>2, <3>3, <3>4, StartFetchFacts
    <3>6. /\ name' \in Names \cup {Blank} /\ menu' \in Menus /\ missed' \in BOOLEAN
          /\ menu'.open => menu.open
          /\ Honest(l, menu')
      BY <2>1, <3>1, <3>2, SettleFacts DEF Finite
    <3>7. chosen' \in Refs
      BY <2>1, <3>1, ListFacts DEF TypeOK
    <3>8. HighlightHonest'
      BY <1>H, <3>2, <3>6
    <3>9. QED
      BY <1>3, <3>1, <3>2, <3>5, <3>6, <3>7, <3>8
         DEF LookupArrives, TypeOK, Finite, Making, Jobs, Menus, Busy, Lists, repo
  <2>2. ASSUME Settle(list, selected, taken), UNCHANGED <<bases, asked, jobs, chosen>>
        PROVE  Basics'
    <3>1. /\ name' \in Names \cup {Blank} /\ menu' \in Menus /\ missed' \in BOOLEAN
          /\ menu'.open => menu.open
          /\ Honest(list, menu')
      BY <1>0, <2>2, SettleFacts DEF Finite
    <3>2. HighlightHonest'
      BY <1>H, <2>2, <3>1 DEF bases
    <3>3. QED
      BY <1>3, <2>2, <3>1, <3>2 DEF LookupArrives, TypeOK, Finite, Making, Menus, Busy, bases, repo
  <2>3. QED
    BY <1>3, <2>1, <2>2 DEF LookupArrives
<1>4. ASSUME CreateArrives \/ CreateAwaited
      PROVE  Basics'
  <2>1. creating' \in Creations /\ ~Busy' /\ creating.name \in Names
    <3>1. creating' = NoCreation /\ Busy
      BY <1>4 DEF CreateArrives, CreateAwaited
    <3>2. NoCreation \in Creations /\ ~NoCreation.on
      BY DEF NoCreation, Creations, Kinds
    <3>3. creating.name \in Names \cup {Blank} /\ creating.name # Blank
      BY <3>1 DEF TypeOK, Making
    <3>4. QED
      BY <3>1, <3>2, <3>3 DEF Busy
  <2>2. locals' \subseteq Names /\ IsFiniteSet(locals')
    <3>1. locals' \in {locals, locals \cup {creating.name}}
      BY <1>4 DEF CreateArrives, CreateAwaited
    <3>2. QED
      BY <2>1, <3>1, FS_AddElement DEF TypeOK, Finite
  <2>3. CASE EndLoop("closed")
    <3>1. IsFiniteSet({})
      BY FS_EmptySet
    <3>2. tracked' = tracked /\ deeds' = deeds
      BY <1>4 DEF CreateArrives, CreateAwaited
    <3>3. QED
      BY <2>1, <2>2, <2>3, <3>1, <3>2, EndFacts
         DEF TypeOK, Finite, Making, HighlightHonest, Jobs, Menus, Creations, Lists
  <2>4. CASE UNCHANGED <<bases, form, taken, work, ghosts>> /\ screen' \in {screen, "closed"}
    BY <1>4, <2>1, <2>2, <2>4
       DEF CreateArrives, CreateAwaited, TypeOK, Finite, Making, HighlightHonest, Creations, Busy,
           bases, form, work, ghosts
  <2>5. QED
    BY <1>4, <2>3, <2>4 DEF CreateArrives, CreateAwaited
<1>5. ASSUME Cancel
      PROVE  Basics'
  <2>1. PICK next \in {"waiting", "closed"} : EndLoop(next)
    BY <1>5 DEF Cancel
  <2>2. IsFiniteSet({})
    BY FS_EmptySet
  <2>3. UNCHANGED <<locals, tracked, deeds, creating>>
    BY <1>5 DEF Cancel, repo
  <2>4. QED
    BY <2>1, <2>2, <2>3, EndFacts DEF TypeOK, Finite, Making, HighlightHonest, Jobs, Menus, Busy, Lists
<1>6. ASSUME Tab \/ CloseMenu
      PROVE  Basics'
  BY <1>6, ClosedFacts
     DEF Tab, CloseMenu, Key, TypeOK, Finite, Making, HighlightHonest, Menus, Busy, repo, bases, work, ghosts
<1>7. ASSUME EditName \/ BranchMade
      PROVE  Basics'
  <2>1. name' \in Names \cup {Blank} /\ edited' \in BOOLEAN
    BY <1>7 DEF EditName, BranchMade, Names, TypeOK, form
  <2>4. deeds' \in 0..MaxTyped
    BY <1>7, NameAssumption DEF EditName, BranchMade, Deed, TypeOK
  <2>2. locals' \subseteq Names /\ IsFiniteSet(locals')
    <3>1. CASE locals' = locals
      BY <3>1 DEF TypeOK, Finite
    <3>2. CASE \E n \in Typed \ locals : locals' = locals \cup {n}
      BY <3>2, FS_AddElement DEF TypeOK, Finite, Names
    <3>3. QED
      BY <1>7, <3>1, <3>2 DEF EditName, BranchMade
  <2>3. QED
    BY <1>7, <2>1, <2>2, <2>4
       DEF EditName, BranchMade, Key, TypeOK, Finite, Making, HighlightHonest, Busy, bases, form, work, ghosts
<1>8. ASSUME OpenMenu \/ MoveHighlight \/ Search
      PROVE  Basics'
  <2>1. menu' \in Menus /\ Honest(list, menu')
    <3>1. CASE OpenMenu
      <4>1. selected \in Nat
        BY <1>0, ListFacts
      <4>2. QED
        BY <1>0, <3>1, <4>1 DEF OpenMenu, Menus, Honest, Base
    <3>2. CASE MoveHighlight
      <4>1. menu \in Menus
        BY DEF TypeOK, Menus
      <4>2. PICK i \in Matches(list, menu.query) : menu' = Highlight(list, menu, i)
        BY <3>2 DEF MoveHighlight
      <4>3. i \in DOMAIN list /\ list[i].ref \in menu.query
        BY <4>2 DEF Matches
      <4>4. QED
        BY <1>0, <4>1, <4>2, <4>3, HighlightFacts
    <3>3. CASE Search
      <4>1. PICK q \in Queries \cup {Refs} : menu' = Filtered(list, [menu EXCEPT !.query = q])
        BY <3>3 DEF Search
      <4>2. [menu EXCEPT !.query = q] \in Menus
        BY NameAssumption DEF TypeOK, Menus
      <4>3. QED
        BY <1>0, <4>1, <4>2, FilteredFacts
    <3>4. QED
      BY <1>8, <3>1, <3>2, <3>3
  <2>2. focus = "base" /\ ~Busy /\ UNCHANGED <<repo, screen, bases, focus, name, edited, taken, creating, work, ghosts>>
    BY <1>8 DEF OpenMenu, MoveHighlight, Search, Key
  <2>3. HighlightHonest'
    BY <1>H, <2>1, <2>2 DEF bases
  <2>4. QED
    BY <2>1, <2>2, <2>3 DEF TypeOK, Finite, Making, Menus, Busy, repo, bases, work, ghosts
<1>9. ASSUME ConfirmBase
      PROVE  Basics'
  <2>1. selected' \in DOMAIN list /\ selected' = Place(list, menu.ref)
    BY <1>0, <1>9, PlaceFacts DEF ConfirmBase
  <2>2. name' \in Names \cup {Blank}
    BY <1>0, <1>9, <2>1, SuggestFacts DEF ConfirmBase, Finite
  <2>3. /\ asked' \subseteq Refs /\ jobs' \in [Refs -> Jobs] /\ status' \in [Refs -> Statuses]
        /\ \A q \in Refs : IsFiniteSet(jobs'[q].names)
    <3>1. CASE menu.ref # Base.ref
      <4>1. status \in [Refs -> Statuses] /\ StartFetch(list, selected', status)
        BY <1>9, <3>1 DEF ConfirmBase, TypeOK
      <4>2. QED
        BY <1>0, <2>1, <4>1, StartFetchFacts
    <3>2. CASE menu.ref = Base.ref
      BY <1>9, <3>2 DEF ConfirmBase, TypeOK, Jobs, Finite
    <3>3. QED
      BY <3>1, <3>2
  <2>4. chosen' \in Refs
    BY <1>0, <1>9, ListFacts, NameAssumption DEF ConfirmBase, HighlightHonest
  <2>5. QED
    BY <1>9, <2>1, <2>2, <2>3, <2>4, ClosedFacts
       DEF ConfirmBase, TypeOK, Finite, Making, HighlightHonest, Jobs, Menus, Busy, repo
<1>10. ASSUME Submit
       PROVE  Basics'
  <2>1. creating' \in Creations /\ creating'.name # Blank
    BY <1>0, <1>10 DEF Submit, Creations, TypeOK
  <2>2. focus = "name"
    BY <1>10 DEF Submit, Key
  <2>3. QED
    BY <1>10, <2>1, <2>2
       DEF Submit, TypeOK, Finite, Making, HighlightHonest, Creations, Busy, repo, bases, form, work, ghosts
<1>11. CASE UNCHANGED vars
  BY <1>11 DEF vars, TypeOK, Finite, Making, HighlightHonest, Busy, repo, bases, form, work, ghosts
<1>12. QED
  BY <1>1, <1>2, <1>3, <1>4, <1>5, <1>6, <1>7, <1>8, <1>9, <1>10, <1>11
     DEF Next, Results, Creation, Keys

(* Every variable has its type, and no menu is open while a worktree is made.  *)
THEOREM TypeCorrect == Spec => []TypeOK
<1>1. Basics => TypeOK
  BY DEF Basics
<1>2. QED
  BY <1>1, InitBasics, BasicsStep, PTL DEF Spec

(* What is drawn as highlighted is what Enter confirms.                        *)
THEOREM HighlightStaysHonest == Spec => []HighlightHonest
<1>1. Basics => HighlightHonest
  BY DEF Basics
<1>2. QED
  BY <1>1, InitBasics, BasicsStep, PTL DEF Spec

-------------------------------------------------------------------------------
(* The base and its fetch.                                                     *)

(* Only a fetch of this popup makes a started candidate look up to date, the   *)
(* fetch of the base has been started, and until the lookup has answered all   *)
(* that were started are candidates of a remote.                               *)
Started ==
    /\ screen = "open" =>
         \A r \in asked \cap RefsOf(list) :
           OfRemote(KindIn(list, r)) /\ status[r] = "up to date" => r \in fetched
    /\ screen = "open" /\ OfRemote(Base.kind) => Base.ref \in asked
    /\ lookup => \A r \in asked : r \in RefsOf(list) /\ OfRemote(KindIn(list, r))

LEMMA BaseListed ==
  ASSUME TypeOK
  PROVE  /\ list \in Lists /\ selected \in DOMAIN list
         /\ Base.ref \in RefsOf(list) /\ KindIn(list, Base.ref) = Base.kind
<1>1. list \in Lists /\ selected \in DOMAIN list
  BY DEF TypeOK, Lists
<1>2. Base.ref \in RefsOf(list)
  BY <1>1 DEF Base, RefsOf
<1>3. Place(list, Base.ref) = selected
  BY <1>1, <1>2, PlaceFacts DEF Base
<1>4. QED
  BY <1>1, <1>2, <1>3 DEF KindIn, Base

LEMMA InitStarted == Init => Started
<1> SUFFICES ASSUME Init PROVE Started
  OBVIOUS
<1>1. TypeOK
  BY InitBasics DEF Basics
<1>2. list = First /\ selected = 1 /\ First \in Lists
  BY DEF Init, Lists
<1>3. ASSUME NEW r \in asked
      PROVE  r \in RefsOf(First) /\ OfRemote(KindIn(First, r)) /\ status[r] = "fetching"
  <2>1. PICK i \in DOMAIN First : r = First[i].ref /\ OfRemote(First[i].kind)
    BY DEF Init
  <2>2. r \in RefsOf(First) /\ r \in Refs
    BY <1>2, <2>1, ListFacts DEF RefsOf
  <2>3. i = Place(First, r)
    BY <1>2, <2>1, <2>2, PlaceFacts
  <2>4. QED
    BY <2>1, <2>2, <2>3 DEF KindIn, Init
<1>4. OfRemote(Base.kind) => Base.ref \in asked
  <2>1. 1 \in DOMAIN First
    BY <1>2, ListFacts
  <2>2. QED
    BY <1>2, <2>1 DEF Init, Base
<1>5. QED
  BY <1>2, <1>3, <1>4 DEF Started

LEMMA StartedStep ==
  ASSUME Basics, Started, [Next]_vars
  PROVE  Started'
<1> USE DEF Basics
<1>0. /\ list \in Lists /\ selected \in DOMAIN list
      /\ Base.ref \in RefsOf(list) /\ KindIn(list, Base.ref) = Base.kind
  BY BaseListed
<1>1. ASSUME NEW r \in Refs, FetchArrives(r)
      PROVE  Started'
  <2>1. PICK now \in CurrentNow(r) : status' = StatusAfter(r, now)
    BY <1>1 DEF FetchArrives
  <2>2. /\ UNCHANGED <<screen, list, selected, asked, lookup>> /\ fetched \subseteq fetched'
        /\ jobs[r].ok => r \in fetched'
    BY <1>1 DEF FetchArrives
  <2>3. ASSUME screen = "open", NEW q \in asked \cap RefsOf(list), OfRemote(KindIn(list, q)),
               status'[q] = "up to date"
        PROVE  q \in fetched'
    <3>1. q \in Refs /\ KindIn(list, q) # "current"
      BY <2>3 DEF TypeOK, OfRemote
    <3>2. CASE q = r
      BY <2>1, <2>2, <2>3, <3>1, <3>2 DEF StatusAfter
    <3>3. CASE q # r
      <4>1. status'[q] = status[q]
        BY <2>1, <3>1, <3>3 DEF StatusAfter
      <4>2. QED
        BY <2>2, <2>3, <4>1 DEF Started
    <3>4. QED
      BY <3>2, <3>3
  <2>4. QED
    BY <2>2, <2>3 DEF Started, Base
<1>2. ASSUME NEW l \in Later, LookupArrives, ReplaceCandidates(l)
      PROVE  Started'
  <2>1. l \in Lists /\ list' = l /\ screen = "open" /\ lookup /\ ~lookup' /\ fetched' = fetched
    BY <1>2 DEF LookupArrives, ReplaceCandidates, Lists
  <2>2. selected' \in DOMAIN l
    BY <1>2, <2>1, ListFacts, PlaceFacts DEF ReplaceCandidates, PlaceOfBase
  <2>3. PICK st \in FreshStatuses(l, RefsOf(list)) : StartFetch(l, selected', st)
    BY <1>2 DEF ReplaceCandidates
  <2>4. st \in [Refs -> Statuses] /\ \A r \in RefsOf(list) \cap RefsOf(l) \cap Refs : st[r] = status[r]
    BY <2>3 DEF FreshStatuses
  <2>5. /\ asked' = asked \cup Due(l, selected')
        /\ \A r \in Due(l, selected') : status'[r] = "fetching"
        /\ \A r \in Refs \ Due(l, selected') : status'[r] = st[r]
    BY <2>1, <2>2, <2>3, <2>4, StartFetchFacts
  <2>6. ASSUME NEW r \in asked' \cap RefsOf(l), OfRemote(KindIn(l, r)), status'[r] = "up to date"
        PROVE  r \in fetched
    <3>1. r \in asked /\ r \notin Due(l, selected')
      BY <2>5, <2>6
    <3>2. r \in RefsOf(list) /\ OfRemote(KindIn(list, r)) /\ r \in Refs
      BY <2>1, <3>1 DEF Started, TypeOK
    <3>3. status[r] = "up to date"
      BY <2>4, <2>5, <2>6, <3>1, <3>2
    <3>4. QED
      BY <2>1, <3>1, <3>2, <3>3 DEF Started
  <2>7. OfRemote(l[selected'].kind) => l[selected'].ref \in asked'
    <3>1. l[selected'].ref \in RefsOf(l) /\ KindIn(l, l[selected'].ref) = l[selected'].kind
      <4>1. l[selected'].ref \in RefsOf(l)
        BY <2>2 DEF RefsOf
      <4>2. Place(l, l[selected'].ref) = selected'
        BY <2>1, <2>2, <4>1, PlaceFacts
      <4>3. QED
        BY <4>1, <4>2 DEF KindIn
    <3>2. QED
      BY <2>5, <3>1 DEF Due
  <2>8. QED
    BY <2>1, <2>6, <2>7 DEF Started, Base
<1>3. ASSUME NEW next, EndLoop(next), next # "open"
      PROVE  Started'
  BY <1>3 DEF EndLoop, Started
<1>4. ASSUME ConfirmBase
      PROVE  Started'
  <2>1. /\ menu.ref \in RefsOf(list) /\ selected' = Place(list, menu.ref)
        /\ UNCHANGED <<screen, list, lookup, fetched>> /\ screen = "open"
    BY <1>4 DEF ConfirmBase, Key
  <2>2. selected' \in DOMAIN list /\ list[selected'].ref = menu.ref
        /\ KindIn(list, menu.ref) = list[selected'].kind
    BY <1>0, <2>1, PlaceFacts DEF KindIn
  <2>3. CASE menu.ref # Base.ref
    <3>1. StartFetch(list, selected', status) /\ status \in [Refs -> Statuses]
      BY <1>4, <2>3 DEF ConfirmBase, TypeOK
    <3>2. /\ asked' = asked \cup Due(list, selected')
          /\ \A r \in Due(list, selected') : status'[r] = "fetching"
          /\ \A r \in Refs \ Due(list, selected') : status'[r] = status[r]
      BY <1>0, <2>2, <3>1, StartFetchFacts
    <3>3. ASSUME NEW r \in asked' \cap RefsOf(list), OfRemote(KindIn(list, r)),
                 status'[r] = "up to date"
          PROVE  r \in fetched
      <4>1. r \in asked /\ r \notin Due(list, selected') /\ r \in Refs
        BY <3>2, <3>3 DEF TypeOK
      <4>2. QED
        BY <2>1, <3>2, <3>3, <4>1 DEF Started
    <3>4. OfRemote(list[selected'].kind) => list[selected'].ref \in asked'
      BY <2>1, <2>2, <3>2 DEF Due
    <3>5. \A r \in Due(list, selected') : r \in RefsOf(list) /\ OfRemote(KindIn(list, r))
      BY DEF Due
    <3>6. QED
      BY <2>1, <3>2, <3>3, <3>4, <3>5 DEF Started, Base
  <2>4. CASE menu.ref = Base.ref
    <3>1. UNCHANGED <<status, asked>> /\ list[selected'] = Base
      BY <1>0, <1>4, <2>2, <2>4, ListFacts DEF ConfirmBase, Base
    <3>2. QED
      BY <2>1, <3>1 DEF Started, Base
  <2>5. QED
    BY <2>3, <2>4
<1>5. ASSUME UNCHANGED <<screen, list, status, selected, asked, lookup, fetched>>
      PROVE  Started'
  BY <1>5 DEF Started, Base
<1>6. ASSUME UNCHANGED <<screen, list, status, selected, asked, fetched>>, lookup' = FALSE
      PROVE  Started'
  BY <1>6 DEF Started, Base
<1>7. ASSUME NEW r \in Refs, FetchEnds(r)
      PROVE  Started'
  BY <1>5, <1>7 DEF FetchEnds, bases, ghosts
<1>8. CASE LookupArrives
  BY <1>2, <1>6, <1>8 DEF LookupArrives, bases
<1>9. CASE CreateArrives
  BY <1>3, <1>5, <1>9 DEF CreateArrives, bases, work, ghosts
<1>10. CASE CreateAwaited
  BY <1>10 DEF CreateAwaited, Started, bases, work, ghosts, Base
<1>11. CASE Cancel
  BY <1>3, <1>11 DEF Cancel
<1>12. CASE Tab \/ CloseMenu \/ OpenMenu \/ MoveHighlight \/ Search \/ Submit \/ EditName
  BY <1>5, <1>12 DEF Tab, CloseMenu, OpenMenu, MoveHighlight, Search, Submit, EditName, bases, work,
                     ghosts
<1>13. CASE BranchMade \/ UNCHANGED vars
  BY <1>5, <1>13 DEF BranchMade, vars, bases, work, ghosts
<1>14. QED
  BY <1>1, <1>4, <1>7, <1>8, <1>9, <1>10, <1>11, <1>12, <1>13 DEF Next, Results, Creation, Keys

(* A worktree is based on a branch of a remote only after this popup has       *)
(* fetched that branch: whichever way it came to be listed and chosen.         *)
LEMMA BaseFetchedStep ==
  ASSUME Basics, Started, BaseFetched, [Next]_vars
  PROVE  BaseFetched'
<1> USE DEF Basics
<1>1. CASE Submit
  <2>1. /\ creating'.base = Base.ref /\ creating'.kind = Base.kind /\ screen = "open" /\ Ready
        /\ fetched' = fetched
    BY <1>1 DEF Submit, Key, ghosts
  <2>2. Base.ref \in RefsOf(list) /\ KindIn(list, Base.ref) = Base.kind
    BY BaseListed
  <2>3. OfRemote(Base.kind) => Base.ref \in fetched
    BY <2>1, <2>2 DEF Started, Ready, OfRemote
  <2>4. QED
    BY <2>1, <2>3 DEF BaseFetched
<1>2. ASSUME UNCHANGED creating, screen' = "open" => screen = "open" /\ fetched \subseteq fetched'
      PROVE  BaseFetched'
  BY <1>2 DEF BaseFetched, Busy
<1>3. CASE CreateArrives \/ CreateAwaited
  BY <1>3 DEF CreateArrives, CreateAwaited, NoCreation, BaseFetched, Busy
<1>4. ASSUME NEW r \in Refs, FetchEnds(r) \/ FetchArrives(r)
      PROVE  BaseFetched'
  BY <1>2, <1>4 DEF FetchEnds, FetchArrives, ghosts
<1>5. CASE LookupArrives
  BY <1>2, <1>5 DEF LookupArrives
<1>6. CASE Cancel
  BY <1>2, <1>6 DEF Cancel, EndLoop
<1>7. CASE ConfirmBase
  BY <1>2, <1>7 DEF ConfirmBase
<1>8. CASE Tab \/ CloseMenu \/ OpenMenu \/ MoveHighlight \/ Search \/ EditName \/ BranchMade
  BY <1>2, <1>8 DEF Tab, CloseMenu, OpenMenu, MoveHighlight, Search, EditName, BranchMade, ghosts
<1>9. CASE UNCHANGED vars
  BY <1>2, <1>9 DEF vars, ghosts
<1>10. QED
  BY <1>1, <1>3, <1>4, <1>5, <1>6, <1>7, <1>8, <1>9 DEF Next, Results, Creation, Keys

(* The base is what the user confirmed, wherever the new list has put it.      *)
LEMMA BaseAsConfirmedStep ==
  ASSUME Basics, BaseAsConfirmed, [Next]_vars
  PROVE  BaseAsConfirmed'
<1> USE DEF Basics
<1>1. list \in Lists /\ selected \in DOMAIN list /\ Base.ref \in RefsOf(list)
  BY BaseListed
<1>2. ASSUME UNCHANGED <<list, selected, chosen>>, screen' = "open" => screen = "open"
      PROVE  BaseAsConfirmed'
  BY <1>2 DEF BaseAsConfirmed, Base
<1>3. ASSUME screen' # "open"
      PROVE  BaseAsConfirmed'
  BY <1>3 DEF BaseAsConfirmed
<1>4. ASSUME NEW l \in Later, LookupArrives, ReplaceCandidates(l),
             chosen' = IF chosen \in RefsOf(l) THEN chosen ELSE l[1].ref
      PROVE  BaseAsConfirmed'
  <2>1. l \in Lists /\ screen = "open" /\ list' = l /\ selected' = PlaceOfBase(l)
    BY <1>4 DEF Lists, LookupArrives, ReplaceCandidates
  <2>2. Base.ref = chosen
    BY <2>1 DEF BaseAsConfirmed
  <2>3. l[PlaceOfBase(l)].ref = chosen'
    BY <1>4, <2>1, <2>2, PlaceFacts DEF PlaceOfBase
  <2>4. QED
    BY <2>1, <2>3 DEF BaseAsConfirmed, Base
<1>5. CASE LookupArrives
  BY <1>2, <1>4, <1>5 DEF LookupArrives, bases
<1>6. CASE ConfirmBase
  <2>1. /\ menu.open /\ menu.ref \in RefsOf(list) /\ selected' = Place(list, menu.ref)
        /\ list' = list /\ chosen' = list[menu.index].ref
    BY <1>6 DEF ConfirmBase
  <2>2. menu.ref # NoRef
    BY <1>1, <2>1, ListFacts, NameAssumption
  <2>3. list[menu.index].ref = menu.ref
    BY <2>1, <2>2 DEF HighlightHonest
  <2>4. list[Place(list, menu.ref)].ref = menu.ref
    BY <1>1, <2>1, PlaceFacts
  <2>5. QED
    BY <2>1, <2>3, <2>4 DEF BaseAsConfirmed, Base
<1>7. ASSUME NEW r \in Refs, FetchEnds(r) \/ FetchArrives(r)
      PROVE  BaseAsConfirmed'
  BY <1>2, <1>7 DEF FetchEnds, FetchArrives, bases, ghosts
<1>8. CASE CreateArrives \/ CreateAwaited \/ Cancel
  BY <1>2, <1>3, <1>8 DEF CreateArrives, CreateAwaited, Cancel, EndLoop, bases, ghosts
<1>9. CASE Tab \/ CloseMenu \/ OpenMenu \/ MoveHighlight \/ Search \/ Submit \/ EditName
  BY <1>2, <1>9 DEF Tab, CloseMenu, OpenMenu, MoveHighlight, Search, Submit, EditName, bases, ghosts
<1>10. CASE BranchMade \/ UNCHANGED vars
  BY <1>2, <1>10 DEF BranchMade, vars, bases, ghosts
<1>11. QED
  BY <1>5, <1>6, <1>7, <1>8, <1>9, <1>10 DEF Next, Results, Creation, Keys

-------------------------------------------------------------------------------
(* The suggestion.                                                             *)

(* What a suggestion avoids is all that was ever reported.                     *)
Remembered == taken = seen

(* A suggested name comes from the base and is none of those reported.         *)
LEMMA SuggestionStep ==
  ASSUME Basics, Remembered, SuggestionFollows, [Next]_vars
  PROVE  Remembered' /\ SuggestionFollows'
<1> USE DEF Basics
<1>1. list \in Lists /\ selected \in DOMAIN list
  BY BaseListed
<1>2. ASSUME UNCHANGED <<list, selected, name, edited, taken, seen, missed>>,
             screen' = "open" => screen = "open"
      PROVE  Remembered' /\ SuggestionFollows'
  BY <1>2 DEF Remembered, SuggestionFollows, Base
<1>3. ASSUME NEW next, next # "open", EndLoop(next)
      PROVE  Remembered' /\ SuggestionFollows'
  BY <1>3 DEF EndLoop, Remembered, SuggestionFollows
<1>4. ASSUME edited' = edited, taken' = seen',
             ~edited /\ ~missed' => name' \notin taken' /\ name'[1] = NameOf[Base'.ref][1]
      PROVE  Remembered' /\ SuggestionFollows'
  BY <1>4 DEF Remembered, SuggestionFollows
<1>5. ASSUME NEW r \in Refs, FetchArrives(r)
      PROVE  Remembered' /\ SuggestionFollows'
  <2>1. Settle(list, selected, taken') /\ UNCHANGED <<list, selected, edited>> /\ taken' = seen'
    BY <1>5 DEF FetchArrives, Remembered
  <2>2. IsFiniteSet(taken')
    BY <1>5, FS_Union DEF FetchArrives, Finite
  <2>3. ~edited /\ ~missed' => name' \notin taken' /\ name'[1] = NameOf[list[selected].ref][1]
    BY <1>1, <2>1, <2>2, SettleFacts
  <2>4. QED
    BY <1>4, <2>1, <2>3 DEF Base
<1>6. CASE LookupArrives
  <2>1. taken' = taken /\ taken' = seen' /\ edited' = edited /\ IsFiniteSet(taken)
    BY <1>6 DEF LookupArrives, Remembered, Finite
  <2>2. ASSUME NEW l \in Later, ReplaceCandidates(l), Settle(l, selected', taken)
        PROVE  Remembered' /\ SuggestionFollows'
    <3>1. l \in Lists /\ list' = l /\ selected' \in DOMAIN l
      <4>1. l \in Lists
        BY DEF Lists
      <4>2. QED
        BY <2>2, <4>1, ListFacts, PlaceFacts DEF ReplaceCandidates, PlaceOfBase
    <3>2. ~edited /\ ~missed' => name' \notin taken /\ name'[1] = NameOf[l[selected'].ref][1]
      BY <2>1, <2>2, <3>1, SettleFacts
    <3>3. QED
      BY <1>4, <2>1, <3>1, <3>2 DEF Base
  <2>3. ASSUME Settle(list, selected, taken), UNCHANGED bases
        PROVE  Remembered' /\ SuggestionFollows'
    <3>1. ~edited /\ ~missed' => name' \notin taken /\ name'[1] = NameOf[list[selected].ref][1]
      BY <1>1, <2>1, <2>3, SettleFacts
    <3>2. QED
      BY <1>4, <2>1, <2>3, <3>1 DEF Base, bases
  <2>4. QED
    BY <1>6, <2>2, <2>3 DEF LookupArrives
<1>7. CASE ConfirmBase
  <2>1. /\ menu.ref \in RefsOf(list) /\ selected' = Place(list, menu.ref) /\ list' = list
        /\ Suggest(list, selected', taken) /\ edited' = edited /\ taken' = taken /\ seen' = seen
    BY <1>7 DEF ConfirmBase
  <2>2. selected' \in DOMAIN list /\ IsFiniteSet(taken)
    BY <1>1, <2>1, PlaceFacts DEF Finite
  <2>3. ~edited => name' \notin taken /\ name'[1] = NameOf[list[selected'].ref][1]
    BY <1>1, <2>1, <2>2, SuggestFacts
  <2>4. QED
    BY <1>4, <2>1, <2>3 DEF Base, Remembered
<1>8. CASE EditName
  BY <1>8 DEF EditName, Remembered, SuggestionFollows, ghosts
<1>9. ASSUME NEW r \in Refs, FetchEnds(r)
      PROVE  Remembered' /\ SuggestionFollows'
  BY <1>2, <1>9 DEF FetchEnds, bases, form, ghosts
<1>10. CASE CreateArrives \/ CreateAwaited \/ Cancel
  BY <1>2, <1>3, <1>10 DEF CreateArrives, CreateAwaited, Cancel, bases, form, ghosts
<1>11. CASE Tab \/ CloseMenu \/ OpenMenu \/ MoveHighlight \/ Search \/ Submit
  BY <1>2, <1>11 DEF Tab, CloseMenu, OpenMenu, MoveHighlight, Search, Submit, bases, form, ghosts
<1>12. CASE BranchMade \/ UNCHANGED vars
  BY <1>2, <1>12 DEF BranchMade, vars, bases, form, ghosts
<1>13. QED
  BY <1>5, <1>6, <1>7, <1>8, <1>9, <1>10, <1>11, <1>12 DEF Next, Results, Creation, Keys

-------------------------------------------------------------------------------
(* The theorems.                                                               *)

IInv == Basics /\ Started /\ Remembered /\ BaseFetched /\ BaseAsConfirmed /\ SuggestionFollows

LEMMA InitIInv == Init => IInv
<1> SUFFICES ASSUME Init PROVE IInv
  OBVIOUS
<1>1. Basics /\ Started
  BY InitBasics, InitStarted
<1>2. BaseFetched /\ Remembered
  BY DEF Init, BaseFetched, Busy, NoCreation, Remembered
<1>3. BaseAsConfirmed
  BY DEF Init, BaseAsConfirmed, Base
<1>4. SuggestionFollows
  <2>1. First \in Lists /\ First[1].ref \in Refs
    BY ListFacts DEF Lists
  <2>2. IsFiniteSet(taken)
    BY <1>1 DEF Basics, Finite
  <2>3. name \notin taken /\ name[1] = NameOf[First[1].ref][1]
    BY <2>1, <2>2, AutoNameFree DEF Init
  <2>4. QED
    BY <1>2, <2>3 DEF Init, SuggestionFollows, Base
<1>5. QED
  BY <1>1, <1>2, <1>3, <1>4 DEF IInv

LEMMA IInvHolds == Spec => []IInv
<1>1. IInv /\ [Next]_vars => IInv'
  BY BasicsStep, StartedStep, BaseFetchedStep, BaseAsConfirmedStep, SuggestionStep DEF IInv
<1>2. QED
  BY <1>1, InitIInv, PTL DEF Spec

(* A worktree is based on a branch of a remote only after this popup has       *)
(* fetched that branch.                                                        *)
THEOREM BaseIsFetched == Spec => []BaseFetched
<1>1. IInv => BaseFetched
  BY DEF IInv
<1>2. QED
  BY <1>1, IInvHolds, PTL

(* A new list of candidates leaves the base where the user put it, as long as  *)
(* it is listed.                                                               *)
THEOREM BaseStaysConfirmed == Spec => []BaseAsConfirmed
<1>1. IInv => BaseAsConfirmed
  BY DEF IInv
<1>2. QED
  BY <1>1, IInvHolds, PTL

(* A suggested name comes from the base and avoids every name reported so far. *)
THEOREM SuggestionStaysFree == Spec => []SuggestionFollows
<1>1. IInv => SuggestionFollows
  BY DEF IInv
<1>2. QED
  BY <1>1, IInvHolds, PTL
===============================================================================
