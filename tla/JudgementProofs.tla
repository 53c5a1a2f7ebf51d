---------------------------- MODULE JudgementProofs ---------------------------
(* What merged and catchup promise, for any repositories, refspecs, branches,  *)
(* histories and limits: types; that an answer of catchup is true of its two   *)
(* commits; that an integration branch is never merged; and that what is       *)
(* merged is in another branch.  First the names of refs, then what a step     *)
(* does to the repository and to the round, then one invariant for each.       *)
EXTENDS Judgement, SequenceTheorems, NaturalsInduction, WellFoundedInduction, TLAPS

-------------------------------------------------------------------------------
(* Names.                                                                      *)

LEMMA Flattened ==
  ASSUME NEW Pairs \in SUBSET (Refs \X TrackingNames), NEW r, NEW n
  PROVE  <<repo, r, n>> \in {<<w[1][1], w[1][2], w[2]>> : w \in Pairs}
           <=> <<<<repo, r>>, n>> \in Pairs
<1> DEFINE v == <<<<repo, r>>, n>>
<1>1. ASSUME NEW w \in Pairs, <<w[1][1], w[1][2], w[2]>> = <<repo, r, n>>
      PROVE  w = v
  BY <1>1 DEF Refs
<1>2. v[1][1] = repo /\ v[1][2] = r /\ v[2] = n
  OBVIOUS
<1> HIDE DEF v
<1>3. <<repo, r, n>> \in {<<w[1][1], w[1][2], w[2]>> : w \in Pairs} <=> v \in Pairs
  BY <1>1, <1>2
<1>4. QED
  BY <1>3 DEF v

LEMMA NamesOfARef ==
  ASSUME repo \in Repos, NEW r \in RemoteRefs, NEW n \in TrackingNames
  PROVE  /\ <<repo, r, n>> \in Writes <=>
              r \in RefsOf(repo) /\ \E i \in DOMAIN Specs(repo, r.remote) :
                                      n \in ToLocal(Specs(repo, r.remote)[i], r.ref)
         /\ <<repo, r, n>> \in Tracks <=>
              r \in RefsOf(repo) /\ n = TrackingRefFor(Specs(repo, r.remote), r.remote, r.ref)
         /\ <<repo, r, n>> \in Own <=>
              r \in RefsOf(repo) /\ n \in TrackingRefsFor(Specs(repo, r.remote), r.remote, r.ref)
         /\ <<repo, r, n>> \in ComesFrom <=>
              r \in RefsOf(repo) /\ r.ref \in RemoteRefFor(Specs(repo, r.remote), r.remote, n)
<1> DEFINE v == <<<<repo, r>>, n>>
<1>1. v \in Refs \X TrackingNames <=> r \in RefsOf(repo)
  BY DEF Refs
<1>2. v[1][1] = repo /\ v[1][2] = r /\ v[2] = n
  OBVIOUS
<1> HIDE DEF v
<1>3. <<repo, r, n>> \in Writes <=>
        v \in {u \in Refs \X TrackingNames :
                 u[2] \in UNION {ToLocal(Specs(u[1][1], u[1][2].remote)[i], u[1][2].ref) :
                                   i \in DOMAIN Specs(u[1][1], u[1][2].remote)}}
  BY Flattened DEF v, Writes, Named
<1>4. <<repo, r, n>> \in Tracks <=>
        v \in {u \in Refs \X TrackingNames :
                 u[2] \in {TrackingRefFor(Specs(u[1][1], u[1][2].remote),
                                          u[1][2].remote, u[1][2].ref)}}
  BY Flattened DEF v, Tracks, Named
<1>5. <<repo, r, n>> \in Own <=>
        v \in {u \in Refs \X TrackingNames :
                 u[2] \in TrackingRefsFor(Specs(u[1][1], u[1][2].remote),
                                          u[1][2].remote, u[1][2].ref)}
  BY Flattened DEF v, Own, Named
<1>6. <<repo, r, n>> \in ComesFrom <=>
        v \in {u \in Refs \X TrackingNames :
                 u[2] \in {m \in TrackingNames :
                             u[1][2].ref \in RemoteRefFor(Specs(u[1][1], u[1][2].remote),
                                                          u[1][2].remote, m)}}
  BY Flattened DEF v, ComesFrom, Named
<1>7. QED
  BY <1>1, <1>2, <1>3, <1>4, <1>5, <1>6

(* The tracking ref of a registered ref is one of its own.                     *)
LEMMA LeastThere ==
  ASSUME NEW S \in SUBSET Nat, S # {}
  PROVE  \E m \in S : \A n \in S : m <= n
<1> DEFINE R == {ss \in Nat \X Nat : ss[1] < ss[2]}
<1>1. IsWellFoundedOn(R, Nat)
  <2>1. R = OpToRel(<, Nat)
    BY Zenon DEF OpToRel
  <2>2. QED
    BY <2>1, NatLessThanWellFounded, Zenon
<1>2. \A n, m \in Nat : n < m => <<n, m>> \in R
  OBVIOUS
<1> HIDE DEF R
<1>3. PICK m \in S : \A n \in S : ~ (<<n, m>> \in R)
  BY <1>1, WFMin
<1>4. ASSUME NEW n \in S
      PROVE  m <= n
  <2>1. n \in Nat /\ m \in Nat
    OBVIOUS
  <2>2. ~(n < m)
    BY <1>2, <1>3, <2>1, Zenon
  <2>3. QED
    BY <2>1, <2>2
<1>5. QED
  BY <1>3, <1>4, Zenon

(* The first pair is one of the results, if there is a pair among them.        *)
LEMMA FirstOfPairs ==
  ASSUME NEW results, DOMAIN results \subseteq Nat
  PROVE  \/ FirstPair(results) = {} /\ \A i \in DOMAIN results : results[i] = {}
         \/ /\ FirstPair(results) # {}
            /\ \E i \in DOMAIN results : FirstPair(results) = results[i]
<1> DEFINE paired == {i \in DOMAIN results : results[i] # {}}
<1>1. CASE paired = {}
  BY <1>1 DEF FirstPair
<1>2. CASE paired # {}
  <2>1. PICK m \in paired : \A n \in paired : m <= n
    BY <1>2, LeastThere
  <2>2. Min(paired) \in paired
    BY <2>1 DEF Min
  <2>3. FirstPair(results) = results[Min(paired)]
    BY <1>2 DEF FirstPair
  <2>4. QED
    BY <2>2, <2>3
<1>3. QED
  BY <1>1, <1>2

LEMMA Prefixes1 ==
  ASSUME NEW S, NEW s \in Seq(S), NEW t \in Seq(S)
  PROVE  IsPrefix(s, t) <=> Len(s) <= Len(t) /\ \A i \in 1..Len(s) : s[i] = t[i]
<1>1. SubSeq(s, 1, Len(s)) = s
  BY SubSeqFull
<1>2. CASE Len(s) <= Len(t)
  <2> DEFINE u == SubSeq(t, 1, Len(s))
  <2>0. Len(s) \in Nat /\ Len(t) \in Nat
    BY LenProperties
  <2>1. \A i \in 1..Len(s) : t[i] \in S
    BY <1>2, <2>0, ElementOfSeq
  <2>2. u \in Seq(S) /\ Len(u) = Len(s) /\ \A i \in 1..Len(s) : u[i] = t[i]
    <3>1. /\ u \in Seq(S)
          /\ Len(u) = IF 1 <= Len(s) THEN Len(s) - 1 + 1 ELSE 0
          /\ \A i \in 1..Len(s) - 1 + 1 : u[i] = t[1 + i - 1]
      BY <2>0, <2>1, SubSeqProperties
    <3> HIDE DEF u
    <3>2. Len(u) = Len(s)
      BY <3>1, <2>0
    <3>3. QED
      BY <3>1, <3>2, <2>0
  <2> HIDE DEF u
  <2>3. s = u <=> \A i \in 1..Len(s) : s[i] = t[i]
    <3>1. (\A i \in 1..Len(s) : s[i] = t[i]) => s = u
      BY <2>2, SeqEqual
    <3>2. QED
      BY <2>2, <3>1
  <2>4. QED
    BY <1>1, <1>2, <2>3 DEF IsPrefix, u
<1>3. CASE ~(Len(s) <= Len(t))
  BY <1>3 DEF IsPrefix
<1>4. QED
  BY <1>2, <1>3

LEMMA Suffixes1 ==
  ASSUME NEW S, NEW s \in Seq(S), NEW t \in Seq(S)
  PROVE  IsSuffix(s, t) <=>
           Len(s) <= Len(t) /\ \A i \in 1..Len(s) : s[i] = t[Len(t) - Len(s) + i]
<1>1. \A u \in Seq(S) : /\ Reverse(u) \in Seq(S) /\ Len(Reverse(u)) = Len(u)
                        /\ \A i \in 1..Len(u) : Reverse(u)[i] = u[Len(u) - i + 1]
  <2> SUFFICES ASSUME NEW u \in Seq(S)
               PROVE  /\ Reverse(u) \in Seq(S) /\ Len(Reverse(u)) = Len(u)
                      /\ \A i \in 1..Len(u) : Reverse(u)[i] = u[Len(u) - i + 1]
    OBVIOUS
  <2>1. Len(u) \in Nat
    BY LenProperties
  <2>2. \A i \in 1..Len(u) : u[(Len(u) - i) + 1] \in S
    BY <2>1, ElementOfSeq
  <2>3. Reverse(u) \in [1..Len(u) -> S]
    BY <2>2 DEF Reverse
  <2>4. QED
    BY <2>1, <2>3 DEF Reverse
<1>2. Len(s) \in Nat /\ Len(t) \in Nat
  BY LenProperties
<1>3. IsSuffix(s, t) <=>
        Len(s) <= Len(t) /\ \A i \in 1..Len(s) : Reverse(s)[i] = Reverse(t)[i]
  BY <1>1, Prefixes1 DEF IsSuffix
<1>4. ASSUME Len(s) <= Len(t)
      PROVE  (\A i \in 1..Len(s) : Reverse(s)[i] = Reverse(t)[i]) <=>
                \A i \in 1..Len(s) : s[i] = t[Len(t) - Len(s) + i]
  <2>1. \A i \in 1..Len(s) : Reverse(s)[i] = Reverse(t)[i] <=>
                               s[Len(s) - i + 1] = t[Len(t) - i + 1]
    BY <1>1, <1>2, <1>4
  <2>2. ASSUME \A i \in 1..Len(s) : s[Len(s) - i + 1] = t[Len(t) - i + 1], NEW i \in 1..Len(s)
        PROVE  s[i] = t[Len(t) - Len(s) + i]
    <3>1. Len(s) - i + 1 \in 1..Len(s)
      BY <1>2
    <3>2. /\ Len(s) - (Len(s) - i + 1) + 1 = i
          /\ Len(t) - (Len(s) - i + 1) + 1 = Len(t) - Len(s) + i
      BY <1>2
    <3>3. QED
      BY <2>2, <3>1, <3>2
  <2>3. ASSUME \A i \in 1..Len(s) : s[i] = t[Len(t) - Len(s) + i], NEW i \in 1..Len(s)
        PROVE  s[Len(s) - i + 1] = t[Len(t) - i + 1]
    <3>1. Len(s) - i + 1 \in 1..Len(s)
      BY <1>2
    <3>2. Len(t) - Len(s) + (Len(s) - i + 1) = Len(t) - i + 1
      BY <1>2
    <3>3. QED
      BY <2>3, <3>1, <3>2
  <2>4. QED
    BY <2>1, <2>2, <2>3
<1>5. QED
  BY <1>3, <1>4

Stands(b, m, a, t) ==
    /\ Len(t) >= Len(b) + Len(a) /\ IsPrefix(b, t) /\ IsSuffix(a, t)
    /\ m = SubSeq(t, Len(b) + 1, Len(t) - Len(a))

Joins(S, b, m, a, t) == m \in Seq(S) /\ t = b \o m \o a

(* A text begins with b and ends with a, apart from each other, exactly when   *)
(* something stands between them.                                              *)
LEMMA Between ==
  ASSUME NEW S, NEW b \in Seq(S), NEW a \in Seq(S), NEW t \in Seq(S), NEW m
  PROVE  Stands(b, m, a, t) <=> Joins(S, b, m, a, t)
<1>1. Len(b) \in Nat /\ Len(a) \in Nat /\ Len(t) \in Nat
  BY LenProperties
<1>2. ASSUME Len(t) >= Len(b) + Len(a)
      PROVE  LET u == SubSeq(t, Len(b) + 1, Len(t) - Len(a))
             IN /\ u \in Seq(S) /\ Len(u) = Len(t) - Len(a) - Len(b)
                /\ \A i \in 1..Len(u) : u[i] = t[Len(b) + i]
  <2> DEFINE from == Len(b) + 1
             to == Len(t) - Len(a)
             u == SubSeq(t, from, to)
  <2>1. from \in Int /\ to \in Int /\ \A i \in from..to : t[i] \in S
    BY <1>1, <1>2, ElementOfSeq
  <2>2. /\ u \in Seq(S) /\ Len(u) = IF from <= to THEN to - from + 1 ELSE 0
        /\ \A i \in 1..to - from + 1 : u[i] = t[from + i - 1]
    <3> HIDE DEF from, to
    <3>1. QED
      BY <2>1, SubSeqProperties
  <2>3. Len(u) = Len(t) - Len(a) - Len(b) /\ to - from + 1 = Len(t) - Len(a) - Len(b)
    <3> HIDE DEF u
    <3>1. QED
      BY <1>1, <1>2, <2>2
  <2>4. \A i \in 1..Len(u) : from + i - 1 = Len(b) + i
    <3> HIDE DEF u
    <3>1. QED
      BY <1>1, <2>3
  <2> HIDE DEF from, to
  <2>5. QED
    <3>1. \A i \in 1..Len(u) : u[i] = t[Len(b) + i]
      BY <2>2, <2>3, <2>4
    <3>2. QED
      BY <2>2, <2>3, <3>1 DEF from, to
<1>3. ASSUME Stands(b, m, a, t)
      PROVE  m \in Seq(S) /\ t = b \o m \o a
  <2>0. /\ Len(t) >= Len(b) + Len(a) /\ IsPrefix(b, t) /\ IsSuffix(a, t)
        /\ m = SubSeq(t, Len(b) + 1, Len(t) - Len(a))
    BY <1>3 DEF Stands
  <2>1. /\ m \in Seq(S) /\ Len(m) = Len(t) - Len(a) - Len(b)
        /\ \A i \in 1..Len(m) : m[i] = t[Len(b) + i]
    BY <1>2, <2>0
  <2>2. /\ b \o m \in Seq(S) /\ Len(b \o m) = Len(t) - Len(a)
        /\ \A i \in 1..Len(t) - Len(a) :
             (b \o m)[i] = IF i <= Len(b) THEN b[i] ELSE m[i - Len(b)]
    BY <1>1, <2>1, ConcatProperties
  <2> DEFINE c == (b \o m) \o a
  <2>3. /\ c \in Seq(S) /\ Len(c) = Len(t)
        /\ \A i \in 1..Len(t) :
             c[i] = IF i <= Len(t) - Len(a) THEN (b \o m)[i] ELSE a[i - (Len(t) - Len(a))]
    <3>1. /\ c \in Seq(S) /\ Len(c) = Len(b \o m) + Len(a)
          /\ \A i \in 1..Len(b \o m) + Len(a) :
               c[i] = IF i <= Len(b \o m) THEN (b \o m)[i] ELSE a[i - Len(b \o m)]
      BY <2>2, ConcatProperties
    <3> HIDE DEF c
    <3>2. Len(b \o m) + Len(a) = Len(t)
      BY <1>1, <2>2
    <3>3. QED
      BY <2>2, <3>1, <3>2
  <2> HIDE DEF c
  <2>4. ASSUME NEW i \in 1..Len(t)
        PROVE  c[i] = t[i]
    <3>1. CASE i <= Len(b)
      BY <1>1, <2>0, <2>2, <2>3, <3>1, Prefixes1
    <3>2. CASE i > Len(b) /\ i <= Len(t) - Len(a)
      <4>1. c[i] = m[i - Len(b)] /\ i - Len(b) \in 1..Len(m)
        BY <1>1, <2>1, <2>2, <2>3, <3>2
      <4>2. Len(b) + (i - Len(b)) = i
        BY <1>1
      <4>3. QED
        BY <2>1, <4>1, <4>2
    <3>3. CASE i > Len(t) - Len(a)
      <4> DEFINE j == i - (Len(t) - Len(a))
      <4>1. c[i] = a[j] /\ j \in 1..Len(a) /\ Len(t) - Len(a) + j = i
        BY <1>1, <2>0, <2>3, <3>3
      <4>2. a[j] = t[Len(t) - Len(a) + j]
        BY <2>0, <4>1, Suffixes1
      <4>3. QED
        BY <4>1, <4>2
    <3>4. QED
      BY <1>1, <3>1, <3>2, <3>3
  <2>5. c = t
    BY <2>3, <2>4, SeqEqual
  <2>6. QED
    BY <2>1, <2>5 DEF c
<1>4. ASSUME m \in Seq(S), t = b \o m \o a
      PROVE  Stands(b, m, a, t)
  <2>1. Len(m) \in Nat
    BY <1>4, LenProperties
  <2>2. /\ b \o m \in Seq(S) /\ Len(b \o m) = Len(b) + Len(m)
        /\ \A i \in 1..Len(b) + Len(m) :
             (b \o m)[i] = IF i <= Len(b) THEN b[i] ELSE m[i - Len(b)]
    BY <1>4, ConcatProperties
  <2>3. /\ Len(t) = Len(b) + Len(m) + Len(a)
        /\ \A i \in 1..Len(b) + Len(m) + Len(a) :
             t[i] = IF i <= Len(b) + Len(m) THEN (b \o m)[i] ELSE a[i - (Len(b) + Len(m))]
    BY <1>4, <2>2, ConcatProperties
  <2>4. \A i \in 1..Len(b) : b[i] = t[i]
    BY <1>1, <2>1, <2>2, <2>3
  <2>5. \A i \in 1..Len(a) : a[i] = t[Len(t) - Len(a) + i]
    <3> SUFFICES ASSUME NEW i \in 1..Len(a) PROVE a[i] = t[Len(t) - Len(a) + i]
      OBVIOUS
    <3> DEFINE k == Len(t) - Len(a) + i
    <3>1. /\ k \in 1..Len(b) + Len(m) + Len(a) /\ ~(k <= Len(b) + Len(m))
          /\ k - (Len(b) + Len(m)) = i
      BY <1>1, <2>1, <2>3
    <3> HIDE DEF k
    <3>2. t[k] = a[i]
      BY <2>3, <3>1
    <3>3. QED
      BY <3>2 DEF k
  <2>6. Len(t) >= Len(b) + Len(a) /\ IsPrefix(b, t) /\ IsSuffix(a, t)
    <3>1. Len(t) >= Len(b) + Len(a) /\ Len(b) <= Len(t) /\ Len(a) <= Len(t)
      BY <1>1, <2>1, <2>3
    <3>2. IsPrefix(b, t)
      BY <3>1, <2>4, Prefixes1
    <3>3. IsSuffix(a, t)
      BY <3>1, <2>5, Suffixes1
    <3>4. QED
      BY <3>1, <3>2, <3>3
  <2> DEFINE u == SubSeq(t, Len(b) + 1, Len(t) - Len(a))
  <2>7. u \in Seq(S) /\ Len(u) = Len(m) /\ \A i \in 1..Len(u) : u[i] = t[Len(b) + i]
    <3>1. /\ u \in Seq(S) /\ Len(u) = Len(t) - Len(a) - Len(b)
          /\ \A i \in 1..Len(u) : u[i] = t[Len(b) + i]
      BY <1>2, <2>6
    <3> HIDE DEF u
    <3>2. QED
      BY <1>1, <2>1, <2>3, <3>1
  <2> HIDE DEF u
  <2>8. \A i \in 1..Len(m) : m[i] = t[Len(b) + i]
    <3> SUFFICES ASSUME NEW i \in 1..Len(m) PROVE m[i] = t[Len(b) + i]
      OBVIOUS
    <3> DEFINE k == Len(b) + i
    <3>1. /\ k \in 1..Len(b) + Len(m) /\ k \in 1..Len(b) + Len(m) + Len(a)
          /\ ~(k <= Len(b)) /\ k <= Len(b) + Len(m) /\ k - Len(b) = i
      BY <1>1, <2>1
    <3> HIDE DEF k
    <3>2. t[k] = m[i]
      BY <2>2, <2>3, <3>1
    <3>3. QED
      BY <3>2 DEF k
  <2>9. m = u
    BY <1>4, <2>7, <2>8, SeqEqual
  <2>10. QED
    BY <2>6, <2>9 DEF u, Stands
<1>5. QED
  BY <1>3, <1>4 DEF Joins

(* What a side with a star pairs with stands between its two halves.           *)
LEMMA SideMatches ==
  ASSUME NEW S, NEW side \in Seq(S), NEW ref \in Seq(S), HasStar(side), NEW m
  PROVE  /\ BeforeStar(side) \in Seq(S) /\ AfterStar(side) \in Seq(S)
         /\ m \in MatchSide(side, ref) <=>
              Joins(S, BeforeStar(side), m, AfterStar(side), ref)
<1> DEFINE at == SelectInSeq(side, LAMBDA part : part = Star)
           I == {i \in 1..Len(side) : side[i] = Star}
<1>1. Len(side) \in Nat /\ DOMAIN side = 1..Len(side)
  BY LenProperties
<1>2. at \in 1..Len(side)
  <2>1. I # {} /\ I \in SUBSET Nat
    BY <1>1 DEF HasStar
  <2>2. PICK k \in I : \A n \in I : k <= n
    BY <2>1, LeastThere
  <2>3. Min(I) \in I
    BY <2>2 DEF Min
  <2>4. at = Min(I)
    BY <2>1 DEF SelectInSeq
  <2>5. QED
    BY <2>3, <2>4
<1> HIDE DEF at
<1>3. BeforeStar(side) = SubSeq(side, 1, at - 1) /\ AfterStar(side) = SubSeq(side, at + 1, Len(side))
  BY DEF BeforeStar, AfterStar, at
<1>4. /\ BeforeStar(side) \in Seq(S) /\ AfterStar(side) \in Seq(S)
  <2>1. \A i \in 1..at - 1 : side[i] \in S
    BY <1>1, <1>2, ElementOfSeq
  <2>2. \A i \in at + 1..Len(side) : side[i] \in S
    BY <1>1, <1>2, ElementOfSeq
  <2>3. SubSeq(side, 1, at - 1) \in Seq(S)
    BY <1>2, <2>1, SubSeqProperties
  <2>4. SubSeq(side, at + 1, Len(side)) \in Seq(S)
    BY <1>1, <1>2, <2>2, SubSeqProperties
  <2>5. QED
    BY <1>3, <2>3, <2>4
<1>5. m \in MatchSide(side, ref) <=> Stands(BeforeStar(side), m, AfterStar(side), ref)
  BY DEF MatchSide, Stands
<1>6. QED
  BY <1>4, <1>5, Between, Zenon

(* A refspec pairs both ways: fetch writes n for ref, exactly when n is        *)
(* fetched again from ref.                                                     *)
LEMMA PairsBothWays ==
  ASSUME NEW spec \in [source : Seq(STRING), destination : Seq(STRING)],
         HasStar(spec.source) <=> HasStar(spec.destination),
         NEW ref \in Seq(STRING), NEW n \in Seq(STRING)
  PROVE  n \in ToLocal(spec, ref) <=> ref \in ToRemote(spec, n)
<1>1. CASE ~HasStar(spec.source)
  <2>1. n \in ToLocal(spec, ref) <=> spec.source = ref /\ n = spec.destination
    BY <1>1 DEF ToLocal, Substitute, MatchSide
  <2>2. ref \in ToRemote(spec, n) <=> spec.destination = n /\ ref = spec.source
    BY <1>1 DEF ToRemote, Substitute, MatchSide
  <2>3. QED
    BY <2>1, <2>2
<1>2. CASE HasStar(spec.source)
  <2>1. n \in ToLocal(spec, ref) <=>
          \E m \in MatchSide(spec.source, ref) :
            n = BeforeStar(spec.destination) \o m \o AfterStar(spec.destination)
    BY <1>2 DEF ToLocal, Substitute
  <2>2. ref \in ToRemote(spec, n) <=>
          \E m \in MatchSide(spec.destination, n) :
            ref = BeforeStar(spec.source) \o m \o AfterStar(spec.source)
    BY <1>2 DEF ToRemote, Substitute
  <2>3. \A m : m \in MatchSide(spec.source, ref) <=>
          Joins(STRING, BeforeStar(spec.source), m, AfterStar(spec.source), ref)
    BY <1>2, SideMatches
  <2>4. \A m : m \in MatchSide(spec.destination, n) <=>
          Joins(STRING, BeforeStar(spec.destination), m, AfterStar(spec.destination), n)
    BY <1>2, SideMatches
  <2>5. QED
    BY <2>1, <2>2, <2>3, <2>4 DEF Joins
<1>3. QED
  BY <1>1, <1>2

-------------------------------------------------------------------------------
(* The names of one repository.                                                *)

LEMMA SpecsType ==
  ASSUME repo \in Repos, NEW r \in Remotes
  PROVE  /\ Specs(repo, r) \in Seq([source : Seq(STRING), destination : Seq(STRING)])
         /\ DOMAIN Specs(repo, r) \subseteq Nat
         /\ \A i \in DOMAIN Specs(repo, r) :
              /\ Specs(repo, r)[i] \in [source : Seq(STRING), destination : Seq(STRING)]
              /\ HasStar(Specs(repo, r)[i].source) <=> HasStar(Specs(repo, r)[i].destination)
              /\ Specs(repo, r)[i] \in AllRefspecs(repo)
<1> DEFINE S == [source : Seq(STRING), destination : Seq(STRING)]
           s == Specs(repo, r)
<1>1. /\ s \in Seq(S)
      /\ \A i \in DOMAIN s : HasStar(s[i].source) <=> HasStar(s[i].destination)
  BY ConfigAssumption DEF Remotes, Registered, Specs
<1>2. \A i \in DOMAIN s : s[i] \in AllRefspecs(repo)
  BY DEF Remotes, AllRefspecs, ToSet
<1> HIDE DEF S, s
<1>3. DOMAIN s = 1..Len(s) /\ Len(s) \in Nat
  BY <1>1, LenProperties
<1>4. \A i \in DOMAIN s : s[i] \in S
  BY <1>1, <1>3, ElementOfSeq
<1>5. QED
  BY <1>1, <1>2, <1>3, <1>4 DEF s, S

LEMMA RefType ==
  ASSUME repo \in Repos, NEW r \in RefsOf(repo)
  PROVE  /\ r \in RemoteRefs /\ r.remote \in Remotes /\ r.remote \in Seq(STRING)
         /\ r.ref \in Seq(STRING) /\ r.ref # <<>> /\ r = [remote |-> r.remote, ref |-> r.ref]
         /\ IsBranch(r.ref) <=> r \in Branches
  BY NamesAssumption DEF RefsOf, Remotes, Branches, BranchesOf

(* What fetch writes for a ref are the ref's own names.                        *)
LEMMA WritesAreOwn ==
  ASSUME repo \in Repos, NEW r, NEW n, <<repo, r, n>> \in Writes
  PROVE  r \in RefsOf(repo) /\ n \in TrackingNames /\ <<repo, r, n>> \in Own
<1>1. r \in RemoteRefs /\ n \in TrackingNames
  <2>1. Writes \subseteq {<<w[1][1], w[1][2], w[2]>> : w \in Refs \X TrackingNames}
    BY DEF Writes, Named
  <2>2. PICK w \in Refs \X TrackingNames : <<repo, r, n>> = <<w[1][1], w[1][2], w[2]>>
    BY <2>1
  <2>3. w[1][2] \in RemoteRefs /\ w[2] \in TrackingNames
    BY DEF Refs
  <2>4. QED
    BY <2>2, <2>3
<1>2. r \in RefsOf(repo)
  BY <1>1, NamesOfARef
<1>3. n \in TrackingRefsFor(Specs(repo, r.remote), r.remote, r.ref)
  BY <1>1, NamesOfARef DEF TrackingRefsFor
<1>4. QED
  BY <1>1, <1>2, <1>3, NamesOfARef

(* The tracking ref of a registered ref is one of its own names.               *)
LEMMA TrackingIsOwn ==
  ASSUME repo \in Repos, NEW r \in RefsOf(repo)
  PROVE  /\ Tracking(r) \in TrackingNames /\ <<repo, r, Tracking(r)>> \in Own
         /\ Tracking(r) = TrackingRefFor(Specs(repo, r.remote), r.remote, r.ref)
<1> DEFINE specs == Specs(repo, r.remote)
           pairs == [i \in DOMAIN specs |-> ToLocal(specs[i], r.ref)]
           n == TrackingRefFor(specs, r.remote, r.ref)
<1>1. r \in RemoteRefs /\ DOMAIN pairs \subseteq Nat
  BY RefType, SpecsType
<1>2. n \in TrackingRefsFor(specs, r.remote, r.ref)
  <2>1. CASE FirstPair(pairs) = {}
    <3>1. \A i \in DOMAIN specs : ToLocal(specs[i], r.ref) = {}
      <4>1. \A i \in DOMAIN pairs : pairs[i] = {}
        <5> HIDE DEF pairs
        <5>1. QED
          BY <1>1, <2>1, FirstOfPairs
      <4>2. QED
        BY <4>1
    <3>2. n = ByConvention(r.remote, r.ref)
      BY <2>1 DEF TrackingRefFor
    <3>3. TrackingRefsFor(specs, r.remote, r.ref) = {ByConvention(r.remote, r.ref)}
      BY <3>1 DEF TrackingRefsFor
    <3>4. QED
      BY <3>2, <3>3
  <2>2. CASE FirstPair(pairs) # {}
    <3>1. PICK i \in DOMAIN specs : FirstPair(pairs) = ToLocal(specs[i], r.ref)
      <4>1. \E i \in DOMAIN pairs : FirstPair(pairs) = pairs[i]
        <5> HIDE DEF pairs
        <5>1. QED
          BY <1>1, <2>2, FirstOfPairs
      <4>2. QED
        BY <4>1
    <3>2. n \in FirstPair(pairs)
      BY <2>2 DEF TrackingRefFor
    <3>3. QED
      BY <3>1, <3>2 DEF TrackingRefsFor
  <2>3. QED
    BY <2>1, <2>2
<1>3. n \in TrackingNames
  BY <1>1, <1>2, ConfigAssumption DEF RefsOf, Registered, Specs
<1> HIDE DEF n
<1>4. \A m \in TrackingNames : <<repo, r, m>> \in Tracks <=> m = n
  BY <1>1, NamesOfARef DEF n
<1>5. Tracking(r) = n
  BY <1>3, <1>4 DEF Tracking
<1>6. <<repo, r, n>> \in Own
  BY <1>1, <1>2, <1>3, NamesOfARef DEF n
<1>7. QED
  BY <1>3, <1>5, <1>6 DEF n

LEMMA NoBranchPairs ==
  ASSUME repo \in Repos, NEW n \in TrackingNames
  PROVE  <<repo, n>> \in NonBranches <=> \E spec \in AllRefspecs(repo) : BringsNonBranch(spec, n)
<1> DEFINE P == {w \in Repos \X TrackingNames :
                   \E spec \in AllRefspecs(w[1]) : BringsNonBranch(spec, w[2])}
           v == <<repo, n>>
<1>1. v \in P <=> \E spec \in AllRefspecs(repo) : BringsNonBranch(spec, n)
  OBVIOUS
<1>2. \A w \in P : <<w[1], w[2]>> = w
  OBVIOUS
<1>3. v[1] = repo /\ v[2] = n
  OBVIOUS
<1> HIDE DEF P
<1>4. <<repo, n>> \in {<<w[1], w[2]>> : w \in P} <=> v \in P
  BY <1>2, <1>3
<1>5. QED
  BY <1>1, <1>4 DEF NonBranches, Image, P

(* What fetch writes for no branch is known to come from no branch.            *)
LEMMA FromNoBranchCopies ==
  ASSUME repo \in Repos, NEW r \in RefsOf(repo), ~IsBranch(r.ref),
         NEW n, <<repo, r, n>> \in Writes
  PROVE  n \in FromNoBranch
<1>1. r \in RemoteRefs /\ r.ref \in Seq(STRING) /\ n \in TrackingNames /\ n \in Seq(STRING)
  BY RefType, WritesAreOwn, NamesAssumption
<1>2. PICK i \in DOMAIN Specs(repo, r.remote) : n \in ToLocal(Specs(repo, r.remote)[i], r.ref)
  BY <1>1, NamesOfARef
<1> DEFINE spec == Specs(repo, r.remote)[i]
<1>3. /\ spec \in [source : Seq(STRING), destination : Seq(STRING)]
      /\ HasStar(spec.source) <=> HasStar(spec.destination)
      /\ spec \in AllRefspecs(repo)
  BY RefType, SpecsType
<1>4. n \in ToLocal(spec, r.ref)
  BY <1>2
<1> HIDE DEF spec
<1>5. r.ref \in ToRemote(spec, n)
  BY <1>1, <1>3, <1>4, PairsBothWays
<1>6. BringsNonBranch(spec, n)
  BY <1>5 DEF BringsNonBranch
<1>7. <<repo, n>> \in NonBranches
  BY <1>1, <1>3, <1>6, NoBranchPairs
<1>8. QED
  BY <1>1, <1>7 DEF FromNoBranch

LEMMA TargetPairs ==
  ASSUME repo \in Repos, NEW r \in RefsOf(repo)
  PROVE  <<repo, r>> \in Targets <=> \E short \in Config[repo].targets :
                                       r \in TargetFromShortRef(Registered(repo), short)
<1> DEFINE P == {w \in Refs : \E short \in Config[w[1]].targets :
                   w[2] \in TargetFromShortRef(Registered(w[1]), short)}
           v == <<repo, r>>
<1>1. v \in P <=> \E short \in Config[repo].targets :
                    r \in TargetFromShortRef(Registered(repo), short)
  BY RefType DEF Refs
<1>2. \A w \in P : <<w[1], w[2]>> = w
  BY DEF Refs
<1>3. v[1] = repo /\ v[2] = r
  OBVIOUS
<1> HIDE DEF P
<1>4. <<repo, r>> \in {<<w[1], w[2]>> : w \in P} <=> v \in P
  BY <1>2, <1>3
<1>5. QED
  BY <1>1, <1>4 DEF Targets, Image, P

(* The provers do not know a literal for a string, so it is added.             *)
Parts == STRING \cup {"heads", "remotes"}

LEMMA PartsOfRefs ==
  /\ \A s \in Seq(STRING) : s \in Seq(Parts)
  /\ \A w \in {"heads", "remotes"} : <<w>> \in Seq(Parts) /\ Len(<<w>>) = 1 /\ <<w>>[1] = w
<1>1. STRING \subseteq Parts /\ "heads" \in Parts /\ "remotes" \in Parts
  BY DEF Parts
<1>2. ASSUME NEW S, NEW w \in S
      PROVE  <<w>> \in Seq(S) /\ Len(<<w>>) = 1 /\ <<w>>[1] = w
  OBVIOUS
<1>3. ASSUME NEW s \in Seq(STRING)
      PROVE  s \in Seq(Parts)
  BY <1>1, SeqMonotonic
<1>4. QED
  BY <1>1, <1>2, <1>3

(* Every mergeTarget is a branch.                                              *)
LEMMA TargetsAreBranches ==
  ASSUME repo \in Repos, NEW up \in MergeTargets
  PROVE  \E r \in Branches : up = Known(r)
<1>1. PICK r \in RefsOf(repo) : <<repo, r>> \in Targets /\ up = Known(r)
  BY DEF MergeTargets
<1>2. PICK short \in Config[repo].targets : r \in TargetFromShortRef(Registered(repo), short)
  BY <1>1, TargetPairs
<1>3. r.remote \in Seq(STRING) /\ short \in Seq(STRING)
  BY RefType, ConfigAssumption
<1>4. Len(short) > Len(r.remote)
      /\ r.ref = <<"heads">> \o SubSeq(short, Len(r.remote) + 1, Len(short))
  <2>1. \E x \in Registered(repo) :
          /\ Len(short) > Len(x)
          /\ r = [remote |-> x, ref |-> <<"heads">> \o SubSeq(short, Len(x) + 1, Len(short))]
    BY <1>2 DEF TargetFromShortRef
  <2>2. QED
    BY <2>1
<1> DEFINE rest == SubSeq(short, Len(r.remote) + 1, Len(short))
<1>5. rest \in Seq(STRING)
  <2>1. Len(r.remote) \in Nat /\ Len(short) \in Nat
    BY <1>3, LenProperties
  <2>2. \A i \in Len(r.remote) + 1..Len(short) : short[i] \in STRING
    BY <1>3, <2>1, ElementOfSeq
  <2>3. QED
    BY <2>1, <2>2, SubSeqProperties
<1> HIDE DEF rest
<1>6. (<<"heads">> \o rest)[1] = "heads"
  <2>1. /\ <<"heads">> \in Seq(Parts) /\ Len(<<"heads">>) = 1 /\ <<"heads">>[1] = "heads"
        /\ rest \in Seq(Parts)
    BY <1>5, PartsOfRefs
  <2>2. Len(rest) \in Nat
    BY <1>5, LenProperties
  <2>3. QED
    BY <1>5, <2>1, <2>2, ConcatProperties
<1>7. r \in Branches
  BY <1>4, <1>6, RefType DEF rest, IsBranch
<1>8. QED
  BY <1>1, <1>7

(* A branch is found again behind its tracking ref, whether a refspec or the   *)
(* convention leads there.                                                     *)
LEMMA BehindItsTrackingRef ==
  ASSUME repo \in Repos, NEW d \in Branches, Tracking(d) \notin FromNoBranch,
         NEW q \in RefsOf(repo), q.remote = d.remote, <<repo, q, Tracking(d)>> \in ComesFrom
  PROVE  q \in Branches /\ <<repo, q, Tracking(d)>> \in Own
<1> DEFINE specs == Specs(repo, d.remote)
           n == Tracking(d)
           pairs == [i \in DOMAIN specs |-> ToRemote(specs[i], n)]
           own == <<"remotes">> \o d.remote
<1>1. /\ d \in RefsOf(repo) /\ d.remote \in Remotes /\ d.remote \in Seq(STRING)
      /\ d.ref \in Seq(STRING) /\ d.ref # <<>> /\ IsBranch(d.ref)
      /\ q \in RemoteRefs /\ q.ref \in Seq(STRING) /\ d \in RemoteRefs
  BY RefType DEF Branches, BranchesOf
<1>2. n \in TrackingNames /\ n \in Seq(STRING) /\ <<repo, d, n>> \in Own
      /\ n = TrackingRefFor(specs, d.remote, d.ref)
  BY <1>1, TrackingIsOwn, NamesAssumption
<1>3. q.ref \in RemoteRefFor(specs, d.remote, n)
  BY <1>1, <1>2, NamesOfARef
<1>4. /\ DOMAIN specs \subseteq Nat
      /\ \A i \in DOMAIN specs :
           /\ specs[i] \in [source : Seq(STRING), destination : Seq(STRING)]
           /\ HasStar(specs[i].source) <=> HasStar(specs[i].destination)
           /\ specs[i] \in AllRefspecs(repo)
  BY <1>1, SpecsType
<1>5. ASSUME NEW i \in DOMAIN specs, NEW ref \in Seq(STRING)
      PROVE  n \in ToLocal(specs[i], ref) <=> ref \in ToRemote(specs[i], n)
  <2> HIDE DEF specs, n
  <2>1. QED
    BY <1>2, <1>4, PairsBothWays
<1>6. CASE FirstPair(pairs) # {}
  <2>1. PICK i \in DOMAIN specs : FirstPair(pairs) = ToRemote(specs[i], n)
    <3>1. \E i \in DOMAIN pairs : FirstPair(pairs) = pairs[i]
      <4>1. DOMAIN pairs \subseteq Nat
        BY <1>4
      <4> HIDE DEF pairs
      <4>2. QED
        BY <1>6, <4>1, FirstOfPairs
    <3>2. QED
      BY <3>1
  <2>2. q.ref \in ToRemote(specs[i], n)
    BY <1>3, <1>6, <2>1 DEF RemoteRefFor
  <2>3. q \in Branches
    <3>1. ~BringsNonBranch(specs[i], n)
      <4>1. <<repo, n>> \notin NonBranches
        BY <1>2 DEF FromNoBranch
      <4>2. QED
        BY <1>2, <1>4, <4>1, NoBranchPairs
    <3>2. QED
      BY <2>2, <3>1, RefType DEF BringsNonBranch
  <2>4. n \in ToLocal(specs[i], q.ref)
    BY <1>1, <1>5, <2>2
  <2>5. <<repo, q, n>> \in Writes
    BY <1>1, <1>2, <2>4, NamesOfARef
  <2>6. QED
    BY <2>3, <2>5, WritesAreOwn
<1>7. CASE FirstPair(pairs) = {}
  <2>1. \A i \in DOMAIN specs : ToRemote(specs[i], n) = {}
    <3>1. \A i \in DOMAIN pairs : pairs[i] = {}
      <4>1. DOMAIN pairs \subseteq Nat
        BY <1>4
      <4> HIDE DEF pairs
      <4>2. QED
        BY <1>7, <4>1, FirstOfPairs
    <3>2. QED
      BY <3>1
  <2>2. \A i \in DOMAIN specs : n \notin ToLocal(specs[i], d.ref)
    BY <1>1, <1>5, <2>1
  <2>3. n = ByConvention(d.remote, d.ref)
    <3>1. n \in TrackingRefsFor(specs, d.remote, d.ref)
      BY <1>1, <1>2, NamesOfARef
    <3>2. QED
      BY <2>2, <3>1 DEF TrackingRefsFor
  <2>4. n = own \o Tail(d.ref)
    BY <1>1, <2>3 DEF ByConvention
  <2>5. /\ own \in Seq(Parts) /\ Tail(d.ref) \in Seq(Parts) /\ n \in Seq(Parts)
        /\ Len(own) \in Nat /\ Len(n) \in Nat
    <3>1. <<"remotes">> \in Seq(Parts) /\ d.remote \in Seq(Parts) /\ n \in Seq(Parts)
      BY <1>1, <1>2, PartsOfRefs
    <3>2. own \in Seq(Parts)
      BY <3>1, ConcatProperties
    <3>3. Tail(d.ref) \in Seq(Parts)
      BY <1>1, HeadTailProperties, PartsOfRefs
    <3>4. QED
      BY <3>1, <3>2, <3>3, LenProperties
  <2>6. SubSeq(n, Len(own) + 1, Len(n)) = Tail(d.ref)
    <3>1. Joins(Parts, own, Tail(d.ref), <<>>, n)
      <4>1. own \o Tail(d.ref) \in Seq(Parts)
        BY <2>5, ConcatProperties
      <4>2. (own \o Tail(d.ref)) \o <<>> = own \o Tail(d.ref)
        BY <4>1, ConcatEmptySeq
      <4>3. QED
        BY <2>4, <2>5, <4>2 DEF Joins
    <3>2. <<>> \in Seq(Parts) /\ Len(<<>>) = 0
      BY EmptySeq
    <3> HIDE DEF n, own
    <3>3. Stands(own, Tail(d.ref), <<>>, n)
      BY <2>5, <3>1, <3>2, Between
    <3>4. Len(n) - Len(<<>>) = Len(n)
      BY <2>5, <3>2
    <3>5. QED
      BY <3>3, <3>4 DEF Stands
  <2>7. q.ref = <<"heads">> \o Tail(d.ref)
    <3>1. q.ref = <<"heads">> \o SubSeq(n, Len(own) + 1, Len(n))
      BY <1>3, <1>7 DEF RemoteRefFor
    <3>2. QED
      BY <2>6, <3>1
  <2>8. d.ref = <<"heads">> \o Tail(d.ref)
    <3>1. Len(d.ref) \in Nat /\ Len(d.ref) # 0 /\ d.ref[1] = "heads"
      BY <1>1, EmptySeq, LenProperties DEF IsBranch
    <3>2. d.ref = SubSeq(d.ref, 1, Len(d.ref)) /\ Tail(d.ref) = SubSeq(d.ref, 2, Len(d.ref))
      BY <1>1, SubSeqFull, TailIsSubSeq
    <3>3. SubSeq(d.ref, 1, Len(d.ref)) = <<d.ref[1]>> \o SubSeq(d.ref, 1 + 1, Len(d.ref))
      BY <1>1, <3>1, SubSeqRecursiveFirst
    <3>4. QED
      BY <3>1, <3>2, <3>3
  <2>9. q = d
    BY <1>1, <2>7, <2>8, RefType
  <2>10. QED
    BY <1>2, <2>9
<1>8. QED
  BY <1>6, <1>7

-------------------------------------------------------------------------------
(* The invariants.                                                             *)

(* Every variable has its type, and the default branch has commits.            *)
Types == TypeOK /\ remote[default] # None

(* A past is closed, and two commits have a best common ancestor.              *)
History ==
    /\ \A c \in Commits : c \in Past(c) /\ \A d \in Past(c) : Past(d) \subseteq Past(c)
    /\ \A a, b \in Commits : MergeBases(a, b) # {}

(* A recorded answer is what merging the two commits gives.                    *)
CacheTruth ==
    \A b \in LocalBranches : cache[b].answer \in {"clean", "conflict"} =>
      /\ cache[b].head \in Commits /\ cache[b].tip \in Commits
      /\ cache[b].answer = Truth(cache[b].tip, cache[b].head)

(* What is known here of the default branch was true once.                     *)
HasBeenDefault ==
    /\ default \in defaults
    /\ \A r \in Remotes : record[r].default \subseteq defaults
    /\ \A r \in Remotes : \A n \in alias[r] : \E d \in defaults : d.remote = r /\ n = Tracking(d)
    /\ \A p \in DOMAIN asking : \A q \in asking[p] : q.record.default \subseteq defaults

Listed == {up.tracking : up \in round.list}
Judging == round.pc \in {"targets", "tree"} \/ round.merged

(* The list of a round that knows a default branch has what was one, and the   *)
(* mergeTargets; and the round judges only a branch that is none of them.      *)
ListComplete ==
    /\ round.merged => round.pc = "judged"
    /\ round.pc = "branch" => ~round.known
    /\ round.known => \E d \in defaults : Tracking(d) \in Listed
    /\ round.known /\ round.whole => {up.tracking : up \in MergeTargets} \subseteq Listed
    /\ Judging /\ round.whole =>
         round.known /\ OwnRefs(round.branch, Remotes) \cap Listed = {}

Held(c, r) == remote[r] # None /\ c \in Past(remote[r])

(* A tracking ref that is not known to come from no branch is the copy of a    *)
(* branch: what it holds has been in that branch.                              *)
CopyOf(n, r) == <<repo, r, n>> \in Own /\ Held(tracking[n], r)
CopiesOfBranches ==
    \A n \in TrackingNames \ FromNoBranch : tracking[n] # None => \E r \in Branches : CopyOf(n, r)

(* The list is made of tracking refs of branches, to be fetched from these.    *)
ListOfBranches ==
    /\ \A up \in round.list :
         /\ \E r \in Branches : <<repo, r, up.tracking>> \in Own
         /\ \A r \in up.from : r \in Branches /\ <<repo, r, up.tracking>> \in Own
    /\ round.pc \in {"targets", "tree"} => round.left \subseteq Listed
    /\ round.pc = "tree" => round.target \in Listed

(* What a round takes for an upstream is one in the settings.                  *)
UpstreamsOfConfig ==
    \A up \in round.upstream : \E b \in LocalBranches : up \in Config[repo].upstream[b]

(* The tree that is compared is made with a commit of another branch.          *)
TreeOfMerge ==
    round.pc = "tree" /\ round.whole =>
      \E t \in Commits : \E r \in Elsewhere(round.branch) :
        /\ Held(t, r) /\ ~Conflicts(t, round.head) /\ round.tree = MergedTree(t, round.head)

(* What HEAD has made of every area is elsewhere.                              *)
Evidence ==
    round.merged /\ round.whole =>
      \A x \in Areas : \E r \in Elsewhere(round.branch) : \E c \in Commits :
        Held(c, r) /\ Version(c, x) = Version(round.head, x)

-------------------------------------------------------------------------------
(* Types.                                                                      *)

(* What was committed stays as it is.                                          *)
KeepsCommits ==
    /\ commits' \in Seq(CommitRecords')
    /\ Commits \subseteq Commits' /\ \A c \in Commits : commits'[c] = commits[c]

LEMMA CommitTypes ==
  ASSUME commits \in Seq(CommitRecords)
  PROVE  /\ Len(commits) \in Nat /\ None \notin Commits
         /\ \A c \in Commits : /\ commits[c] \in CommitRecords
                               /\ Past(c) \subseteq Commits
                               /\ \A x \in Areas : Version(c, x) \in Commits
<1>1. Len(commits) \in Nat
  BY LenProperties
<1>2. \A c \in Commits : commits[c] \in CommitRecords
  BY ElementOfSeq DEF Commits
<1>3. None \notin Commits
  BY <1>1 DEF None, Commits
<1>4. QED
  BY <1>1, <1>2, <1>3 DEF CommitRecords, Past, Version

LEMMA NewCommitStep ==
  ASSUME commits \in Seq(CommitRecords), NEW past \in SUBSET Commits, NEW tree,
         tree \in [Areas -> 1..Len(commits) + 1], NewCommit(past, tree)
  PROVE  /\ KeepsCommits /\ Commits' = Commits \cup {Len(commits) + 1}
         /\ Len(commits) + 1 \notin Commits /\ Len(commits) + 1 # None
         /\ commits'[Len(commits) + 1] =
              [past |-> past \cup {Len(commits) + 1}, tree |-> tree]
<1> DEFINE N == Len(commits) + 1
           new == [past |-> past \cup {N}, tree |-> tree]
<1>1. Len(commits) \in Nat
  BY LenProperties
<1>2. commits' = Append(commits, new)
  BY DEF NewCommit
<1> DEFINE All == Commits \cup {N}
           Records == [past : SUBSET All, tree : [Areas -> All]]
<1>3. All = 1..N /\ N \notin Commits /\ N # None
  BY <1>1 DEF Commits, None
<1>4. new \in Records
  BY <1>3
<1>5. CommitRecords \subseteq Records
  BY DEF CommitRecords
<1>6. commits \in Seq(Records)
  BY <1>5, SeqMonotonic
<1> HIDE DEF Records, new, All, N
<1>7. /\ commits' \in Seq(Records) /\ Len(commits') = Len(commits) + 1
      /\ \A c \in 1..Len(commits) : commits'[c] = commits[c]
      /\ commits'[Len(commits) + 1] = new
  BY <1>2, <1>4, <1>6, AppendProperties
<1>8. Commits' = All
  BY <1>3, <1>7 DEF Commits, N
<1>9. CommitRecords' = Records
  BY <1>8 DEF CommitRecords, Records
<1>10. KeepsCommits
  BY <1>7, <1>8, <1>9 DEF KeepsCommits, Commits, All
<1>11. QED
  BY <1>3, <1>7, <1>8, <1>10 DEF N, new, All

LEMMA WorldTypes ==
  ASSUME TypeOK, KeepsCommits, UNCHANGED <<repo, alias, plugin>>,
         remote' \in [RemoteRefs -> Commits' \cup {None}],
         tracking' \in [TrackingNames -> Commits' \cup {None}],
         default' \in Branches, defaults' \subseteq Branches, deleted' \subseteq RemoteRefs,
         place' \in Places, tips' \in [Places -> Commits'], switches' \in Nat
  PROVE  TypeOK'
<1>1. Branches' = Branches /\ Remotes' = Remotes /\ RefsOf(repo)' = RefsOf(repo)
  BY DEF Branches, Remotes, RefsOf, Registered
<1>2. Commits \subseteq Commits'
  BY DEF KeepsCommits
<1>3. RepoRecords' = RepoRecords
  BY <1>1 DEF RepoRecords
<1>4. Catchups \subseteq Catchups'
  BY <1>2 DEF Catchups
<1>5. Rounds \subseteq Rounds'
  BY <1>1, <1>2 DEF Rounds
<1>6. /\ record' \in [Remotes' -> RepoRecords'] /\ cache' \in [LocalBranches -> Catchups']
      /\ asking' \in [{Daemon} \cup Screens ->
                        SUBSET [remote : Remotes', record : RepoRecords' \cup {NotLoaded}]]
      /\ round' \in Rounds'
  BY <1>1, <1>3, <1>4, <1>5 DEF TypeOK, plugin
<1>7. /\ round'.pc # "idle" => round'.head \in Commits'
      /\ round'.pc \in {"compute", "caught"} => round'.tip \in Commits'
  BY <1>2 DEF TypeOK, plugin
<1>8. QED
  BY <1>1, <1>6, <1>7 DEF TypeOK, KeepsCommits

-------------------------------------------------------------------------------
(* What the world does: commits are kept, pasts stay closed and straight, and  *)
(* no branch of a remote loses what it holds.                                  *)

LEMMA PastIsStraight ==
  ASSUME Types, History, NEW c \in Commits
  PROVE  /\ Past(c) \in SUBSET Commits /\ c \in Past(c) /\ Straight(Past(c))
         /\ \A d \in Past(c) : Past(d) \subseteq Past(c)
<1>1. Past(c) \in SUBSET Commits
  BY CommitTypes DEF Types, TypeOK
<1>2. ASSUME NEW b \in Commits
      PROVE  \E base \in Past(c) \cap Past(b) : Past(c) \cap Past(b) \subseteq Past(base)
  BY DEF History, MergeBases
<1>3. QED
  BY <1>1, <1>2 DEF History, Straight

LEMMA HistoryStep ==
  ASSUME Types, History, NEW past \in SUBSET Commits, NEW tree,
         tree \in [Areas -> 1..Len(commits) + 1], NewCommit(past, tree),
         \A d \in past : Past(d) \subseteq past, Straight(past)
  PROVE  History'
<1>0. PICK N : N = Len(commits) + 1
  OBVIOUS
<1>1. /\ KeepsCommits /\ Commits' = Commits \cup {N} /\ N \notin Commits
      /\ commits'[N] = [past |-> past \cup {N}, tree |-> tree]
  BY <1>0, NewCommitStep DEF Types, TypeOK
<1>2. /\ \A c \in Commits : Past(c)' = Past(c) /\ Past(c) \subseteq Commits
      /\ Past(N)' = past \cup {N}
  <2>1. \A c \in Commits : Past(c)' = Past(c)
    BY <1>1 DEF KeepsCommits, Past
  <2>2. Past(N)' = past \cup {N}
    BY <1>1 DEF Past
  <2>3. QED
    BY <2>1, <2>2, CommitTypes DEF Types, TypeOK
<1>3. ASSUME NEW c \in Commits'
      PROVE  c \in Past(c)' /\ \A d \in Past(c)' : Past(d)' \subseteq Past(c)'
  <2>1. CASE c \in Commits
    BY <1>2, <2>1 DEF History
  <2>2. CASE c = N
    BY <1>2, <2>2
  <2>3. QED
    BY <1>1, <2>1, <2>2
<1>4. ASSUME NEW a \in Commits', NEW b \in Commits'
      PROVE  \E base \in Past(a)' \cap Past(b)' : Past(a)' \cap Past(b)' \subseteq Past(base)'
  <2>1. CASE a \in Commits /\ b \in Commits
    <3>1. PICK base \in Past(a) \cap Past(b) : Past(a) \cap Past(b) \subseteq Past(base)
      BY <2>1 DEF History, MergeBases
    <3>2. QED
      BY <1>2, <2>1, <3>1
  <2>2. ASSUME NEW c \in Commits
        PROVE  /\ Past(N)' \cap Past(c)' = past \cap Past(c)
               /\ \E base \in past \cap Past(c) : past \cap Past(c) \subseteq Past(base)'
    <3>1. Past(N)' \cap Past(c)' = past \cap Past(c)
      BY <1>1, <1>2
    <3>2. PICK base \in past \cap Past(c) : past \cap Past(c) \subseteq Past(base)
      BY DEF Straight
    <3>3. QED
      BY <1>2, <3>1, <3>2
  <2>3. CASE a = N /\ b \in Commits
    BY <2>2, <2>3
  <2>4. CASE a \in Commits /\ b = N
    <3>1. Past(a)' \cap Past(b)' = Past(N)' \cap Past(a)'
      BY <2>4
    <3>2. QED
      BY <2>2, <2>4, <3>1
  <2>5. CASE a = N /\ b = N
    BY <1>2, <2>5
  <2>6. QED
    BY <1>1, <2>1, <2>3, <2>4, <2>5
<1>5. QED
  BY <1>3, <1>4 DEF History, MergeBases

LEMMA NoNewCommit ==
  ASSUME Types, History, UNCHANGED commits
  PROVE  KeepsCommits /\ History' /\ Commits' = Commits
<1>1. Commits' = Commits
  BY DEF Commits
<1>2. CommitRecords' = CommitRecords
  BY <1>1 DEF CommitRecords
<1>3. KeepsCommits
  BY <1>1, <1>2 DEF KeepsCommits, Types, TypeOK
<1>4. \A c : Past(c)' = Past(c)
  BY DEF Past
<1>5. History'
  BY <1>1, <1>4 DEF History, MergeBases
<1>6. QED
  BY <1>1, <1>3, <1>5

BranchesGrow ==
    \A r \in Branches : remote[r] # None =>
      remote'[r] \in Commits' /\ remote[r] \in commits'[remote'[r]].past

LEMMA NothingIsTaken ==
  ASSUME Types, History, KeepsCommits, UNCHANGED remote
  PROVE  BranchesGrow
<1>1. \A r \in Branches : remote[r] \in Commits \cup {None}
  BY DEF Types, TypeOK, Branches, BranchesOf, RefsOf
<1>2. QED
  BY <1>1 DEF BranchesGrow, KeepsCommits, History, Past

(* A branch takes a commit that has in its past what the branch had before.    *)
LEMMA SetRemoteStep ==
  ASSUME Types, History, KeepsCommits, NEW r \in Branches, NEW c \in Commits',
         SetRemote(r, c), remote[r] # None => remote[r] \in commits'[c].past
  PROVE  /\ remote' \in [RemoteRefs -> Commits' \cup {None}] /\ deleted' \subseteq RemoteRefs
         /\ default' = default /\ defaults' = defaults /\ remote'[r] = c /\ c # None
         /\ remote'[default] # None /\ BranchesGrow
<1>1. r \in RemoteRefs /\ \A q \in Branches : q \in RemoteRefs /\ IsBranch(q.ref)
  BY DEF Types, TypeOK, Branches, BranchesOf, RefsOf
<1>2. \A q \in Branches : q \in With(r) <=> q = r
  BY <1>1 DEF With
<1>3. /\ remote' = [q \in RemoteRefs |-> IF q \in With(r) THEN c ELSE remote[q]]
      /\ deleted' = deleted \ With(r) /\ default' = default /\ defaults' = defaults
  BY DEF SetRemote
<1>4. \A q \in Branches : remote'[q] = IF q = r THEN c ELSE remote[q]
  BY <1>1, <1>2, <1>3
<1>5. None \notin Commits'
  BY DEF Commits, None
<1>6. \A q \in RemoteRefs : remote[q] \in Commits' \cup {None}
  BY DEF Types, TypeOK, KeepsCommits
<1>7. remote' \in [RemoteRefs -> Commits' \cup {None}]
  BY <1>3, <1>6
<1>8. ASSUME NEW q \in Branches, remote[q] # None
      PROVE  remote'[q] \in Commits' /\ remote[q] \in commits'[remote'[q]].past
  <2>1. CASE q = r
    BY <1>4, <1>8, <2>1
  <2>2. CASE q # r
    <3>1. remote[q] \in Commits /\ remote'[q] = remote[q]
      BY <1>1, <1>4, <1>8, <2>2 DEF Types, TypeOK
    <3>2. QED
      BY <3>1 DEF KeepsCommits, History, Past
  <2>3. QED
    BY <2>1, <2>2
<1>9. QED
  BY <1>1, <1>3, <1>4, <1>5, <1>7, <1>8 DEF BranchesGrow, Types, TypeOK

WorldSummary ==
    /\ Types' /\ History' /\ KeepsCommits /\ BranchesGrow
    /\ defaults \subseteq defaults' /\ UNCHANGED <<repo, alias, plugin>>

LEMMA TreeTypes ==
  ASSUME commits \in Seq(CommitRecords), NEW a \in Commits, NEW b \in Commits
  PROVE  /\ \A x \in Areas : Changing(a, x) \in [Areas -> 1..Len(commits) + 1]
         /\ MergedTree(a, b) \in [Areas -> Commits]
         /\ MergedTree(a, b) \in [Areas -> 1..Len(commits) + 1]
<1>1. Len(commits) \in Nat /\ commits[a].tree \in [Areas -> Commits]
  BY CommitTypes DEF CommitRecords
<1>2. Commits \subseteq 1..Len(commits) + 1 /\ Len(commits) + 1 \in 1..Len(commits) + 1
  BY <1>1 DEF Commits
<1>3. \A x \in Areas : Changing(a, x) \in [Areas -> 1..Len(commits) + 1]
  BY <1>1, <1>2 DEF Changing
<1>4. MergedTree(a, b) \in [Areas -> Commits]
  BY CommitTypes DEF MergedTree
<1>5. QED
  BY <1>2, <1>3, <1>4

LEMMA RemoteTypes ==
  ASSUME Types
  PROVE  /\ commits \in Seq(CommitRecords)
         /\ \A r \in Branches : r \in RemoteRefs /\ remote[r] \in Commits \cup {None}
         /\ \A r \in Branches : Exists(r) => remote[r] \in Commits
         /\ default \in Branches /\ remote[default] \in Commits
         /\ place \in Places /\ \A b \in Places : tips[b] \in Commits
BY DEF Types, TypeOK, Branches, BranchesOf, RefsOf, Exists

LEMMA WorkStep ==
  ASSUME Types, History, NEW x \in Areas, Work(x)
  PROVE  WorldSummary
<1>1. tips[place] \in Commits /\ commits \in Seq(CommitRecords) /\ place \in Places
  BY RemoteTypes
<1>2. /\ Past(tips[place]) \in SUBSET Commits /\ Straight(Past(tips[place]))
      /\ \A d \in Past(tips[place]) : Past(d) \subseteq Past(tips[place])
  BY <1>1, PastIsStraight
<1>3. Changing(tips[place], x) \in [Areas -> 1..Len(commits) + 1]
  BY <1>1, TreeTypes
<1>4. NewCommit(Past(tips[place]), Changing(tips[place], x))
  BY DEF Work
<1>5. KeepsCommits /\ Commits' = Commits \cup {Len(commits) + 1}
  BY <1>1, <1>2, <1>3, <1>4, NewCommitStep
<1>6. History'
  BY <1>2, <1>3, <1>4, HistoryStep
<1>7. /\ UNCHANGED <<repo, remote, deleted, default, defaults, tracking, alias, place, switches, plugin>>
      /\ tips' = [tips EXCEPT ![place] = Len(commits) + 1]
  BY DEF Work, server
<1>8. Types'
  <2>1. tips' \in [Places -> Commits']
    BY <1>5, <1>7 DEF Types, TypeOK
  <2>2. /\ remote' \in [RemoteRefs -> Commits' \cup {None}]
        /\ tracking' \in [TrackingNames -> Commits' \cup {None}]
        /\ default' \in Branches /\ defaults' \subseteq Branches /\ deleted' \subseteq RemoteRefs
        /\ place' \in Places /\ switches' \in Nat
    BY <1>5, <1>7 DEF Types, TypeOK
  <2>3. QED
    BY <1>5, <1>7, <2>1, <2>2, WorldTypes DEF Types
<1>9. QED
  BY <1>5, <1>6, <1>7, <1>8, NothingIsTaken DEF WorldSummary

LEMMA SwitchStep ==
  ASSUME Types, History, NEW b \in Places, Switch(b)
  PROVE  WorldSummary
<1>1. /\ UNCHANGED <<repo, commits, remote, deleted, default, defaults, tracking, alias, plugin>>
      /\ place' = b /\ switches' = switches + 1
      /\ tips' = IF b = Detached THEN [tips EXCEPT ![b] = tips[place]] ELSE tips
  BY DEF Switch, server
<1>2. KeepsCommits /\ History' /\ Commits' = Commits
  BY <1>1, NoNewCommit
<1>3. tips' \in [Places -> Commits']
  BY <1>1, <1>2 DEF Types, TypeOK
<1>4. /\ remote' \in [RemoteRefs -> Commits' \cup {None}]
      /\ tracking' \in [TrackingNames -> Commits' \cup {None}]
      /\ default' \in Branches /\ defaults' \subseteq Branches /\ deleted' \subseteq RemoteRefs
      /\ place' \in Places /\ switches' \in Nat
  BY <1>1, <1>2 DEF Types, TypeOK
<1>5. Types'
  BY <1>1, <1>2, <1>3, <1>4, WorldTypes DEF Types
<1>6. QED
  BY <1>1, <1>2, <1>5, NothingIsTaken DEF WorldSummary

LEMMA PushStep ==
  ASSUME Types, History, NEW r \in Branches, Push(r)
  PROVE  WorldSummary
<1>1. tips[place] \in Commits
  BY RemoteTypes
<1>2. /\ UNCHANGED <<repo, commits, alias, place, tips, switches, plugin>>
      /\ SetRemote(r, tips[place])
      /\ tracking' = [n \in TrackingNames |-> IF n \in Copies(r) THEN tips[place] ELSE tracking[n]]
      /\ remote[r] # None => remote[r] \in Past(tips[place])
  BY DEF Push, checkout
<1>3. KeepsCommits /\ History' /\ Commits' = Commits
  BY <1>2, NoNewCommit
<1>4. remote[r] # None => remote[r] \in commits'[tips[place]].past
  BY <1>2 DEF Past
<1>5. /\ remote' \in [RemoteRefs -> Commits' \cup {None}] /\ deleted' \subseteq RemoteRefs
      /\ default' = default /\ defaults' = defaults /\ remote'[default] # None /\ BranchesGrow
  BY <1>1, <1>2, <1>3, <1>4, SetRemoteStep
<1>6. /\ tracking' \in [TrackingNames -> Commits' \cup {None}]
      /\ default' \in Branches /\ defaults' \subseteq Branches
      /\ place' \in Places /\ tips' \in [Places -> Commits'] /\ switches' \in Nat
  BY <1>1, <1>2, <1>3, <1>5 DEF Types, TypeOK
<1>7. Types'
  BY <1>2, <1>3, <1>5, <1>6, WorldTypes DEF Types
<1>8. QED
  BY <1>2, <1>3, <1>5, <1>7 DEF WorldSummary

(* A branch of a remote takes a new commit.                                    *)
LEMMA TakesNewCommit ==
  ASSUME Types, History, NEW r \in Branches, NEW past \in SUBSET Commits, NEW tree,
         tree \in [Areas -> 1..Len(commits) + 1], NewCommit(past, tree),
         \A d \in past : Past(d) \subseteq past, Straight(past),
         remote[r] # None => remote[r] \in past,
         SetRemote(r, Len(commits) + 1), UNCHANGED <<repo, tracking, alias, checkout, plugin>>
  PROVE  WorldSummary
<1>0. PICK N : N = Len(commits) + 1
  OBVIOUS
<1>1. /\ KeepsCommits /\ Commits' = Commits \cup {N}
      /\ commits'[N] = [past |-> past \cup {N}, tree |-> tree]
  BY <1>0, NewCommitStep, RemoteTypes
<1>2. History'
  BY HistoryStep
<1>3. remote[r] # None => remote[r] \in commits'[N].past
  BY <1>1
<1>4. /\ remote' \in [RemoteRefs -> Commits' \cup {None}] /\ deleted' \subseteq RemoteRefs
      /\ default' = default /\ defaults' = defaults /\ remote'[default] # None /\ BranchesGrow
  BY <1>0, <1>1, <1>3, SetRemoteStep
<1>5. /\ tracking' \in [TrackingNames -> Commits' \cup {None}]
      /\ default' \in Branches /\ defaults' \subseteq Branches
      /\ place' \in Places /\ tips' \in [Places -> Commits'] /\ switches' \in Nat
  BY <1>1, <1>4 DEF Types, TypeOK, checkout
<1>6. Types'
  BY <1>1, <1>4, <1>5, WorldTypes DEF Types
<1>7. QED
  BY <1>1, <1>2, <1>4, <1>6 DEF WorldSummary

LEMMA ColleagueStep ==
  ASSUME Types, History, NEW r \in Branches, NEW x \in Areas, Colleague(r, x)
  PROVE  WorldSummary
<1>1. remote[r] \in Commits /\ commits \in Seq(CommitRecords)
  BY RemoteTypes DEF Colleague
<1>2. /\ Past(remote[r]) \in SUBSET Commits /\ Straight(Past(remote[r])) /\ remote[r] \in Past(remote[r])
      /\ \A d \in Past(remote[r]) : Past(d) \subseteq Past(remote[r])
  BY <1>1, PastIsStraight
<1>3. Changing(remote[r], x) \in [Areas -> 1..Len(commits) + 1]
  BY <1>1, TreeTypes
<1>4. QED
  BY <1>2, <1>3, TakesNewCommit DEF Colleague

LEMMA LandStep ==
  ASSUME Types, History, NEW from \in Branches, Land(from)
  PROVE  WorldSummary
<1> DEFINE d == remote[default]
           f == remote[from]
<1>1. d \in Commits /\ f \in Commits /\ commits \in Seq(CommitRecords) /\ default \in Branches
  BY RemoteTypes DEF Land
<1>2. PICK past \in {Past(d), Past(d) \cup Past(f)} : Straight(past) /\ NewCommit(past, MergedTree(d, f))
  BY DEF Land
<1>3. /\ SetRemote(default, Len(commits) + 1) /\ UNCHANGED <<repo, tracking, alias, checkout, plugin>>
  BY DEF Land
<1> HIDE DEF d, f
<1>4. /\ Past(d) \in SUBSET Commits /\ d \in Past(d) /\ \A c \in Past(d) : Past(c) \subseteq Past(d)
      /\ Past(f) \in SUBSET Commits /\ \A c \in Past(f) : Past(c) \subseteq Past(f)
  BY <1>1, PastIsStraight
<1>5. past \in SUBSET Commits /\ d \in past /\ \A c \in past : Past(c) \subseteq past
  BY <1>2, <1>4
<1>6. MergedTree(d, f) \in [Areas -> 1..Len(commits) + 1]
  BY <1>1, TreeTypes
<1>7. QED
  BY <1>1, <1>2, <1>3, <1>5, <1>6, TakesNewCommit DEF d

LEMMA NewBranchStep ==
  ASSUME Types, History, NEW r \in Branches, NewBranch(r)
  PROVE  WorldSummary
<1>1. remote[default] \in Commits
  BY RemoteTypes
<1>2. /\ UNCHANGED <<repo, commits, tracking, alias, place, tips, switches, plugin>>
      /\ SetRemote(r, remote[default]) /\ remote[r] = None
  BY DEF NewBranch, checkout
<1>3. KeepsCommits /\ History' /\ Commits' = Commits
  BY <1>2, NoNewCommit
<1>4. /\ remote' \in [RemoteRefs -> Commits' \cup {None}] /\ deleted' \subseteq RemoteRefs
      /\ default' = default /\ defaults' = defaults /\ remote'[default] # None /\ BranchesGrow
  BY <1>1, <1>2, <1>3, SetRemoteStep
<1>5. /\ tracking' \in [TrackingNames -> Commits' \cup {None}]
      /\ default' \in Branches /\ defaults' \subseteq Branches
      /\ place' \in Places /\ tips' \in [Places -> Commits'] /\ switches' \in Nat
  BY <1>2, <1>3, <1>4 DEF Types, TypeOK
<1>6. Types'
  BY <1>2, <1>3, <1>4, <1>5, WorldTypes DEF Types
<1>7. QED
  BY <1>2, <1>3, <1>4, <1>6 DEF WorldSummary

(* What changes neither a commit nor a branch of a remote.                     *)
LEMMA QuietStep ==
  ASSUME Types, History, UNCHANGED <<repo, commits, remote, alias, checkout, plugin>>,
         tracking' \in [TrackingNames -> Commits \cup {None}], deleted' \subseteq RemoteRefs,
         default' \in Branches, remote[default'] # None,
         defaults \subseteq defaults', defaults' \subseteq Branches
  PROVE  WorldSummary
<1>1. KeepsCommits /\ History' /\ Commits' = Commits
  BY NoNewCommit
<1>2. /\ remote' \in [RemoteRefs -> Commits' \cup {None}]
      /\ tracking' \in [TrackingNames -> Commits' \cup {None}]
      /\ place' \in Places /\ tips' \in [Places -> Commits'] /\ switches' \in Nat
  BY <1>1 DEF Types, TypeOK, checkout
<1>3. Types'
  BY <1>1, <1>2, WorldTypes DEF Types
<1>4. QED
  BY <1>1, <1>3, NothingIsTaken DEF WorldSummary

LEMMA FetchTypes ==
  ASSUME Types, NEW r, NEW pruning
  PROVE  Fetched(r, pruning) \in [TrackingNames -> Commits \cup {None}]
<1> SUFFICES ASSUME NEW n \in TrackingNames
             PROVE  Fetched(r, pruning)[n] \in Commits \cup {None}
  BY DEF Fetched
<1> DEFINE from == {q \in RemoteRefs : q.remote = r /\ <<repo, q, n>> \in Writes}
           there == {q \in from : Exists(q)}
<1>1. Fetched(r, pruning)[n] = IF there # {} THEN remote[CHOOSE q \in there : TRUE]
                               ELSE IF pruning /\ from # {} THEN None ELSE tracking[n]
  BY DEF Fetched
<1>2. there \subseteq RemoteRefs
  OBVIOUS
<1> HIDE DEF there, from
<1>3. there # {} => (CHOOSE q \in there : TRUE) \in there
  OBVIOUS
<1>4. QED
  BY <1>1, <1>2, <1>3 DEF Types, TypeOK

LEMMA WorldStep ==
  ASSUME Types, History, World
  PROVE  WorldSummary
<1>1. ASSUME NEW r \in Branches, DeleteBranch(r)
      PROVE  WorldSummary
  BY <1>1, QuietStep DEF DeleteBranch, Types, TypeOK, Branches, BranchesOf, RefsOf
<1>2. ASSUME NEW r \in Branches, MoveDefault(r)
      PROVE  WorldSummary
  BY <1>2, QuietStep DEF MoveDefault, Types, TypeOK, Exists
<1>3. ASSUME NEW r \in Remotes, NEW pruning \in BOOLEAN, FetchAll(r, pruning)
      PROVE  WorldSummary
  <2>1. tracking' \in [TrackingNames -> Commits \cup {None}]
    BY <1>3, FetchTypes DEF FetchAll
  <2>2. QED
    BY <1>3, <2>1, QuietStep DEF FetchAll, server, Types, TypeOK
<1>4. QED
  BY <1>1, <1>2, <1>3, WorkStep, SwitchStep, PushStep, ColleagueStep, LandStep, NewBranchStep
     DEF World

-------------------------------------------------------------------------------
(* What the plugin does.                                                       *)

RoundTyped(rd) ==
    /\ rd \in Rounds /\ (rd.pc # "idle" => rd.head \in Commits)
    /\ (rd.pc \in {"compute", "caught"} => rd.tip \in Commits)

Askings == [{Daemon} \cup Screens ->
              SUBSET [remote : Remotes, record : RepoRecords \cup {NotLoaded}]]

(* Nothing of the world but tracking refs.                                     *)
Stays == UNCHANGED <<repo, commits, server, alias, checkout>>

LEMMA PluginTypes ==
  ASSUME Types, History, Stays,
         tracking' \in [TrackingNames -> Commits \cup {None}],
         record' \in [Remotes -> RepoRecords], cache' \in [LocalBranches -> Catchups],
         asking' \in Askings, RoundTyped(round')
  PROVE  Types' /\ History' /\ Commits' = Commits
<1>1. KeepsCommits /\ History' /\ Commits' = Commits
  BY NoNewCommit DEF Stays
<1>2. Branches' = Branches /\ Remotes' = Remotes /\ RefsOf(repo)' = RefsOf(repo)
  BY DEF Branches, Remotes, RefsOf, Registered, Stays
<1>3. RepoRecords' = RepoRecords /\ Catchups' = Catchups /\ Rounds' = Rounds
  BY <1>1, <1>2 DEF RepoRecords, Catchups, Rounds
<1>4. /\ repo' \in Repos /\ commits' \in Seq(CommitRecords')
      /\ remote' \in [RemoteRefs -> Commits' \cup {None}]
      /\ default' \in Branches' /\ defaults' \subseteq Branches' /\ deleted' \subseteq RemoteRefs
      /\ alias' \in [Remotes' -> SUBSET TrackingNames]
      /\ place' \in Places /\ tips' \in [Places -> Commits'] /\ switches' \in Nat
      /\ remote'[default'] # None
  BY <1>1, <1>2 DEF Stays, server, checkout, KeepsCommits, Types, TypeOK
<1>5. /\ asking' \in [{Daemon} \cup Screens ->
                        SUBSET [remote : Remotes', record : RepoRecords' \cup {NotLoaded}]]
      /\ record' \in [Remotes' -> RepoRecords'] /\ cache' \in [LocalBranches -> Catchups']
      /\ tracking' \in [TrackingNames -> Commits' \cup {None}]
  BY <1>1, <1>2, <1>3 DEF Askings
<1>6. /\ round' \in Rounds'
      /\ round'.pc # "idle" => round'.head \in Commits'
      /\ round'.pc \in {"compute", "caught"} => round'.tip \in Commits'
  BY <1>1, <1>3 DEF RoundTyped
<1>7. TypeOK'
  BY <1>4, <1>5, <1>6 DEF TypeOK
<1>8. QED
  BY <1>1, <1>4, <1>7 DEF Types

LEMMA TypesNow ==
  ASSUME Types
  PROVE  /\ tracking \in [TrackingNames -> Commits \cup {None}]
         /\ record \in [Remotes -> RepoRecords] /\ cache \in [LocalBranches -> Catchups]
         /\ asking \in Askings /\ RoundTyped(round)
         /\ alias \in [Remotes -> SUBSET TrackingNames] /\ repo \in Repos
BY DEF Types, TypeOK, Askings, RoundTyped

(* A step that changes only what a process is asking, or a record.             *)
LEMMA RecordsStep ==
  ASSUME Types, History, UNCHANGED <<sources, round>>,
         record' \in [Remotes -> RepoRecords], cache' \in [LocalBranches -> Catchups],
         asking' \in Askings
  PROVE  Types' /\ History' /\ Stays /\ Commits' = Commits
<1>1. Stays /\ tracking' = tracking
  BY DEF Stays, sources
<1>2. QED
  BY <1>1, TypesNow, PluginTypes

LEMMA LoadTypes ==
  ASSUME Types, History, NEW p \in {Daemon} \cup Screens, Load(p)
  PROVE  Types' /\ History' /\ Stays /\ Commits' = Commits
<1>1. PICK q \in asking[p] :
        /\ q.record = NotLoaded
        /\ asking' = [asking EXCEPT ![p] = {[q EXCEPT !.record = record[q.remote]]}]
  BY DEF Load
<1>2. q \in [remote : Remotes, record : RepoRecords \cup {NotLoaded}]
  BY TypesNow DEF Askings
<1>3. record[q.remote] \in RepoRecords
  BY <1>2, TypesNow
<1>4. [q EXCEPT !.record = record[q.remote]] \in
        [remote : Remotes, record : RepoRecords \cup {NotLoaded}]
  BY <1>2, <1>3
<1>5. asking' \in Askings
  BY <1>1, <1>4, TypesNow DEF Askings
<1>6. QED
  BY <1>5, RecordsStep, TypesNow DEF Load

LEMMA SaveTypes ==
  ASSUME Types, History, NEW p \in {Daemon} \cup Screens, Save(p)
  PROVE  Types' /\ History' /\ Stays /\ Commits' = Commits
<1>1. asking' \in Askings
  BY TypesNow DEF Save, Askings
<1>2. PICK q \in asking[p] :
        /\ q.record # NotLoaded
        /\ \/ /\ q.remote = default.remote
              /\ record' = [record EXCEPT ![q.remote] =
                              [default |-> {default}, asked |-> "today"]]
           \/ record' = [record EXCEPT ![q.remote] = [q.record EXCEPT !.asked = "today"]]
           \/ UNCHANGED record
  BY DEF Save
<1>3. q.remote \in Remotes /\ q.record \in RepoRecords
  BY <1>2, TypesNow DEF Askings
<1>4. [default |-> {default}, asked |-> "today"] \in RepoRecords
  BY RemoteTypes DEF RepoRecords
<1>5. [q.record EXCEPT !.asked = "today"] \in RepoRecords
  BY <1>3 DEF RepoRecords
<1>6. record' \in [Remotes -> RepoRecords]
  BY <1>2, <1>3, <1>4, <1>5, TypesNow
<1>7. QED
  BY <1>1, <1>6, RecordsStep, TypesNow DEF Save

LEMMA OthersTypes ==
  ASSUME Types, History, Others
  PROVE  Types' /\ History' /\ Stays /\ Commits' = Commits
<1>1. ASSUME NEW r \in Remotes, DayPasses(r)
      PROVE  Types' /\ History' /\ Stays /\ Commits' = Commits
  <2>1. record' \in [Remotes -> RepoRecords]
    BY <1>1, TypesNow DEF DayPasses, RepoRecords
  <2>2. QED
    BY <1>1, <2>1, RecordsStep, TypesNow DEF DayPasses
<1>2. ASSUME NEW b \in LocalBranches, HourPasses(b)
      PROVE  Types' /\ History' /\ Stays /\ Commits' = Commits
  <2>1. cache' \in [LocalBranches -> Catchups]
    BY <1>2, TypesNow DEF HourPasses, Catchups
  <2>2. QED
    BY <1>2, <2>1, RecordsStep, TypesNow DEF HourPasses
<1>3. ASSUME NEW b \in LocalBranches, OthersCatchup(b)
      PROVE  Types' /\ History' /\ Stays /\ Commits' = Commits
  <2>1. cache' \in [LocalBranches -> Catchups]
    <3>1. PICK up \in Upstream(b), head \in Past(tips[b]),
               answer \in {"clean", "conflict", "unknown"} :
            /\ Tracked(up) # None
            /\ cache' = [cache EXCEPT ![b] = Answered(head, Tracked(up), answer)]
      BY <1>3 DEF OthersCatchup, Truth
    <3>2. tips[b] \in Commits
      BY RemoteTypes DEF Places
    <3>3. head \in Commits
      BY <3>1, <3>2, PastIsStraight
    <3>4. Tracked(up) \in Commits
      <4>1. up \in RefsOf(repo)
        BY <3>1, TypesNow, ConfigAssumption DEF Upstream, RefsOf, Registered
      <4>2. QED
        BY <3>1, <4>1, TypesNow, TrackingIsOwn DEF Tracked
    <3>5. Answered(head, Tracked(up), answer) \in Catchups
      BY <3>3, <3>4 DEF Answered, Catchups, Answers
    <3>6. QED
      BY <3>1, <3>5, TypesNow
  <2>2. QED
    BY <1>3, <2>1, RecordsStep, TypesNow DEF OthersCatchup
<1>4. ASSUME NEW p \in Screens, NEW r \in Remotes, FindsDue(p, r)
      PROVE  Types' /\ History' /\ Stays /\ Commits' = Commits
  <2>1. asking' \in Askings
    BY <1>4, TypesNow DEF FindsDue, Askings
  <2>2. QED
    BY <1>4, <2>1, RecordsStep, TypesNow DEF FindsDue
<1>5. QED
  BY <1>1, <1>2, <1>3, <1>4, LoadTypes, SaveTypes DEF Others

Lists == [tracking : TrackingNames, from : SUBSET RefsOf(repo)]

LEMMA ListTypes ==
  ASSUME Types
  PROVE  /\ \A q \in RefsOf(repo) : Known(q) \in Lists
         /\ \A r \in Remotes : Default(r) \subseteq Lists
         /\ MergeTargets \subseteq Lists
<1>1. \A q \in RefsOf(repo) : Known(q) \in Lists
  BY TypesNow, TrackingIsOwn DEF Known, Lists
<1>2. ASSUME NEW r \in Remotes
      PROVE  Default(r) \subseteq Lists
  <2>1. alias[r] \subseteq TrackingNames
    BY TypesNow
  <2>2. LocalDefault(r) \subseteq Lists
    <3> SUFFICES ASSUME NEW up \in LocalDefault(r) PROVE up \in Lists
      OBVIOUS
    <3> DEFINE From(n) == {q \in RefsOf(repo) : q.remote = r /\ <<repo, q, n>> \in ComesFrom}
    <3>1. \A n : From(n) \in SUBSET RefsOf(repo)
      OBVIOUS
    <3> HIDE DEF From
    <3>2. \E n \in alias[r] : up = [tracking |-> n, from |-> From(n)]
      BY DEF LocalDefault, From
    <3>3. QED
      BY <2>1, <3>1, <3>2 DEF Lists
  <2>3. record[r].default \subseteq RefsOf(repo)
    BY TypesNow DEF RepoRecords, Branches, BranchesOf
  <2>4. Recorded(r) \subseteq Lists
    BY <1>1, <2>3 DEF Recorded
  <2>5. QED
    BY <2>2, <2>4 DEF Default
<1>3. MergeTargets \subseteq Lists
  BY <1>1 DEF MergeTargets
<1>4. QED
  BY <1>1, <1>2, <1>3

LEMMA RoundTypes ==
  ASSUME Types, History, Reads, RoundTyped(round')
  PROVE  Types' /\ History' /\ Stays /\ Commits' = Commits
<1>1. Stays /\ tracking' = tracking /\ record' = record /\ cache' = cache /\ asking' = asking
  BY DEF Reads, Stays, sources
<1>2. QED
  BY <1>1, TypesNow, PluginTypes

LEMMA IdleTyped == RoundTyped(Idle)
BY DEF RoundTyped, Idle, Rounds, Pcs, Places, None

LEMMA ReadHeadTypes ==
  ASSUME Types, History, ReadHead
  PROVE  RoundTyped(round')
<1>1. tips[place] \in Commits /\ place \in Places
  BY RemoteTypes
<1>2. QED
  BY <1>1, IdleTyped DEF ReadHead, RoundTyped, Rounds, Pcs, Idle

LEMMA ReadBranchTypes ==
  ASSUME Types, History, ReadBranch
  PROVE  RoundTyped(round')
<1> DEFINE Then(branch, up, r) ==
             round' = [round EXCEPT !.pc = "integration", !.branch = branch, !.upstream = up,
                         !.remote = r, !.whole = branch = place /\ up = Upstream(branch)]
<1>1. PICK branch \in Read(place, Detached) : \E up \in Read(Upstream(branch), {}) :
        \E r \in Read(RemoteFor(up, Remotes), {u.remote : u \in up}) : Then(branch, up, r)
  BY DEF ReadBranch
<1>2. PICK up \in Read(Upstream(branch), {}) :
        \E r \in Read(RemoteFor(up, Remotes), {u.remote : u \in up}) : Then(branch, up, r)
  BY <1>1
<1>3. PICK r \in Read(RemoteFor(up, Remotes), {u.remote : u \in up}) : Then(branch, up, r)
  BY <1>2
<1>4. branch \in Places
  BY RemoteTypes DEF Read, Places
<1>5. up \subseteq RefsOf(repo)
  <2>1. Upstream(branch) \subseteq RefsOf(repo)
    BY <1>4, TypesNow, ConfigAssumption DEF Upstream, Places, RefsOf, Registered
  <2>2. QED
    BY <2>1 DEF Read
<1>6. r \subseteq Remotes
  <2>1. {u.remote : u \in up} \subseteq Remotes
    BY <1>5 DEF RefsOf, Remotes
  <2>2. RemoteFor(up, Remotes) \subseteq Remotes
    BY <2>1 DEF RemoteFor
  <2>3. QED
    BY <2>1, <2>2 DEF Read
<1>7. round \in Rounds /\ round.pc = "branch" /\ round.head \in Commits
  BY TypesNow DEF RoundTyped, ReadBranch
<1> DEFINE whole == branch = place /\ up = Upstream(branch)
<1>8. round' = [round EXCEPT !.pc = "integration", !.branch = branch, !.upstream = up,
                  !.remote = r, !.whole = whole]
      /\ whole \in BOOLEAN
  BY <1>3
<1> HIDE DEF whole
<1>9. round' \in Rounds
  BY <1>4, <1>5, <1>6, <1>7, <1>8 DEF Rounds, Pcs
<1>10. round'.head = round.head /\ round'.pc = "integration"
  BY <1>7, <1>8 DEF Rounds
<1>11. QED
  BY <1>7, <1>9, <1>10 DEF RoundTyped

LEMMA FilledIsRound ==
  ASSUME NEW rd \in Rounds, NEW pc \in Pcs, NEW known \in BOOLEAN,
         NEW list \in SUBSET [tracking : TrackingNames, from : SUBSET RefsOf(repo)],
         NEW whole \in BOOLEAN
  PROVE  [rd EXCEPT !.pc = pc, !.known = known, !.list = list, !.whole = whole]
           \in Rounds
BY DEF Rounds

LEMMA FillTypes ==
  ASSUME Types, History, NEW pc \in {"fetch", "counts"}, round.pc # "idle", FillIntegration(pc)
  PROVE  RoundTyped(round')
<1>1. PICK targets \in Read(MergeTargets, {}), r \in round.remote :
        round' = [round EXCEPT !.pc = pc, !.known = Default(r) # {},
                    !.list = Default(r) \cup targets,
                    !.whole = @ /\ targets = MergeTargets]
  BY DEF FillIntegration
<1> DEFINE known == Default(r) # {}
           list == Default(r) \cup targets
           whole == round.whole /\ targets = MergeTargets
<1>2. round \in Rounds /\ round.head \in Commits
  BY TypesNow DEF RoundTyped
<1>3. list \subseteq Lists
  <2>1. r \in Remotes
    BY <1>2 DEF Rounds
  <2>2. targets \subseteq Lists
    BY ListTypes DEF Read
  <2>3. QED
    BY <2>1, <2>2, ListTypes
<1>4. known \in BOOLEAN /\ whole \in BOOLEAN
  OBVIOUS
<1>5. round' = [round EXCEPT !.pc = pc, !.known = known, !.list = list, !.whole = whole]
  BY <1>1, <1>2 DEF Rounds
<1> HIDE DEF known, list, whole
<1>6. pc \in Pcs /\ pc \notin {"compute", "caught"}
  BY DEF Pcs
<1>7. round' \in Rounds
  <2>1. list \in SUBSET [tracking : TrackingNames, from : SUBSET RefsOf(repo)]
    BY <1>3 DEF Lists
  <2>2. QED
    BY <1>2, <1>4, <1>5, <1>6, <2>1, FilledIsRound
<1>8. round'.head = round.head /\ round'.pc = pc
  BY <1>2, <1>5 DEF Rounds
<1>9. QED
  BY <1>2, <1>6, <1>7, <1>8 DEF RoundTyped

LEMMA GoesTypes ==
  ASSUME Types, NEW pc \in Pcs \ {"compute", "caught"}, round.pc # "idle", Goes(pc)
  PROVE  RoundTyped(round')
<1>1. round \in Rounds /\ round.head \in Commits
  BY TypesNow DEF RoundTyped
<1>2. QED
  BY <1>1 DEF Goes, RoundTyped, Rounds, Pcs

LEMMA ResolveToFetchTypes ==
  ASSUME Types, History, ResolveToFetch
  PROVE  Types' /\ History' /\ Stays /\ Commits' = Commits
<1>1. RoundTyped(round')
  <2>1. round.pc # "idle" /\ (Goes("fetch") \/ FillIntegration("fetch"))
    BY DEF ResolveToFetch
  <2>2. "fetch" \in Pcs \ {"compute", "caught"}
    BY DEF Pcs
  <2>3. QED
    BY <2>1, <2>2, FillTypes, GoesTypes
<1>2. asking' \in Askings
  <2>1. CASE UNCHANGED asking
    BY <2>1, TypesNow
  <2>2. CASE asking' = [asking EXCEPT ![Daemon] =
                          {[remote |-> r, record |-> NotLoaded] :
                             r \in {q \in round.remote : LookupDue(q)}}]
    <3>1. round.remote \subseteq Remotes
      BY TypesNow DEF RoundTyped, Rounds
    <3>2. QED
      BY <2>2, <3>1, TypesNow DEF Askings
  <2>3. QED
    BY <2>1, <2>2 DEF ResolveToFetch
<1>3. Stays /\ tracking' = tracking /\ record' = record /\ cache' = cache
  BY DEF ResolveToFetch, Stays, sources
<1>4. QED
  BY <1>1, <1>2, <1>3, TypesNow, PluginTypes

LEMMA FetchOneTypes ==
  ASSUME Types, History, NEW up \in Jobs, FetchOne(up)
  PROVE  Types' /\ History' /\ Stays /\ Commits' = Commits
<1>1. PICK from \in up.from :
        /\ Exists(from)
        /\ tracking' = [n \in TrackingNames |->
                          IF n \in {up.tracking} \cup Copies(from) THEN remote[from] ELSE tracking[n]]
  BY DEF FetchOne
<1>2. up \in Lists
  BY TypesNow, ListTypes DEF Jobs, RoundTyped, Rounds, Lists
<1>3. from \in RefsOf(repo)
  BY <1>2 DEF Lists
<1>4. remote[from] \in Commits
  BY <1>1, <1>3 DEF Exists, Types, TypeOK, RefsOf
<1>5. tracking' \in [TrackingNames -> Commits \cup {None}]
  BY <1>1, <1>4, TypesNow
<1>6. Stays /\ record' = record /\ cache' = cache /\ asking' = asking /\ round' = round
  BY DEF FetchOne, Stays, plugin
<1>7. QED
  BY <1>5, <1>6, TypesNow, PluginTypes

LEMMA TrackedTypes ==
  ASSUME Types
  PROVE  \A up \in round.upstream : Tracking(up) \in TrackingNames
                                    /\ Tracked(up) \in Commits \cup {None}
<1>1. round.upstream \subseteq RefsOf(repo)
  BY TypesNow DEF RoundTyped, Rounds
<1>2. QED
  BY <1>1, TypesNow, TrackingIsOwn DEF Tracked

LEMMA LookUpCatchupTypes ==
  ASSUME Types, History, LookUpCatchup
  PROVE  RoundTyped(round')
<1>1. PICK up \in round.upstream : \E cached \in Read(cache[round.branch], NoAnswer) :
         LET tip == Tracked(up)
         IN round' =
              IF tip = None THEN [round EXCEPT !.pc = "merged"]
              ELSE IF Hit(cached, tip)
              THEN [round EXCEPT !.pc = "caught", !.tip = tip, !.answer = cached.answer]
              ELSE IF Config[repo].mergeTree THEN [round EXCEPT !.pc = "compute", !.tip = tip]
              ELSE [round EXCEPT !.pc = "caught", !.tip = tip, !.answer = "unknown"]
  BY DEF LookUpCatchup
<1>2. PICK cached \in Read(cache[round.branch], NoAnswer) :
         LET tip == Tracked(up)
         IN round' =
              IF tip = None THEN [round EXCEPT !.pc = "merged"]
              ELSE IF Hit(cached, tip)
              THEN [round EXCEPT !.pc = "caught", !.tip = tip, !.answer = cached.answer]
              ELSE IF Config[repo].mergeTree THEN [round EXCEPT !.pc = "compute", !.tip = tip]
              ELSE [round EXCEPT !.pc = "caught", !.tip = tip, !.answer = "unknown"]
  BY <1>1
<1> DEFINE tip == Tracked(up)
<1>3. tip \in Commits \cup {None}
  BY TrackedTypes
<1>4. round \in Rounds /\ round.head \in Commits
  BY TypesNow DEF RoundTyped, LookUpCatchup
<1>5. Hit(cached, tip) => cached.answer \in {"clean", "conflict", "unknown"}
  BY DEF Hit, Reusable
<1> HIDE DEF tip
<1>6. CASE tip = None
  <2>1. round' = [round EXCEPT !.pc = "merged"]
    BY <1>2, <1>6 DEF tip
  <2>2. QED
    BY <1>4, <2>1 DEF RoundTyped, Rounds, Pcs
<1>7. CASE tip # None /\ Hit(cached, tip)
  <2>1. round' = [round EXCEPT !.pc = "caught", !.tip = tip, !.answer = cached.answer]
    BY <1>2, <1>7 DEF tip
  <2>2. QED
    BY <1>3, <1>4, <1>5, <1>7, <2>1 DEF RoundTyped, Rounds, Pcs
<1>8. CASE tip # None /\ ~Hit(cached, tip)
  <2>1. \/ round' = [round EXCEPT !.pc = "compute", !.tip = tip]
        \/ round' = [round EXCEPT !.pc = "caught", !.tip = tip, !.answer = "unknown"]
    BY <1>2, <1>8 DEF tip
  <2>2. round' \in Rounds
    <3>1. CASE round' = [round EXCEPT !.pc = "compute", !.tip = tip]
      BY <1>3, <1>4, <3>1 DEF Rounds, Pcs
    <3>2. CASE round' = [round EXCEPT !.pc = "caught", !.tip = tip, !.answer = "unknown"]
      BY <1>3, <1>4, <3>2 DEF Rounds, Pcs
    <3>3. QED
      BY <2>1, <3>1, <3>2
  <2>3. round'.head = round.head /\ round'.tip = tip
    BY <1>4, <2>1 DEF Rounds
  <2>4. QED
    BY <1>3, <1>4, <1>8, <2>2, <2>3 DEF RoundTyped
<1>9. QED
  BY <1>6, <1>7, <1>8

LEMMA ComputeCatchupTypes ==
  ASSUME Types, History, ComputeCatchup
  PROVE  Types' /\ History' /\ Stays /\ Commits' = Commits
<1>1. PICK answer \in {Truth(round.tip, round.head), "unknown"} :
        /\ round' = [round EXCEPT !.pc = "caught", !.answer = answer]
        /\ cache' \in {cache, [cache EXCEPT ![round.branch] =
                                 Answered(round.head, round.tip, answer)]}
  BY DEF ComputeCatchup
<1>2. round \in Rounds /\ round.head \in Commits /\ round.tip \in Commits
  BY TypesNow DEF RoundTyped, ComputeCatchup
<1>3. answer \in {"clean", "conflict", "unknown"}
  BY DEF Truth
<1>4. RoundTyped(round')
  BY <1>1, <1>2, <1>3 DEF RoundTyped, Rounds, Pcs
<1>5. Answered(round.head, round.tip, answer) \in Catchups
  BY <1>2, <1>3 DEF Answered, Catchups, Answers
<1>6. cache' \in [LocalBranches -> Catchups]
  BY <1>1, <1>5, TypesNow
<1>7. Stays /\ tracking' = tracking /\ record' = record /\ asking' = asking
  BY DEF ComputeCatchup, Stays, sources
<1>8. QED
  BY <1>4, <1>6, <1>7, TypesNow, PluginTypes

LEMMA VerdictTypes ==
  ASSUME Types, round.pc # "idle", NEW yes \in BOOLEAN
  PROVE  RoundTyped(Verdict(yes))
<1>1. round \in Rounds /\ round.head \in Commits
  BY TypesNow DEF RoundTyped
<1>2. Verdict(yes) \in Rounds
  BY <1>1 DEF Verdict, Rounds, Pcs
<1>3. Verdict(yes).pc = "judged" /\ Verdict(yes).head = round.head
  BY <1>1 DEF Verdict, Rounds
<1>4. QED
  BY <1>1, <1>2, <1>3 DEF RoundTyped

(* What the ancestry check comes to.                                           *)
Judgement(own, targets, others, listed) ==
    IF ~listed \/ ~Judged(own, targets) THEN Verdict(FALSE)
    ELSE IF others # {} THEN Verdict(TRUE)
    ELSE IF ~Config[repo].mergeTree THEN Verdict(FALSE)
    ELSE [round EXCEPT !.pc = "targets", !.left = targets]

AncestryOf(remotes, read, listed) ==
    Judgement(OwnCopies(round.branch, round.upstream, remotes), Listed,
      Containing(round.head, read)
        \ (OwnCopies(round.branch, round.upstream, remotes) \cup TrackedCopies(round.upstream)),
      listed)

LEMMA AncestryParts ==
  ASSUME CheckAncestry
  PROVE  \E remotes \in Read(Remotes, {}) : \E read, listed \in Read(TRUE, FALSE) :
           LET next == AncestryOf(remotes, read, listed)
           IN round' = [next EXCEPT !.whole = next.whole /\ remotes = Remotes /\ read]
BY DEF CheckAncestry, AncestryOf, Judgement, Listed

LEMMA CheckAncestryTypes ==
  ASSUME Types, History, CheckAncestry
  PROVE  RoundTyped(round')
<1>1. PICK remotes \in Read(Remotes, {}), read, listed \in Read(TRUE, FALSE) :
        LET next == AncestryOf(remotes, read, listed)
        IN round' = [next EXCEPT !.whole = next.whole /\ remotes = Remotes /\ read]
  BY AncestryParts
<1> DEFINE next == AncestryOf(remotes, read, listed)
           whole == next.whole /\ remotes = Remotes /\ read
<1>2. round \in Rounds /\ round.head \in Commits /\ round.pc = "merged"
  BY TypesNow DEF RoundTyped, CheckAncestry
<1>3. Listed \in SUBSET TrackingNames
  BY <1>2 DEF Rounds, Listed
<1>4. RoundTyped([round EXCEPT !.pc = "targets", !.left = Listed])
  <2> HIDE DEF Listed
  <2>1. QED
    BY <1>2, <1>3 DEF RoundTyped, Rounds, Pcs
<1>5. RoundTyped(next)
  BY <1>2, <1>4, VerdictTypes DEF AncestryOf, Judgement
<1>6. round' = [next EXCEPT !.whole = whole] /\ whole \in BOOLEAN
  BY <1>1
<1> HIDE DEF next, whole
<1>7. QED
  BY <1>5, <1>6 DEF RoundTyped, Rounds

LEMMA MergeTargetTypes ==
  ASSUME Types, History, NEW n \in TrackingNames, MergeTarget(n)
  PROVE  RoundTyped(round')
<1>1. round \in Rounds /\ round.head \in Commits /\ round.pc = "targets"
  BY TypesNow DEF RoundTyped, MergeTarget
<1> DEFINE left == round.left \ {n}
           tree == MergedTree(tracking[n], round.head)
<1>2. left \subseteq TrackingNames
  BY <1>1 DEF Rounds
<1>3. \/ round' = [round EXCEPT !.left = left]
      \/ /\ tracking[n] # None
         /\ round' = [round EXCEPT !.pc = "tree", !.left = left, !.target = n, !.tree = tree]
  BY DEF MergeTarget
<1>4. tracking[n] # None => tree \in [Areas -> Commits]
  BY <1>1, TypesNow, RemoteTypes, TreeTypes
<1> HIDE DEF left, tree
<1>5. CASE round' = [round EXCEPT !.left = left]
  BY <1>1, <1>2, <1>5 DEF RoundTyped, Rounds
<1>6. CASE /\ tracking[n] # None
           /\ round' = [round EXCEPT !.pc = "tree", !.left = left, !.target = n, !.tree = tree]
  BY <1>1, <1>2, <1>4, <1>6 DEF RoundTyped, Rounds, Pcs
<1>7. QED
  BY <1>3, <1>5, <1>6

LEMMA CompareTreesTypes ==
  ASSUME Types, History, CompareTrees
  PROVE  RoundTyped(round')
<1>1. round \in Rounds /\ round.head \in Commits /\ round.pc = "tree"
  BY TypesNow DEF RoundTyped, CompareTrees
<1>2. RoundTyped([round EXCEPT !.pc = "targets", !.target = <<>>, !.tree = <<>>])
  BY <1>1 DEF RoundTyped, Rounds, Pcs
<1>3. QED
  BY <1>1, <1>2, VerdictTypes DEF CompareTrees

LEMMA PluginStep ==
  ASSUME Types, History, Others \/ Round \/ Restart
  PROVE  Types' /\ History' /\ Stays /\ Commits' = Commits
<1> DEFINE Goal == Types' /\ History' /\ Stays /\ Commits' = Commits
<1>1. CASE ReadHead
  BY <1>1, ReadHeadTypes, RoundTypes DEF ReadHead
<1>2. CASE ReadBranch
  BY <1>2, ReadBranchTypes, RoundTypes DEF ReadBranch
<1>3. CASE ResolveToReport
  <2>1. RoundTyped(round')
    <3>1. round.pc # "idle" /\ (Goes("counts") \/ FillIntegration("counts"))
      BY <1>3 DEF ResolveToReport
    <3>2. "counts" \in Pcs \ {"compute", "caught"}
      BY DEF Pcs
    <3>3. QED
      BY <3>1, <3>2, FillTypes, GoesTypes
  <2>2. QED
    BY <1>3, <2>1, RoundTypes DEF ResolveToReport
<1>4. CASE Count
  <2>1. RoundTyped(round')
    <3>1. round.pc # "idle" /\ (Goes("merged") \/ Goes("catchup"))
      BY <1>4 DEF Count
    <3>2. "merged" \in Pcs \ {"compute", "caught"} /\ "catchup" \in Pcs \ {"compute", "caught"}
      BY DEF Pcs
    <3>3. QED
      BY <3>1, <3>2, GoesTypes
  <2>2. QED
    BY <1>4, <2>1, RoundTypes DEF Count
<1>5. CASE LookUpCatchup
  BY <1>5, LookUpCatchupTypes, RoundTypes DEF LookUpCatchup
<1>6. CASE ReportCatchup
  <2>1. round \in Rounds /\ round.head \in Commits
    BY <1>6, TypesNow DEF RoundTyped, ReportCatchup
  <2>2. RoundTyped(round')
    BY <1>6, <2>1 DEF ReportCatchup, RoundTyped, Rounds, Pcs
  <2>3. QED
    BY <1>6, <2>2, RoundTypes DEF ReportCatchup
<1>7. CASE CheckAncestry
  BY <1>7, CheckAncestryTypes, RoundTypes DEF CheckAncestry
<1>8. CASE CompareTrees
  BY <1>8, CompareTreesTypes, RoundTypes DEF CompareTrees
<1>9. CASE NoneLeft
  BY <1>9, VerdictTypes, RoundTypes DEF NoneLeft
<1>10. CASE EndFetch \/ EndRound
  BY <1>10, IdleTyped, RoundTypes DEF EndFetch, EndRound
<1>11. ASSUME NEW n \in TrackingNames, MergeTarget(n)
       PROVE  Goal
  BY <1>11, MergeTargetTypes, RoundTypes DEF MergeTarget
<1>12. CASE Restart
  <2>1. asking' \in Askings
    BY <1>12, TypesNow DEF Restart, Askings
  <2>2. Stays /\ tracking' = tracking /\ record' = record /\ cache' = cache /\ round' = Idle
    BY <1>12 DEF Restart, Stays, sources
  <2>3. QED
    BY <2>1, <2>2, IdleTyped, TypesNow, PluginTypes
<1>13. QED
  BY <1>1, <1>2, <1>3, <1>4, <1>5, <1>6, <1>7, <1>8, <1>9, <1>10, <1>11, <1>12,
     OthersTypes, ResolveToFetchTypes, LoadTypes, SaveTypes, FetchOneTypes, ComputeCatchupTypes
     DEF Round

LEMMA FirstState == Init => Types /\ History
<1> SUFFICES ASSUME Init PROVE Types /\ History
  OBVIOUS
<1> DEFINE first == [past |-> {1}, tree |-> [x \in Areas |-> 1]]
<1>1. commits = <<first>> /\ Len(commits) = 1 /\ commits[1] = first
  BY DEF Init
<1>2. Commits = {1} /\ None \notin Commits /\ 1 \in Commits
  BY <1>1 DEF Commits, None
<1>3. commits \in Seq(CommitRecords)
  <2>1. first \in CommitRecords
    BY <1>2 DEF CommitRecords
  <2> HIDE DEF first
  <2>2. QED
    BY <1>1, <2>1
<1>4. History
  BY <1>1, <1>2 DEF History, Past, MergeBases
<1>5. default \in Branches /\ default \in RefsOf(repo) /\ default \in RemoteRefs /\ repo \in Repos
  BY DEF Init, Branches, BranchesOf, RefsOf
<1>6. /\ remote \in [RemoteRefs -> Commits \cup {None}] /\ remote[default] = 1
      /\ tracking \in [TrackingNames -> Commits \cup {None}]
      /\ defaults \subseteq Branches /\ deleted \subseteq RemoteRefs
  BY <1>2, <1>5 DEF Init
<1>7. alias \in [Remotes -> SUBSET TrackingNames]
  BY <1>5, TrackingIsOwn DEF Init
<1>8. place \in Places /\ tips \in [Places -> Commits] /\ switches \in Nat
  BY <1>2 DEF Init, Places
<1>9. record \in [Remotes -> RepoRecords]
  BY DEF Init, RepoRecords, Unasked
<1>10. cache \in [LocalBranches -> Catchups]
  <2>1. NoAnswer \in Catchups
    BY DEF NoAnswer, Catchups, Answers
  <2>2. QED
    BY <2>1 DEF Init
<1>11. asking \in [{Daemon} \cup Screens ->
                     SUBSET [remote : Remotes, record : RepoRecords \cup {NotLoaded}]]
  BY DEF Init
<1>12. RoundTyped(round)
  BY IdleTyped DEF Init
<1>13. TypeOK
  BY <1>3, <1>5, <1>6, <1>7, <1>8, <1>9, <1>10, <1>11, <1>12 DEF TypeOK, RoundTyped
<1>14. QED
  BY <1>2, <1>4, <1>6, <1>13 DEF Types, None

LEMMA Stutters ==
  ASSUME Types, History, UNCHANGED vars
  PROVE  Types' /\ History' /\ Stays /\ Commits' = Commits
<1>1. Stays /\ tracking' = tracking /\ record' = record /\ cache' = cache
      /\ asking' = asking /\ round' = round
  BY DEF vars, sources, plugin, Stays
<1>2. QED
  BY <1>1, TypesNow, PluginTypes

LEMMA TypesStep == Types /\ History /\ [Next]_vars => Types' /\ History'
<1>1. ASSUME Types, History, World
      PROVE  Types' /\ History'
  BY <1>1, WorldStep DEF WorldSummary
<1>2. QED
  BY <1>1, PluginStep, Stutters DEF Next

LEMMA AlwaysTypes == Spec => [](Types /\ History)
BY FirstState, TypesStep, PTL DEF Spec

(* Every variable has its type in every state, for any repositories, refspecs  *)
(* and limits: no read, answer or record names a commit that there is not.     *)
THEOREM JudgementTypes == Spec => []TypeOK
<1>1. Types /\ History => TypeOK
  BY DEF Types
<1>2. QED
  BY <1>1, AlwaysTypes, PTL

-------------------------------------------------------------------------------
(* What every step keeps.                                                      *)

StepSummary ==
    /\ repo \in Repos /\ Types' /\ History' /\ KeepsCommits /\ BranchesGrow
    /\ defaults \subseteq defaults' /\ UNCHANGED <<repo, alias>>

LEMMA EveryStep ==
  ASSUME Types, History, [Next]_vars
  PROVE  StepSummary /\ (UNCHANGED plugin \/ (Stays /\ Commits' = Commits))
<1>1. repo \in Repos
  BY TypesNow
<1>2. CASE World
  <2>1. WorldSummary
    BY <1>2, WorldStep
  <2>2. UNCHANGED plugin /\ UNCHANGED <<repo, alias>>
    BY <2>1 DEF WorldSummary
  <2>3. StepSummary
    BY <1>1, <2>1, <2>2 DEF WorldSummary, StepSummary
  <2>4. QED
    BY <2>2, <2>3
<1>3. CASE Others \/ Round \/ Restart \/ UNCHANGED vars
  <2>1. Types' /\ History' /\ Stays /\ Commits' = Commits
    BY <1>3, PluginStep, Stutters
  <2>2. KeepsCommits /\ BranchesGrow
    BY <2>1, NoNewCommit, NothingIsTaken DEF Stays, server
  <2>3. QED
    BY <1>1, <2>1, <2>2 DEF StepSummary, Stays, server
<1>4. QED
  BY <1>2, <1>3 DEF Next

(* What is said of commits that are there stays true.                          *)
LEMMA OldCommits ==
  ASSUME Types, History, KeepsCommits, NEW a \in Commits, NEW b \in Commits
  PROVE  /\ Past(a)' = Past(a) /\ a \in Commits'
         /\ \A x : Version(a, x)' = Version(a, x)
         /\ Conflicts(a, b)' <=> Conflicts(a, b)
         /\ Truth(a, b)' = Truth(a, b) /\ MergedTree(a, b)' = MergedTree(a, b)
<1>1. /\ \A c \in Commits : Past(c)' = Past(c) /\ c \in Commits'
      /\ \A c \in Commits : \A x : Version(c, x)' = Version(c, x)
  BY DEF KeepsCommits, Past, Version
<1>2. \A c \in Commits : Past(c) \subseteq Commits
  BY CommitTypes DEF Types, TypeOK
<1>3. MergeBases(a, b)' = MergeBases(a, b)
  BY <1>1, <1>2 DEF MergeBases
<1>4. MergeBases(a, b) \subseteq Commits
  BY <1>2 DEF MergeBases
<1>5. Conflicts(a, b)' <=> Conflicts(a, b)
  BY <1>1, <1>3, <1>4 DEF Conflicts
<1>6. MergedTree(a, b)' = MergedTree(a, b)
  <2> DEFINE base == CHOOSE c \in MergeBases(a, b) : TRUE
  <2>1. MergeBases(a, b) # {}
    BY DEF History
  <2>2. base \in Commits
    BY <1>4, <2>1
  <2>3. base' = base
    BY <1>3
  <2>4. QED
    BY <1>1, <2>2, <2>3 DEF MergedTree
<1>7. QED
  BY <1>1, <1>5, <1>6 DEF Truth

(* A step that changes the round, and what it is then.                         *)
LEMMA RoundIsRecord ==
  ASSUME Types
  PROVE  round \in Rounds
BY TypesNow DEF RoundTyped

(* A round is read anew, or goes on with what it has read.                     *)
SameReads ==
    /\ round'.head = round.head /\ round'.at = round.at /\ round'.branch = round.branch
    /\ round'.upstream = round.upstream

Anew == round'.upstream = {} /\ round'.pc \in {"idle", "branch"} /\ ~round'.merged
        /\ ~round'.known /\ round'.list = {}

LEMMA FillSummary ==
  ASSUME round \in Rounds, NEW pc, FillIntegration(pc)
  PROVE  /\ SameReads /\ round'.pc = pc /\ round'.merged = round.merged
         /\ round'.left = round.left /\ round'.target = round.target /\ round'.tree = round.tree
         /\ \E targets \in Read(MergeTargets, {}), r \in round.remote :
              /\ round'.known <=> Default(r) # {}
              /\ round'.list = Default(r) \cup targets
              /\ round'.whole <=> round.whole /\ targets = MergeTargets
<1>1. PICK targets \in Read(MergeTargets, {}), r \in round.remote :
        round' = [round EXCEPT !.pc = pc, !.known = Default(r) # {},
                    !.list = Default(r) \cup targets,
                    !.whole = @ /\ targets = MergeTargets]
  BY DEF FillIntegration
<1> DEFINE known == Default(r) # {}
           list == Default(r) \cup targets
           whole == round.whole /\ targets = MergeTargets
<1>2. round' = [round EXCEPT !.pc = pc, !.known = known, !.list = list, !.whole = whole]
  BY <1>1 DEF Rounds
<1> HIDE DEF known, list, whole
<1>3. /\ SameReads /\ round'.pc = pc /\ round'.merged = round.merged
      /\ round'.left = round.left /\ round'.target = round.target /\ round'.tree = round.tree
      /\ round'.known = known /\ round'.list = list /\ round'.whole = whole
  BY <1>2 DEF SameReads, Rounds
<1>4. QED
  BY <1>3 DEF known, list, whole

LEMMA RoundSummary ==
  ASSUME Types, Others \/ Round \/ Restart
  PROVE  ReadBranch \/ Anew \/ SameReads
<1>1. round \in Rounds
  BY RoundIsRecord
<1>2. CASE ReadHead \/ EndFetch \/ EndRound \/ Restart
  <2>1. round' = Idle \/ round' = [Idle EXCEPT !.pc = "branch", !.head = tips[place], !.at = place]
    BY <1>2 DEF ReadHead, EndFetch, EndRound, Restart
  <2>2. /\ round'.upstream = {} /\ round'.pc \in {"idle", "branch"} /\ round'.list = {}
        /\ round'.merged = FALSE /\ round'.known = FALSE
    <3>1. CASE round' = Idle
      BY <3>1 DEF Idle
    <3>2. CASE round' = [Idle EXCEPT !.pc = "branch", !.head = tips[place], !.at = place]
      BY <3>2 DEF Idle
    <3>3. QED
      BY <2>1, <3>1, <3>2
  <2>3. QED
    BY <2>2 DEF Anew
<1>3. CASE Others \/ Load(Daemon) \/ Save(Daemon) \/ \E up \in Jobs : FetchOne(up)
  <2>1. round' = round
    BY <1>3 DEF Others, DayPasses, HourPasses, OthersCatchup, FindsDue, Load, Save, FetchOne, plugin
  <2>2. QED
    BY <2>1 DEF SameReads
<1>4. CASE ResolveToFetch \/ ResolveToReport
  <2>1. ASSUME NEW pc, Goes(pc)
        PROVE  SameReads
    BY <1>1, <2>1 DEF Goes, SameReads, Rounds
  <2>2. QED
    BY <1>1, <1>4, <2>1, FillSummary DEF ResolveToFetch, ResolveToReport
<1>5. CASE Count \/ ReportCatchup
  BY <1>1, <1>5 DEF Count, ReportCatchup, Goes, SameReads, Rounds
<1>6. CASE LookUpCatchup \/ ComputeCatchup
  <2>1. CASE LookUpCatchup
    BY <1>1, <2>1 DEF LookUpCatchup, SameReads, Rounds
  <2>2. CASE ComputeCatchup
    BY <1>1, <2>2 DEF ComputeCatchup, SameReads, Rounds
  <2>3. QED
    BY <1>6, <2>1, <2>2
<1>7. CASE CheckAncestry
  <2>1. PICK remotes \in Read(Remotes, {}), read, listed \in Read(TRUE, FALSE) :
        LET next == AncestryOf(remotes, read, listed)
        IN round' = [next EXCEPT !.whole = next.whole /\ remotes = Remotes /\ read]
    BY <1>7, AncestryParts
  <2>2. QED
    BY <1>1, <2>1 DEF AncestryOf, Judgement, Verdict, SameReads, Rounds
<1>8. CASE CompareTrees \/ NoneLeft \/ \E n \in TrackingNames : MergeTarget(n)
  <2>1. ASSUME NEW yes, round' = Verdict(yes)
        PROVE  SameReads
    BY <1>1, <2>1 DEF Verdict, SameReads, Rounds
  <2>2. CASE CompareTrees
    <3>1. CASE round' = [round EXCEPT !.pc = "targets", !.target = <<>>, !.tree = <<>>]
      BY <1>1, <3>1 DEF SameReads, Rounds
    <3>2. QED
      BY <2>1, <2>2, <3>1 DEF CompareTrees
  <2>3. CASE NoneLeft
    BY <2>1, <2>3 DEF NoneLeft
  <2>4. ASSUME NEW n \in TrackingNames, MergeTarget(n)
        PROVE  SameReads
    BY <1>1, <2>4 DEF MergeTarget, SameReads, Rounds
  <2>5. QED
    BY <1>8, <2>2, <2>3, <2>4
<1>9. QED
  BY <1>2, <1>3, <1>4, <1>5, <1>6, <1>7, <1>8 DEF Round

-------------------------------------------------------------------------------
(* The records of catchup.                                                     *)

CatchupInv ==
    CacheTruth /\ CatchupTruth /\ (round.upstream # {} => round.branch # Detached)

LEMMA CatchupKept ==
  ASSUME Types, History, CatchupInv, KeepsCommits, UNCHANGED plugin
  PROVE  CatchupInv'
<1>1. cache' = cache /\ round' = round
  BY DEF plugin
<1>2. \A c, d \in Commits : c \in Commits' /\ Truth(c, d)' = Truth(c, d)
  BY OldCommits
<1>3. CacheTruth'
  BY <1>1, <1>2 DEF CatchupInv, CacheTruth
<1>4. round.pc = "caught" => round.tip \in Commits /\ round.head \in Commits
  BY TypesNow DEF RoundTyped
<1>5. CatchupTruth'
  BY <1>1, <1>2, <1>4 DEF CatchupInv, CatchupTruth
<1>6. QED
  BY <1>1, <1>3, <1>5 DEF CatchupInv

LEMMA CacheTruthStep ==
  ASSUME Types, History, CatchupInv, KeepsCommits, Others \/ Round \/ Restart
  PROVE  CacheTruth'
<1> DEFINE True(rec) == rec.answer \in {"clean", "conflict"} =>
                          /\ rec.head \in Commits /\ rec.tip \in Commits
                          /\ rec.answer = Truth(rec.tip, rec.head)
<1>1. \A c, d \in Commits : c \in Commits' /\ Truth(c, d)' = Truth(c, d)
  BY OldCommits
<1>2. \A b \in LocalBranches : True(cache[b])
  BY DEF CatchupInv, CacheTruth
<1>3. (\A b \in LocalBranches : True(cache'[b])) => CacheTruth'
  BY <1>1 DEF CacheTruth
<1>4. ASSUME NEW b \in LocalBranches, HourPasses(b), NEW c \in LocalBranches
      PROVE  True(cache'[c])
  <2>1. /\ cache'[c].answer = cache[c].answer /\ cache'[c].head = cache[c].head
        /\ cache'[c].tip = cache[c].tip
    BY <1>4, TypesNow DEF HourPasses, Catchups
  <2>2. QED
    BY <1>2, <2>1
<1>5. ASSUME NEW head \in Commits, NEW tip \in Commits, NEW answer \in {Truth(tip, head), "unknown"}
      PROVE  True(Answered(head, tip, answer))
  BY <1>5 DEF Answered
<1>6. ASSUME NEW b \in LocalBranches, OthersCatchup(b), NEW c \in LocalBranches
      PROVE  True(cache'[c])
  <2>1. PICK up \in Upstream(b), head \in Past(tips[b]) :
          /\ Tracked(up) # None
          /\ \E answer \in {Truth(Tracked(up), head), "unknown"} :
               cache' = [cache EXCEPT ![b] = Answered(head, Tracked(up), answer)]
    BY <1>6 DEF OthersCatchup
  <2>2. tips[b] \in Commits
    BY RemoteTypes DEF Places
  <2>3. head \in Commits
    BY <2>1, <2>2, PastIsStraight
  <2>4. Tracked(up) \in Commits
    <3>1. up \in RefsOf(repo)
      BY <2>1, TypesNow, ConfigAssumption DEF Upstream, RefsOf, Registered
    <3>2. QED
      BY <2>1, <3>1, TypesNow, TrackingIsOwn DEF Tracked
  <2>5. PICK answer \in {Truth(Tracked(up), head), "unknown"} :
          cache' = [cache EXCEPT ![b] = Answered(head, Tracked(up), answer)]
    BY <2>1
  <2>6. True(Answered(head, Tracked(up), answer))
    BY <1>5, <2>3, <2>4
  <2> HIDE DEF True
  <2>7. QED
    BY <1>2, <2>5, <2>6, TypesNow
<1>7. ASSUME ComputeCatchup, NEW c \in LocalBranches
      PROVE  True(cache'[c])
  <2>1. PICK answer \in {Truth(round.tip, round.head), "unknown"} :
          cache' \in {cache, [cache EXCEPT ![round.branch] = Answered(round.head, round.tip, answer)]}
    BY <1>7 DEF ComputeCatchup
  <2>2. round.head \in Commits /\ round.tip \in Commits
    BY <1>7, TypesNow DEF RoundTyped, ComputeCatchup
  <2>3. True(Answered(round.head, round.tip, answer))
    BY <1>5, <2>2
  <2> HIDE DEF True
  <2>4. QED
    BY <1>2, <2>1, <2>3, TypesNow
<1> HIDE DEF True
<1>8. CASE UNCHANGED cache
  BY <1>2, <1>3, <1>8
<1>9. UNCHANGED cache \/ ComputeCatchup \/ \E b \in LocalBranches : HourPasses(b) \/ OthersCatchup(b)
  <2>1. CASE Others
    BY <2>1 DEF Others, DayPasses, FindsDue, Load, Save
  <2>2. CASE Round
    BY <2>2 DEF Round, ReadHead, ReadBranch, ResolveToFetch, ResolveToReport, Load, Save, FetchOne, EndFetch, Count,
                LookUpCatchup, ReportCatchup, CheckAncestry, CompareTrees, NoneLeft, EndRound,
                MergeTarget, Reads, plugin
  <2>3. CASE Restart
    BY <2>3 DEF Restart
  <2>4. QED
    BY <2>1, <2>2, <2>3
<1>10. QED
  BY <1>3, <1>4, <1>6, <1>7, <1>8, <1>9

(* What is caught up with is looked up, or was computed just now.              *)
LEMMA CaughtStep ==
  ASSUME Types, Others \/ Round \/ Restart, round'.pc = "caught"
  PROVE  round' = round \/ LookUpCatchup \/ ComputeCatchup
<1>1. round \in Rounds
  BY RoundIsRecord
<1>2. ~(ReadHead \/ EndFetch \/ EndRound \/ Restart)
  <2>1. round' # Idle
    BY DEF Idle
  <2>2. round' # [Idle EXCEPT !.pc = "branch", !.head = tips[place], !.at = place]
    BY DEF Idle
  <2>3. QED
    BY <2>1, <2>2 DEF ReadHead, EndFetch, EndRound, Restart
<1>3. CASE Others \/ Load(Daemon) \/ Save(Daemon) \/ \E up \in Jobs : FetchOne(up)
  BY <1>3 DEF Others, DayPasses, HourPasses, OthersCatchup, FindsDue, Load, Save, FetchOne, plugin
<1>4. ~ReadBranch
  BY <1>1 DEF ReadBranch, Rounds
<1>5. ~ResolveToFetch /\ ~ResolveToReport
  BY <1>1, FillSummary DEF ResolveToFetch, ResolveToReport, Goes, Rounds
<1>6. ~Count /\ ~ReportCatchup
  <2>1. ASSUME NEW pc, pc # "caught"
        PROVE  ~Goes(pc)
    BY <1>1, <2>1 DEF Goes, Rounds
  <2>2. ~Count
    BY <2>1 DEF Count
  <2>3. ~ReportCatchup
    <3>1. "pc" \in DOMAIN round
      BY <1>1 DEF Rounds
    <3>2. [round EXCEPT !.pc = "merged", !.tip = None, !.answer = "unknown"].pc = "merged"
      BY <3>1, Zenon
    <3>3. QED
      BY <3>2 DEF ReportCatchup
  <2>4. QED
    BY <2>2, <2>3
<1>7. ~CheckAncestry
  <2>0. "pc" \in DOMAIN round
    BY <1>1 DEF Rounds
  <2>1. SUFFICES ASSUME CheckAncestry PROVE FALSE
    OBVIOUS
  <2>2. PICK remotes \in Read(Remotes, {}), read, listed \in Read(TRUE, FALSE) :
        LET next == AncestryOf(remotes, read, listed)
        IN round' = [next EXCEPT !.whole = next.whole /\ remotes = Remotes /\ read]
    BY <2>1, AncestryParts
  <2>3. ASSUME NEW next, NEW whole, next.pc # "caught", DOMAIN next = DOMAIN round,
               round' = [next EXCEPT !.whole = whole]
        PROVE  FALSE
    BY <2>0, <2>3
  <2> DEFINE next == AncestryOf(remotes, read, listed)
  <2>4. \/ next = Verdict(FALSE) \/ next = Verdict(TRUE)
        \/ next = [round EXCEPT !.pc = "targets", !.left = Listed]
    BY DEF AncestryOf, Judgement
  <2>5. next.pc # "caught" /\ DOMAIN next = DOMAIN round
    <3>1. CASE next = Verdict(FALSE) \/ next = Verdict(TRUE)
      BY <1>1, <3>1 DEF Verdict, Rounds
    <3>2. CASE next = [round EXCEPT !.pc = "targets", !.left = Listed]
      BY <1>1, <3>2 DEF Rounds
    <3>3. QED
      BY <2>4, <3>1, <3>2
  <2>6. round' = [next EXCEPT !.whole = next.whole /\ remotes = Remotes /\ read]
    BY <2>2
  <2> HIDE DEF next
  <2>7. QED
    BY <2>3, <2>5, <2>6
<1>8. ~CompareTrees /\ ~NoneLeft /\ \A n \in TrackingNames : ~MergeTarget(n)
  BY <1>1 DEF CompareTrees, NoneLeft, MergeTarget, Verdict, Rounds
<1>9. QED
  BY <1>2, <1>3, <1>4, <1>5, <1>6, <1>7, <1>8 DEF Round

LEMMA CatchupTruthStep ==
  ASSUME Types, History, CatchupInv, KeepsCommits, Others \/ Round \/ Restart
  PROVE  CatchupTruth'
<1> SUFFICES ASSUME round'.pc = "caught", round'.answer # "unknown"
             PROVE  round'.tip \in Commits /\ round'.head \in Commits
                    /\ round'.answer = Truth(round'.tip, round'.head)
  <2>1. \A c, d \in Commits : Truth(c, d)' = Truth(c, d)
    BY OldCommits
  <2>2. QED
    BY <2>1 DEF CatchupTruth
<1>1. round \in Rounds
  BY RoundIsRecord
<1>2. CASE round' = round
  BY <1>2, TypesNow DEF RoundTyped, CatchupInv, CatchupTruth
<1>3. CASE ComputeCatchup
  <2>1. round.tip \in Commits /\ round.head \in Commits
    BY <1>3, TypesNow DEF RoundTyped, ComputeCatchup
  <2>2. QED
    BY <1>1, <1>3, <2>1 DEF ComputeCatchup, Rounds
<1>4. CASE LookUpCatchup
  <2>1. PICK up \in round.upstream : \E cached \in Read(cache[round.branch], NoAnswer) :
         LET tip == Tracked(up)
         IN round' =
              IF tip = None THEN [round EXCEPT !.pc = "merged"]
              ELSE IF Hit(cached, tip)
              THEN [round EXCEPT !.pc = "caught", !.tip = tip, !.answer = cached.answer]
              ELSE IF Config[repo].mergeTree THEN [round EXCEPT !.pc = "compute", !.tip = tip]
              ELSE [round EXCEPT !.pc = "caught", !.tip = tip, !.answer = "unknown"]
    BY <1>4 DEF LookUpCatchup
  <2>2. PICK cached \in Read(cache[round.branch], NoAnswer) :
          /\ Hit(cached, Tracked(up))
          /\ round' = [round EXCEPT !.pc = "caught", !.tip = Tracked(up), !.answer = cached.answer]
    BY <1>1, <2>1 DEF Rounds
  <2>3. cached.answer \in {"clean", "conflict"} /\ cached.head = round.head /\ cached.tip = Tracked(up)
    BY <1>1, <2>2 DEF Hit, Reusable, Rounds
  <2>4. cached = cache[round.branch]
    BY <2>2, <2>3 DEF Read, NoAnswer
  <2>5. round.branch \in LocalBranches
    BY <1>1, <2>1 DEF Rounds, Places, CatchupInv
  <2>6. /\ cached.head \in Commits /\ cached.tip \in Commits
        /\ cached.answer = Truth(cached.tip, cached.head)
    BY <2>3, <2>4, <2>5 DEF CatchupInv, CacheTruth
  <2>7. QED
    BY <1>1, <2>2, <2>3, <2>6 DEF Rounds
<1>5. QED
  BY <1>2, <1>3, <1>4, CaughtStep

LEMMA CatchupStep == Types /\ History /\ CatchupInv /\ [Next]_vars => CatchupInv'
<1> SUFFICES ASSUME Types, History, CatchupInv, [Next]_vars PROVE CatchupInv'
  OBVIOUS
<1>1. KeepsCommits
  BY EveryStep DEF StepSummary
<1>2. CASE UNCHANGED plugin
  BY <1>1, <1>2, CatchupKept
<1>3. CASE Others \/ Round \/ Restart
  <2>1. round'.upstream # {} => round'.branch # Detached
    <3>1. CASE ReadBranch
      <4>1. PICK branch \in Read(place, Detached) : \E up \in Read(Upstream(branch), {}) :
              \E r \in Read(RemoteFor(up, Remotes), {u.remote : u \in up}) :
                round' = [round EXCEPT !.pc = "integration", !.branch = branch, !.upstream = up,
                            !.remote = r, !.whole = branch = place /\ up = Upstream(branch)]
        BY <3>1 DEF ReadBranch
      <4>2. PICK up \in Read(Upstream(branch), {}) :
              round'.branch = branch /\ round'.upstream = up
        BY <4>1, RoundIsRecord DEF Rounds
      <4>3. branch = Detached => up = {}
        BY DEF Read, Upstream
      <4>4. QED
        BY <4>2, <4>3
    <3>2. CASE Anew \/ SameReads
      BY <3>2 DEF Anew, SameReads, CatchupInv
    <3>3. QED
      BY <1>3, <3>1, <3>2, RoundSummary
  <2>2. QED
    BY <1>1, <1>3, <2>1, CacheTruthStep, CatchupTruthStep DEF CatchupInv
<1>4. QED
  <2>1. World => UNCHANGED plugin
    BY WorldStep DEF WorldSummary
  <2>2. UNCHANGED vars => UNCHANGED plugin
    BY DEF vars
  <2>3. QED
    BY <1>2, <1>3, <2>1, <2>2 DEF Next

(* What the daemon reports as catchup is what merging the two commits would    *)
(* give, for any history that users, colleagues and pull requests make: a      *)
(* record is used only for the two commits it was made of, and what a screen   *)
(* writes over it is as true (judge.go:200, sync.go:453, collect.go:369).      *)
THEOREM CatchupIsTrue == Spec => []CatchupTruth
<1>1. Init => CatchupInv
  BY DEF Init, CatchupInv, CacheTruth, CatchupTruth, NoAnswer, Idle
<1>2. CatchupInv => CatchupTruth
  BY DEF CatchupInv
<1>3. QED
  BY <1>1, <1>2, AlwaysTypes, CatchupStep, PTL DEF Spec

-------------------------------------------------------------------------------
(* What a round judges.                                                        *)

(* The names are the repository's, and that stays the same.                    *)
LEMMA SameNames ==
  ASSUME UNCHANGED repo
  PROVE  /\ Branches' = Branches /\ RefsOf(repo)' = RefsOf(repo) /\ Remotes' = Remotes
         /\ MergeTargets' = MergeTargets /\ FromNoBranch' = FromNoBranch
         /\ \A r : Tracking(r)' = Tracking(r) /\ Copies(r)' = Copies(r)
         /\ \A b, R : OwnRefs(b, R)' = OwnRefs(b, R)
         /\ \A b : Elsewhere(b)' = Elsewhere(b)
<1>1. /\ Branches' = Branches /\ RefsOf(repo)' = RefsOf(repo) /\ Remotes' = Remotes
      /\ FromNoBranch' = FromNoBranch
  BY DEF Branches, RefsOf, Remotes, Registered, FromNoBranch
<1>2. \A r : Tracking(r)' = Tracking(r) /\ Copies(r)' = Copies(r) /\ Known(r)' = Known(r)
  BY DEF Tracking, Copies, Known
<1>3. MergeTargets' = MergeTargets
  BY <1>1, <1>2 DEF MergeTargets
<1>4. \A b, R : OwnRefs(b, R)' = OwnRefs(b, R)
  BY DEF OwnRefs
<1>5. \A b : Elsewhere(b)' = Elsewhere(b)
  BY <1>1 DEF Elsewhere
<1>6. QED
  BY <1>1, <1>2, <1>3, <1>4, <1>5

LEMMA ReadBranchSummary ==
  ASSUME Types, ReadBranch
  PROVE  /\ round.pc = "branch" /\ round'.pc = "integration"
         /\ round'.merged = round.merged /\ round'.known = round.known /\ round'.list = round.list
<1> DEFINE Then(branch, up, r) ==
             round' = [round EXCEPT !.pc = "integration", !.branch = branch, !.upstream = up,
                         !.remote = r, !.whole = branch = place /\ up = Upstream(branch)]
<1>1. \E branch \in Read(place, Detached) : \E up \in Read(Upstream(branch), {}) :
        \E r \in Read(RemoteFor(up, Remotes), {u.remote : u \in up}) : Then(branch, up, r)
  BY DEF ReadBranch
<1>2. PICK branch, up, r : Then(branch, up, r)
  <2> HIDE DEF Then
  <2>1. QED
    BY <1>1
<1>3. QED
  BY <1>2, RoundIsRecord DEF ReadBranch, Rounds

(* A round goes on with what it has read and listed.                           *)
Keeps ==
    /\ SameReads /\ round'.known = round.known /\ round'.list = round.list
    /\ round'.whole = round.whole

Comparing == {"targets", "tree"}
Earlier == {"fetch", "counts", "catchup", "compute", "caught", "merged"}

LEMMA JudgingSteps ==
  ASSUME Types, Others \/ Round \/ Restart
  PROVE  \/ round' = round
         \/ Anew
         \/ ReadBranch
         \/ \E pc \in {"fetch", "counts"} : FillIntegration(pc) /\ round.pc = "integration"
         \/ Keeps /\ round.pc # "judged" /\ round'.pc \in Earlier /\ round'.merged = round.merged
         \/ CheckAncestry
         \/ Keeps /\ (CompareTrees \/ NoneLeft \/ \E n \in TrackingNames : MergeTarget(n))
<1>1. round \in Rounds
  BY RoundIsRecord
<1>2. CASE ReadHead \/ EndFetch \/ EndRound \/ Restart
  <2>1. round' = Idle \/ round' = [Idle EXCEPT !.pc = "branch", !.head = tips[place], !.at = place]
    BY <1>2 DEF ReadHead, EndFetch, EndRound, Restart
  <2>2. CASE round' = Idle
    BY <2>2 DEF Idle, Anew
  <2>3. CASE round' = [Idle EXCEPT !.pc = "branch", !.head = tips[place], !.at = place]
    BY <2>3 DEF Idle, Anew
  <2>4. QED
    BY <2>1, <2>2, <2>3
<1>3. CASE Others \/ Load(Daemon) \/ Save(Daemon) \/ \E up \in Jobs : FetchOne(up)
  BY <1>3 DEF Others, DayPasses, HourPasses, OthersCatchup, FindsDue, Load, Save, FetchOne, plugin
<1>4. ASSUME NEW pc \in Earlier, Goes(pc)
      PROVE  Keeps /\ round'.pc \in Earlier /\ round'.merged = round.merged
  BY <1>1, <1>4 DEF Goes, Keeps, SameReads, Rounds
<1>5. CASE ResolveToFetch
  <2>1. round.pc = "integration" /\ (Goes("fetch") \/ FillIntegration("fetch"))
    BY <1>5 DEF ResolveToFetch
  <2>2. QED
    BY <1>4, <2>1 DEF Earlier
<1>6. CASE ResolveToReport
  <2>1. round.pc = "integration" /\ (Goes("counts") \/ FillIntegration("counts"))
    BY <1>6 DEF ResolveToReport
  <2>2. QED
    BY <1>4, <2>1 DEF Earlier
<1>7. CASE Count
  <2>1. round.pc = "counts" /\ (Goes("merged") \/ Goes("catchup"))
    BY <1>7 DEF Count
  <2>2. QED
    BY <1>4, <2>1 DEF Earlier
<1>8. CASE ReportCatchup
  BY <1>1, <1>8 DEF ReportCatchup, Keeps, SameReads, Earlier, Rounds
<1>9. CASE LookUpCatchup
  <2>1. \E tip, answer : \/ round' = [round EXCEPT !.pc = "merged"]
                         \/ round' = [round EXCEPT !.pc = "caught", !.tip = tip, !.answer = answer]
                         \/ round' = [round EXCEPT !.pc = "compute", !.tip = tip]
    BY <1>9 DEF LookUpCatchup
  <2>2. QED
    BY <1>1, <1>9, <2>1 DEF LookUpCatchup, Keeps, SameReads, Earlier, Rounds
<1>10. CASE ComputeCatchup
  <2>1. \E answer : round' = [round EXCEPT !.pc = "caught", !.answer = answer]
    BY <1>10 DEF ComputeCatchup
  <2>2. QED
    BY <1>1, <1>10, <2>1 DEF ComputeCatchup, Keeps, SameReads, Earlier, Rounds
<1>11. ASSUME NEW yes, round' = Verdict(yes)
       PROVE  Keeps
  BY <1>1, <1>11 DEF Verdict, Keeps, SameReads, Rounds
<1>12. CASE CompareTrees
  <2>1. (\E yes : round' = Verdict(yes))
          \/ round' = [round EXCEPT !.pc = "targets", !.target = <<>>, !.tree = <<>>]
    BY <1>12 DEF CompareTrees
  <2>2. Keeps
    BY <1>1, <1>11, <2>1 DEF Keeps, SameReads, Rounds
  <2>3. QED
    BY <1>12, <2>2
<1>13. CASE NoneLeft
  BY <1>11, <1>13 DEF NoneLeft
<1>14. ASSUME NEW n \in TrackingNames, MergeTarget(n)
       PROVE  Keeps
  <2>1. PICK left, tree :
          \/ round' = [round EXCEPT !.left = left]
          \/ round' = [round EXCEPT !.pc = "tree", !.left = left, !.target = n, !.tree = tree]
    BY <1>14 DEF MergeTarget
  <2>2. CASE round' = [round EXCEPT !.left = left]
    BY <1>1, <2>2 DEF Keeps, SameReads, Rounds
  <2>3. CASE round' = [round EXCEPT !.pc = "tree", !.left = left, !.target = n, !.tree = tree]
    BY <1>1, <2>3 DEF Keeps, SameReads, Rounds
  <2>4. QED
    BY <2>1, <2>2, <2>3
<1>15. QED
  BY <1>2, <1>3, <1>5, <1>6, <1>7, <1>8, <1>9, <1>10, <1>12, <1>13, <1>14 DEF Round

(* The ancestry check passes no judgement on an integration branch, and finds  *)
(* a branch merged only because a ref has HEAD that is not one of its own.     *)
LEMMA AncestrySummary ==
  ASSUME Types, CheckAncestry
  PROVE  LET own == OwnCopies(round.branch, round.upstream, Remotes)
             others == Containing(round.head, TRUE) \ (own \cup TrackedCopies(round.upstream))
         IN /\ SameReads /\ round'.known = round.known /\ round'.list = round.list
            /\ round.pc = "merged" /\ round'.pc \in {"judged", "targets"}
            /\ round'.left \in {{}, Listed}
            /\ round'.whole => round.whole
            /\ round'.pc = "targets" => round'.merged = round.merged
            /\ round'.whole /\ (round'.merged \/ round'.pc = "targets") /\ ~round.merged =>
                 round.known /\ own \cap Listed = {}
            /\ round'.whole /\ round'.merged /\ ~round.merged => others # {}
<1>0. PICK remotes : \E read, listed \in BOOLEAN :
        LET next == AncestryOf(remotes, read, listed)
        IN round' = [next EXCEPT !.whole = next.whole /\ remotes = Remotes /\ read]
  <2>1. Read(TRUE, FALSE) \subseteq BOOLEAN
    BY DEF Read
  <2>2. QED
    BY <2>1, AncestryParts
<1>1. PICK read \in BOOLEAN, listed \in BOOLEAN :
        LET next == AncestryOf(remotes, read, listed)
        IN round' = [next EXCEPT !.whole = next.whole /\ remotes = Remotes /\ read]
  BY <1>0
<1> DEFINE own(R) == OwnCopies(round.branch, round.upstream, R)
           others(R, r) == Containing(round.head, r) \ (own(R) \cup TrackedCopies(round.upstream))
           next == AncestryOf(remotes, read, listed)
           whole == next.whole /\ remotes = Remotes /\ read
<1>2. round \in Rounds /\ round.pc = "merged"
  BY RoundIsRecord DEF CheckAncestry
<1>3. \/ next = Verdict(FALSE)
      \/ /\ next = Verdict(TRUE) /\ round.known /\ own(remotes) \cap Listed = {}
         /\ others(remotes, read) # {}
      \/ /\ next = [round EXCEPT !.pc = "targets", !.left = Listed]
         /\ round.known /\ own(remotes) \cap Listed = {}
  BY DEF AncestryOf, Judgement, Judged
<1>4. round' = [next EXCEPT !.whole = whole]
  BY <1>1
<1>5. whole => next.whole /\ remotes = Remotes /\ read = TRUE
  OBVIOUS
<1> DEFINE ownNow == own(Remotes)
           othersNow == others(Remotes, TRUE)
<1>6. whole => own(remotes) = ownNow /\ others(remotes, read) = othersNow
  BY <1>5
<1> HIDE DEF own, others, next, whole, ownNow, othersNow
<1>7. CASE next = Verdict(FALSE)
  BY <1>2, <1>4, <1>5, <1>7 DEF Verdict, SameReads, Rounds
<1>8. CASE /\ next = Verdict(TRUE) /\ round.known /\ own(remotes) \cap Listed = {}
           /\ others(remotes, read) # {}
  <2>1. /\ SameReads /\ round'.known = round.known /\ round'.list = round.list
        /\ round'.pc = "judged" /\ round'.left = {} /\ round'.whole = whole
        /\ next.whole = round.whole
    BY <1>2, <1>4, <1>8 DEF Verdict, SameReads, Rounds
  <2>2. QED
    BY <1>2, <1>5, <1>6, <1>8, <2>1 DEF ownNow, othersNow, own, others
<1>9. CASE /\ next = [round EXCEPT !.pc = "targets", !.left = Listed]
           /\ round.known /\ own(remotes) \cap Listed = {}
  <2>1. /\ SameReads /\ round'.known = round.known /\ round'.list = round.list
        /\ round'.pc = "targets" /\ round'.left = Listed /\ round'.whole = whole
        /\ round'.merged = round.merged /\ next.whole = round.whole
    <3> HIDE DEF Listed
    <3>1. QED
      BY <1>2, <1>4, <1>9 DEF SameReads, Rounds
  <2>2. QED
    BY <1>2, <1>5, <1>6, <1>9, <2>1 DEF ownNow, own
<1>10. QED
  BY <1>3, <1>7, <1>8, <1>9

LEMMA ComparingStep ==
  ASSUME Types, CompareTrees \/ NoneLeft \/ \E n \in TrackingNames : MergeTarget(n)
  PROVE  /\ round.pc \in Comparing /\ round'.pc \in Comparing \cup {"judged"}
         /\ round'.merged = round.merged \/ (round'.pc = "judged" /\ (round'.merged => CompareTrees))
<1>1. round \in Rounds
  BY RoundIsRecord
<1>2. CASE CompareTrees
  <2>1. round' = Verdict(TRUE)
          \/ round' = [round EXCEPT !.pc = "targets", !.target = <<>>, !.tree = <<>>]
    BY <1>2 DEF CompareTrees
  <2>2. QED
    BY <1>1, <1>2, <2>1 DEF CompareTrees, Verdict, Comparing, Rounds
<1>3. CASE NoneLeft
  BY <1>1, <1>3 DEF NoneLeft, Verdict, Comparing, Rounds
<1>4. ASSUME NEW n \in TrackingNames, MergeTarget(n)
      PROVE  /\ round.pc \in Comparing /\ round'.pc \in Comparing /\ round'.merged = round.merged
  <2>1. round.pc = "targets" /\ \E left, tree :
          \/ round' = [round EXCEPT !.left = left]
          \/ round' = [round EXCEPT !.pc = "tree", !.left = left, !.target = n, !.tree = tree]
    BY <1>4 DEF MergeTarget
  <2>2. QED
    BY <1>1, <2>1 DEF Comparing, Rounds
<1>5. QED
  BY <1>2, <1>3, <1>4

-------------------------------------------------------------------------------
(* The default branches that are known.                                        *)

SilentInv == HasBeenDefault /\ ListComplete

LEMMA DefaultsKept ==
  ASSUME Types, History, HasBeenDefault, [Next]_vars
  PROVE  HasBeenDefault'
<1>1. /\ UNCHANGED <<repo, alias>> /\ defaults \subseteq defaults'
      /\ Remotes' = Remotes /\ \A r : Tracking(r)' = Tracking(r)
  BY EveryStep, SameNames DEF StepSummary
<1>2. /\ \A r \in Remotes : record[r].default \subseteq defaults
      /\ \A p \in {Daemon} \cup Screens : \A q \in asking[p] : q.record.default \subseteq defaults
      /\ DOMAIN asking = {Daemon} \cup Screens
  BY TypesNow DEF HasBeenDefault, Askings
<1>3. default' \in defaults'
  <2>1. CASE World
    <3>1. ASSUME NEW r, MoveDefault(r)
          PROVE  default' \in defaults'
      BY <3>1 DEF MoveDefault
    <3>2. ASSUME NEW r \in Branches, Push(r) \/ NewBranch(r) \/ Land(r) \/ DeleteBranch(r)
          PROVE  UNCHANGED <<default, defaults>>
      BY <3>2 DEF Push, NewBranch, Land, DeleteBranch, SetRemote
    <3>3. ASSUME NEW x, Work(x) \/ (\E r \in Branches : Colleague(r, x))
          PROVE  UNCHANGED <<default, defaults>>
      BY <3>3 DEF Work, Colleague, SetRemote, server
    <3>4. ASSUME NEW b, Switch(b) \/ \E pruning : FetchAll(b, pruning)
          PROVE  UNCHANGED <<default, defaults>>
      BY <3>4 DEF Switch, FetchAll, server
    <3>5. QED
      BY <2>1, <3>1, <3>2, <3>3, <3>4 DEF World, HasBeenDefault
  <2>2. CASE ~World
    BY <2>2, PluginStep, Stutters DEF Next, Stays, server, HasBeenDefault
  <2>3. QED
    BY <2>1, <2>2
<1>4. \A r \in Remotes : record'[r].default \subseteq defaults
  <2>1. CASE UNCHANGED record
    BY <1>2, <2>1
  <2>2. ASSUME NEW r \in Remotes, DayPasses(r), NEW q \in Remotes
        PROVE  record'[q].default \subseteq defaults
    BY <1>2, <2>2, TypesNow DEF DayPasses, RepoRecords
  <2>3. ASSUME NEW p \in {Daemon} \cup Screens, Save(p), NEW r \in Remotes
        PROVE  record'[r].default \subseteq defaults
    <3>1. PICK q \in asking[p] :
            /\ q.record # NotLoaded
            /\ \/ record' = [record EXCEPT ![q.remote] = [default |-> {default}, asked |-> "today"]]
               \/ record' = [record EXCEPT ![q.remote] = [q.record EXCEPT !.asked = "today"]]
               \/ UNCHANGED record
      BY <2>3 DEF Save
    <3>2. q.record \in RepoRecords
      BY <3>1, TypesNow DEF Askings
    <3>3. [q.record EXCEPT !.asked = "today"].default = q.record.default
      BY <3>2 DEF RepoRecords
    <3>4. default \in defaults /\ q.record.default \subseteq defaults
      BY <1>2 DEF HasBeenDefault
    <3> DEFINE found == [default |-> {default}, asked |-> "today"]
               none == [q.record EXCEPT !.asked = "today"]
    <3>5. found.default \subseteq defaults /\ none.default \subseteq defaults
      BY <3>3, <3>4
    <3> HIDE DEF found, none
    <3>6. record'[r] = record[r] \/ record'[r] = found \/ record'[r] = none
      BY <3>1, TypesNow DEF found, none
    <3>7. QED
      BY <1>2, <3>5, <3>6
  <2>4. UNCHANGED record \/ (\E r \in Remotes : DayPasses(r))
          \/ \E p \in {Daemon} \cup Screens : Save(p)
    <3>1. CASE World \/ UNCHANGED vars
      BY <3>1, WorldStep DEF WorldSummary, plugin, vars
    <3>2. CASE Others
      BY <3>2 DEF Others, HourPasses, OthersCatchup, FindsDue, Load
    <3>3. CASE Round
      BY <3>3 DEF Round, ReadHead, ReadBranch, ResolveToFetch, ResolveToReport, Load, FetchOne, EndFetch, Count,
                  LookUpCatchup, ComputeCatchup, ReportCatchup, CheckAncestry, CompareTrees,
                  NoneLeft, EndRound, MergeTarget, Reads, plugin
    <3>4. CASE Restart
      BY <3>4 DEF Restart
    <3>5. QED
      BY <3>1, <3>2, <3>3, <3>4 DEF Next
  <2>5. QED
    BY <2>1, <2>2, <2>3, <2>4
<1>5. \A p \in {Daemon} \cup Screens : \A q \in asking'[p] : q.record.default \subseteq defaults
  <2>0. \A r : [remote |-> r, record |-> NotLoaded].record.default \subseteq defaults
    <3>1. NotLoaded.default = {}
      BY DEF NotLoaded
    <3>2. QED
      BY <3>1
  <2>1. CASE UNCHANGED asking
    BY <1>2, <2>1
  <2>2. ASSUME NEW p \in Screens, NEW r \in Remotes, FindsDue(p, r), NEW o \in {Daemon} \cup Screens
        PROVE  \A q \in asking'[o] : q.record.default \subseteq defaults
    <3>1. asking'[o] = asking[o] \/ asking'[o] = {[remote |-> r, record |-> NotLoaded]}
      BY <1>2, <2>2 DEF FindsDue
    <3>2. QED
      BY <1>2, <2>0, <3>1
  <2>3. ASSUME ResolveToFetch, NEW o \in {Daemon} \cup Screens
        PROVE  \A q \in asking'[o] : q.record.default \subseteq defaults
    <3> DEFINE due == {q \in round.remote : LookupDue(q)}
    <3>1. UNCHANGED asking
            \/ asking' = [asking EXCEPT ![Daemon] =
                            {[remote |-> r, record |-> NotLoaded] : r \in due}]
      BY <2>3 DEF ResolveToFetch
    <3> HIDE DEF due
    <3>2. asking'[o] = asking[o]
            \/ asking'[o] = {[remote |-> r, record |-> NotLoaded] : r \in due}
      BY <1>2, <3>1
    <3>3. QED
      BY <1>2, <2>0, <3>2
  <2>4. ASSUME NEW p \in {Daemon} \cup Screens, Load(p), NEW o \in {Daemon} \cup Screens
        PROVE  \A q \in asking'[o] : q.record.default \subseteq defaults
    <3>1. PICK q \in asking[p] : asking' = [asking EXCEPT ![p] = {[q EXCEPT !.record = record[q.remote]]}]
      BY <2>4 DEF Load
    <3>2. q \in [remote : Remotes, record : RepoRecords \cup {NotLoaded}]
      BY TypesNow DEF Askings
    <3>3. [q EXCEPT !.record = record[q.remote]].record.default \subseteq defaults
      BY <1>2, <3>2
    <3> DEFINE new == [q EXCEPT !.record = record[q.remote]]
    <3> HIDE DEF new
    <3>4. asking'[o] = asking[o] \/ asking'[o] = {new}
      BY <1>2, <3>1 DEF new
    <3>5. QED
      BY <1>2, <3>3, <3>4 DEF new
  <2>5. ASSUME (\E p \in {Daemon} \cup Screens : Save(p)) \/ Restart, NEW o \in {Daemon} \cup Screens
        PROVE  \A q \in asking'[o] : q.record.default \subseteq defaults
    BY <1>2, <2>5 DEF Save, Restart
  <2>6. \/ UNCHANGED asking \/ ResolveToFetch \/ Restart
        \/ \E p \in Screens : \E r \in Remotes : FindsDue(p, r)
        \/ \E p \in {Daemon} \cup Screens : Load(p) \/ Save(p)
    <3>1. CASE World \/ UNCHANGED vars
      BY <3>1, WorldStep DEF WorldSummary, plugin, vars
    <3>2. CASE Others
      BY <3>2 DEF Others, DayPasses, HourPasses, OthersCatchup
    <3>3. CASE Round
      BY <3>3 DEF Round, ReadHead, ReadBranch, ResolveToReport, FetchOne, EndFetch, Count,
                  LookUpCatchup, ComputeCatchup, ReportCatchup, CheckAncestry, CompareTrees,
                  NoneLeft, EndRound, MergeTarget, Reads, plugin
    <3>4. QED
      BY <3>1, <3>2, <3>3 DEF Next
  <2>7. QED
    BY <2>1, <2>2, <2>3, <2>4, <2>5, <2>6
<1>6. DOMAIN asking' = {Daemon} \cup Screens
  <2>1. Types'
    BY EveryStep DEF StepSummary
  <2>2. QED
    BY <2>1 DEF Types, TypeOK
<1>7. QED
  BY <1>1, <1>3, <1>4, <1>5, <1>6 DEF HasBeenDefault

(* A default branch that is known is one there has been.                       *)
LEMMA KnownDefault ==
  ASSUME Types, HasBeenDefault, NEW r \in Remotes, NEW up \in Default(r)
  PROVE  \E d \in defaults : up.tracking = Tracking(d)
<1>1. CASE up \in LocalDefault(r)
  <2>1. up.tracking \in alias[r]
    BY <1>1 DEF LocalDefault
  <2>2. QED
    BY <2>1 DEF HasBeenDefault
<1>2. CASE up \in Recorded(r)
  <2>1. PICK q \in record[r].default : up = Known(q)
    BY <1>2 DEF Recorded
  <2>2. up.tracking = Tracking(q)
    BY <2>1 DEF Known
  <2>3. QED
    BY <2>1, <2>2 DEF HasBeenDefault
<1>3. QED
  BY <1>1, <1>2 DEF Default

LEMMA ListCompleteStep ==
  ASSUME Types, History, SilentInv, [Next]_vars
  PROVE  ListComplete'
<1>1. /\ repo' = repo /\ defaults \subseteq defaults' /\ MergeTargets' = MergeTargets
      /\ Remotes' = Remotes /\ \A r : Tracking(r)' = Tracking(r)
      /\ \A b, R : OwnRefs(b, R)' = OwnRefs(b, R)
  BY EveryStep, SameNames DEF StepSummary
<1> DEFINE Complete(rd) ==
             /\ rd.merged => rd.pc = "judged"
             /\ rd.pc = "branch" => ~rd.known
             /\ rd.known => \E d \in defaults : Tracking(d) \in {up.tracking : up \in rd.list}
             /\ rd.known /\ rd.whole =>
                  {up.tracking : up \in MergeTargets} \subseteq {up.tracking : up \in rd.list}
             /\ (rd.pc \in Comparing \/ rd.merged) /\ rd.whole =>
                  rd.known /\ OwnRefs(rd.branch, Remotes) \cap {up.tracking : up \in rd.list} = {}
<1>2. Complete(round)
  BY DEF SilentInv, ListComplete, Judging, Listed, Comparing
<1>3. ASSUME Complete(round')
      PROVE  ListComplete'
  BY <1>1, <1>3 DEF ListComplete, Judging, Listed, Comparing
<1>4. round \in Rounds
  BY RoundIsRecord
<1>5. CASE round' = round
  BY <1>2, <1>3, <1>5
<1>6. CASE Anew
  <2>1. /\ ~round'.merged /\ ~round'.known /\ round'.pc \notin Comparing
    BY <1>6 DEF Anew, Comparing
  <2>2. Complete(round')
    BY <2>1
  <2>3. QED
    BY <1>3, <2>2
<1>7. CASE ReadBranch
  <2>1. Complete(round')
    BY <1>2, <1>7, ReadBranchSummary DEF Comparing
  <2>2. QED
    BY <1>3, <2>1
<1>8. ASSUME NEW pc \in {"fetch", "counts"}, FillIntegration(pc), round.pc = "integration"
      PROVE  ListComplete'
  <2>1. /\ round'.pc = pc /\ round'.merged = round.merged
        /\ \E targets \in Read(MergeTargets, {}), r \in round.remote :
             /\ round'.known <=> Default(r) # {}
             /\ round'.list = Default(r) \cup targets
             /\ round'.whole <=> round.whole /\ targets = MergeTargets
    BY <1>4, <1>8, FillSummary
  <2>2. PICK r \in round.remote : \E targets \in Read(MergeTargets, {}) :
             /\ round'.known <=> Default(r) # {}
             /\ round'.list = Default(r) \cup targets
             /\ round'.whole <=> round.whole /\ targets = MergeTargets
    BY <2>1
  <2>3. r \in Remotes
    BY <1>4 DEF Rounds
  <2>4. round'.known => \E d \in defaults : Tracking(d) \in {up.tracking : up \in round'.list}
    BY <2>2, <2>3, KnownDefault DEF SilentInv
  <2>5. round'.whole =>
          {up.tracking : up \in MergeTargets} \subseteq {up.tracking : up \in round'.list}
    BY <2>2
  <2>6. ~round'.merged /\ round'.pc \notin Comparing /\ round'.pc # "branch"
    BY <1>2, <1>8, <2>1 DEF Comparing
  <2>7. Complete(round')
    BY <2>4, <2>5, <2>6
  <2>8. QED
    BY <1>3, <2>7
<1>9. CASE Keeps /\ round.pc # "judged" /\ round'.pc \in Earlier /\ round'.merged = round.merged
  <2>1. ~round'.merged /\ round'.pc \notin Comparing /\ round'.pc # "branch"
    BY <1>2, <1>9 DEF Earlier, Comparing
  <2>2. Complete(round')
    BY <1>2, <1>9, <2>1 DEF Keeps
  <2>3. QED
    BY <1>3, <2>2
<1>10. CASE CheckAncestry
  <2> DEFINE own == OwnCopies(round.branch, round.upstream, Remotes)
  <2>1. /\ SameReads /\ round'.known = round.known /\ round'.list = round.list
        /\ round.pc = "merged" /\ round'.pc \in {"judged", "targets"}
        /\ round'.whole => round.whole
        /\ round'.pc = "targets" => round'.merged = round.merged
        /\ round'.whole /\ (round'.merged \/ round'.pc = "targets") /\ ~round.merged =>
             round.known /\ own \cap Listed = {}
    BY <1>10, AncestrySummary
  <2>2. OwnRefs(round.branch, Remotes) \subseteq own
    BY DEF OwnCopies
  <2>3. ~round.merged
    BY <1>2, <2>1
  <2> HIDE DEF own
  <2>4. Complete(round')
    BY <1>2, <2>1, <2>2, <2>3 DEF SameReads, Comparing, Listed
  <2>5. QED
    BY <1>3, <2>4
<1>11. CASE Keeps /\ (CompareTrees \/ NoneLeft \/ \E n \in TrackingNames : MergeTarget(n))
  <2>1. /\ round.pc \in Comparing /\ round'.pc \in Comparing \cup {"judged"}
        /\ round'.merged = round.merged \/ round'.pc = "judged"
    BY <1>11, ComparingStep
  <2>2. Complete(round')
    BY <1>2, <1>11, <2>1 DEF Keeps, SameReads, Comparing
  <2>3. QED
    BY <1>3, <2>2
<1>12. World \/ UNCHANGED vars => round' = round
  BY WorldStep DEF WorldSummary, plugin, vars
<1>13. QED
  BY <1>5, <1>6, <1>7, <1>8, <1>9, <1>10, <1>11, <1>12, JudgingSteps DEF Next

LEMMA AlwaysSilent == Spec => []SilentInv
<1>1. Init => SilentInv
  <2> SUFFICES ASSUME Init PROVE SilentInv
    OBVIOUS
  <2>1. HasBeenDefault
    BY DEF Init, HasBeenDefault, Unasked
  <2>2. ListComplete
    BY DEF Init, ListComplete, Judging, Idle
  <2>3. QED
    BY <2>1, <2>2 DEF SilentInv
<1>2. Types /\ History /\ SilentInv /\ [Next]_vars => SilentInv'
  BY DefaultsKept, ListCompleteStep DEF SilentInv
<1>3. QED
  BY <1>1, <1>2, AlwaysTypes, PTL DEF Spec

(* The checkout of the default branch or of a mergeTarget is never merged,     *)
(* whatever else contains its HEAD: what the round knows of the default branch *)
(* is what it has been, by the alias of the clone or by the answer of a        *)
(* process that asked, and no refspec gives the branch another name than those *)
(* the round takes for its own (judge.go:98-101).                              *)
THEOREM IntegrationIsSilent == Spec => []IntegrationCheckoutSilent
<1>1. Types /\ SilentInv => IntegrationCheckoutSilent
  <2> SUFFICES ASSUME Types, SilentInv, round.merged, Whole, defaults = {default},
                      OnIntegrationBranch, round.branch # Detached
               PROVE  FALSE
    BY DEF IntegrationCheckoutSilent
  <2>1. /\ Tracking(default) \in Listed
        /\ {up.tracking : up \in MergeTargets} \subseteq Listed
        /\ OwnRefs(round.branch, Remotes) \cap Listed = {}
    BY DEF SilentInv, ListComplete, Judging, Whole
  <2>2. ASSUME NEW r \in RefsOf(repo), r.ref = Heads(round.branch)
        PROVE  Tracking(r) \notin Listed
    <3>1. r = Remote(r.remote, round.branch) /\ r.remote \in Remotes
      BY <2>2, TypesNow, RefType DEF Remote
    <3>2. Tracking(r) \in TrackingNames /\ <<repo, r, Tracking(r)>> \in Own
      BY TypesNow, TrackingIsOwn
    <3>3. Tracking(r) \in OwnRefs(round.branch, Remotes)
      BY <3>1, <3>2 DEF OwnRefs
    <3>4. QED
      BY <2>1, <3>3
  <2>3. CASE default.ref = Heads(round.branch)
    <3>1. default \in RefsOf(repo)
      BY DEF Types, TypeOK, Branches, BranchesOf
    <3>2. QED
      BY <2>1, <2>2, <2>3, <3>1
  <2>4. ASSUME NEW up \in MergeTargets, NEW r \in up.from, r.ref = Heads(round.branch)
        PROVE  FALSE
    <3>1. r \in RefsOf(repo) /\ up.tracking = Tracking(r)
      <4>1. PICK q \in RefsOf(repo) : up = Known(q)
        BY DEF MergeTargets
      <4>2. up.tracking = Tracking(q) /\ up.from = {q}
        BY <4>1 DEF Known
      <4>3. QED
        BY <4>2
    <3>2. QED
      BY <2>1, <2>2, <2>4, <3>1
  <2>5. QED
    BY <2>3, <2>4 DEF OnIntegrationBranch
<1>2. QED
  BY <1>1, AlwaysTypes, AlwaysSilent, PTL

-------------------------------------------------------------------------------
(* What is elsewhere.                                                          *)

EvidenceInv == CopiesOfBranches /\ ListOfBranches /\ UpstreamsOfConfig /\ TreeOfMerge /\ Evidence

LEMMA StillHeld ==
  ASSUME Types, History, History', KeepsCommits, BranchesGrow,
         NEW r \in Branches, NEW c, Held(c, r)
  PROVE  Held(c, r)'
<1>0. PICK a, b : a = remote[r] /\ b = remote'[r]
  OBVIOUS
<1>1. a \in Commits /\ c \in Past(a)
  BY <1>0, RemoteTypes DEF Held
<1>2. b \in Commits' /\ a \in Past(b)'
  BY <1>0, <1>1 DEF BranchesGrow, Held, Past
<1>3. Past(a)' \subseteq Past(b)' /\ Past(a)' = Past(a)
  BY <1>1, <1>2 DEF History, KeepsCommits, Past
<1>4. b # None
  BY <1>2 DEF Commits, None
<1>5. c \in commits'[b].past
  BY <1>1, <1>3 DEF Past
<1>6. QED
  BY <1>0, <1>4, <1>5 DEF Held, Past

(* A name of a branch is not known to come from no branch.                     *)
LEMMA OwnIsTold ==
  ASSUME ToldApart, repo \in Repos, NEW r \in Branches, NEW n \in TrackingNames,
         <<repo, r, n>> \in Own
  PROVE  n \notin FromNoBranch
BY DEF ToldApart, Branches, BranchesOf, FromNoBranch

(* Fetch and push write a ref that is not known to come from no branch only    *)
(* for a branch.                                                               *)
LEMMA WrittenForBranch ==
  ASSUME repo \in Repos, NEW r, NEW n \in TrackingNames \ FromNoBranch, <<repo, r, n>> \in Writes
  PROVE  r \in Branches /\ <<repo, r, n>> \in Own
<1>1. r \in RefsOf(repo) /\ <<repo, r, n>> \in Own
  BY WritesAreOwn
<1>2. IsBranch(r.ref)
  BY <1>1, FromNoBranchCopies
<1>3. QED
  BY <1>1, <1>2 DEF Branches, BranchesOf

(* What a job of the round fetches is, where it is not known to come from no   *)
(* branch, the name of a branch.                                               *)
LEMMA FetchedForBranch ==
  ASSUME ToldApart, Types, ListOfBranches, UpstreamsOfConfig,
         NEW up \in Jobs, NEW from \in up.from, up.tracking \notin FromNoBranch
  PROVE  from \in Branches /\ <<repo, from, up.tracking>> \in Own
<1>1. CASE up \in round.list
  BY <1>1 DEF ListOfBranches
<1>2. ASSUME NEW u \in round.upstream, up = Known(u)
      PROVE  from \in Branches /\ <<repo, from, up.tracking>> \in Own
  <2>1. from = u /\ up.tracking = Tracking(u)
    BY <1>2 DEF Known
  <2>2. u \in RefsOf(repo) /\ u \in RemoteRefs
    BY TypesNow DEF RoundTyped, Rounds, RefsOf
  <2>3. /\ Tracking(u) \in TrackingNames /\ <<repo, u, Tracking(u)>> \in Own
        /\ Tracking(u) = TrackingRefFor(Specs(repo, u.remote), u.remote, u.ref)
    BY <2>2, TypesNow, TrackingIsOwn
  <2>4. <<repo, u, Tracking(u)>> \in Tracks
    BY <2>2, <2>3, TypesNow, NamesOfARef
  <2>5. PICK b \in LocalBranches : u \in Config[repo].upstream[b]
    BY DEF UpstreamsOfConfig
  <2>6. IsBranch(u.ref)
    <3>1. <<repo, Tracking(u)>> \notin NonBranches
      BY <2>1, <2>3 DEF FromNoBranch
    <3>2. QED
      BY <2>3, <2>4, <2>5, <3>1, TypesNow DEF ToldApart
  <2>7. QED
    BY <2>1, <2>2, <2>3, <2>6, TypesNow DEF Branches, BranchesOf
<1>3. QED
  BY <1>1, <1>2 DEF Jobs

LEMMA TrackingMoves ==
  ASSUME ToldApart, Types, History, ListOfBranches, UpstreamsOfConfig, [Next]_vars,
         NEW n \in TrackingNames \ FromNoBranch
  PROVE  \/ tracking'[n] \in {tracking[n], None}
         \/ \E r \in Branches : /\ <<repo, r, n>> \in Own
                                /\ remote'[r] # None /\ tracking'[n] = remote'[r]
<1> DEFINE Goal == \/ tracking'[n] \in {tracking[n], None}
                   \/ \E r \in Branches : /\ <<repo, r, n>> \in Own
                                          /\ remote'[r] # None /\ tracking'[n] = remote'[r]
<1>0. repo \in Repos
  BY TypesNow
<1>1. ASSUME NEW r \in Branches, Push(r)
      PROVE  Goal
  <2>1. tracking'[n] = IF n \in Copies(r) THEN tips[place] ELSE tracking[n]
    BY <1>1 DEF Push
  <2>2. remote'[r] = tips[place] /\ tips[place] # None
    <3>1. tips[place] \in Commits /\ None \notin Commits
      BY RemoteTypes, CommitTypes
    <3>2. r \in With(r) /\ r \in RemoteRefs
      BY RemoteTypes DEF With
    <3>3. QED
      BY <1>1, <3>1, <3>2 DEF Push, SetRemote
  <2>3. n \in Copies(r) => <<repo, r, n>> \in Own
    BY <1>0, WrittenForBranch DEF Copies
  <2>4. QED
    BY <2>1, <2>2, <2>3
<1>2. ASSUME NEW r, NEW pruning, FetchAll(r, pruning)
      PROVE  Goal
  <2> DEFINE from == {q \in RemoteRefs : q.remote = r /\ <<repo, q, n>> \in Writes}
             there == {q \in from : Exists(q)}
             q == CHOOSE q \in there : TRUE
  <2>1. tracking'[n] = IF there # {} THEN remote[q]
                       ELSE IF pruning /\ from # {} THEN None ELSE tracking[n]
    BY <1>2 DEF FetchAll, Fetched
  <2>2. there # {} => q \in there
    OBVIOUS
  <2>3. there # {} => q \in Branches /\ <<repo, q, n>> \in Own /\ remote[q] # None
    BY <1>0, <2>2, WrittenForBranch DEF Exists
  <2>4. remote' = remote
    BY <1>2 DEF FetchAll, server
  <2> HIDE DEF q, there, from
  <2>5. QED
    BY <2>1, <2>3, <2>4
<1>3. ASSUME NEW up \in Jobs, FetchOne(up)
      PROVE  Goal
  <2>1. PICK from \in up.from :
          /\ Exists(from)
          /\ tracking' = [m \in TrackingNames |->
                IF m \in {up.tracking} \cup Copies(from) THEN remote[from] ELSE tracking[m]]
    BY <1>3 DEF FetchOne
  <2>2. tracking'[n] = IF n \in {up.tracking} \cup Copies(from) THEN remote[from] ELSE tracking[n]
    BY <2>1
  <2>3. n = up.tracking => from \in Branches /\ <<repo, from, n>> \in Own
    BY FetchedForBranch
  <2>4. n \in Copies(from) => from \in Branches /\ <<repo, from, n>> \in Own
    BY <1>0, WrittenForBranch DEF Copies
  <2>5. remote' = remote /\ remote[from] # None
    BY <1>3, <2>1 DEF FetchOne, server, Exists
  <2>6. QED
    BY <2>2, <2>3, <2>4, <2>5
<1>4. UNCHANGED tracking \/ (\E r \in Branches : Push(r)) \/ (\E r, pruning : FetchAll(r, pruning))
        \/ \E up \in Jobs : FetchOne(up)
  <2>1. CASE World
    BY <2>1 DEF World, Work, Colleague, Switch, NewBranch, Land, DeleteBranch, MoveDefault
  <2>2. CASE Others
    BY <2>2 DEF Others, DayPasses, HourPasses, OthersCatchup, FindsDue, Load, Save, sources
  <2>3. CASE Round
    BY <2>3 DEF Round, ReadHead, ReadBranch, ResolveToFetch, ResolveToReport, Load, Save, EndFetch, Count,
                LookUpCatchup, ComputeCatchup, ReportCatchup, CheckAncestry, CompareTrees,
                NoneLeft, EndRound, MergeTarget, Reads, sources
  <2>4. CASE Restart \/ UNCHANGED vars
    BY <2>4 DEF Restart, vars, sources
  <2>5. QED
    BY <2>1, <2>2, <2>3, <2>4 DEF Next
<1>5. CASE UNCHANGED tracking
  BY <1>5
<1>6. QED
  BY <1>1, <1>2, <1>3, <1>4, <1>5

LEMMA CopiesStep ==
  ASSUME ToldApart, Types, History, CopiesOfBranches, ListOfBranches, UpstreamsOfConfig, [Next]_vars
  PROVE  CopiesOfBranches'
<1>1. /\ Types' /\ History' /\ KeepsCommits /\ BranchesGrow /\ repo' = repo
      /\ FromNoBranch' = FromNoBranch /\ Branches' = Branches
  BY EveryStep, SameNames DEF StepSummary
<1> SUFFICES ASSUME NEW n \in TrackingNames \ FromNoBranch, tracking'[n] # None
             PROVE  \E r \in Branches : CopyOf(n, r)'
  BY <1>1 DEF CopiesOfBranches
<1>2. CASE tracking'[n] = tracking[n]
  <2>1. PICK r \in Branches : <<repo, r, n>> \in Own /\ Held(tracking[n], r)
    BY <1>2 DEF CopiesOfBranches, CopyOf
  <2>2. PICK c : c = tracking[n]
    OBVIOUS
  <2>3. Held(c, r)'
    BY <1>1, <2>1, <2>2, StillHeld
  <2>4. CopyOf(n, r)'
    BY <1>1, <1>2, <2>1, <2>2, <2>3 DEF CopyOf, Held
  <2>5. QED
    BY <2>4
<1>3. ASSUME NEW r \in Branches, <<repo, r, n>> \in Own, remote'[r] # None, tracking'[n] = remote'[r]
      PROVE  CopyOf(n, r)'
  <2>0. PICK c : c = remote'[r]
    OBVIOUS
  <2>1. c \in Commits'
    BY <1>1, <1>3, <2>0 DEF Types, TypeOK, Branches, BranchesOf, RefsOf
  <2>2. c \in Past(c)'
    BY <1>1, <2>1 DEF History
  <2>3. Held(tracking[n], r)'
    BY <1>3, <2>0, <2>2 DEF Held, Past
  <2>4. QED
    BY <1>1, <1>3, <2>3 DEF CopyOf
<1>4. QED
  BY <1>2, <1>3, TrackingMoves

(* The default branch and the mergeTargets are tracked under names of branches, *)
(* and fetched from these.                                                     *)
OfBranches(up) ==
    /\ \E r \in Branches : <<repo, r, up.tracking>> \in Own
    /\ \A r \in up.from : r \in Branches /\ <<repo, r, up.tracking>> \in Own

LEMMA ListedBranches ==
  ASSUME ToldApart, Types, HasBeenDefault, NEW r \in Remotes, NEW up \in Default(r) \cup MergeTargets
  PROVE  OfBranches(up)
<1>0. repo \in Repos /\ \A q \in Branches : q \in RefsOf(repo)
  BY TypesNow DEF Branches, BranchesOf
<1>1. \A q \in Branches : OfBranches(Known(q))
  <2> SUFFICES ASSUME NEW q \in Branches PROVE OfBranches(Known(q))
    OBVIOUS
  <2>1. Known(q).tracking = Tracking(q) /\ Known(q).from = {q}
    BY DEF Known
  <2>2. <<repo, q, Tracking(q)>> \in Own
    BY <1>0, TrackingIsOwn
  <2>3. QED
    BY <2>1, <2>2 DEF OfBranches
<1>2. \A d \in defaults : d \in Branches
  BY DEF Types, TypeOK
<1>3. CASE up \in LocalDefault(r)
  <2>1. /\ up.tracking \in alias[r]
        /\ \A q \in up.from : /\ q \in RefsOf(repo) /\ q.remote = r
                              /\ <<repo, q, up.tracking>> \in ComesFrom
    <3> DEFINE From(n) == {q \in RefsOf(repo) : q.remote = r /\ <<repo, q, n>> \in ComesFrom}
    <3>1. PICK n \in alias[r] : up = [tracking |-> n, from |-> From(n)]
      BY <1>3 DEF LocalDefault
    <3>2. up.tracking = n /\ up.from = From(n)
      <4> HIDE DEF From
      <4>1. QED
        BY <3>1
    <3>3. QED
      BY <3>2
  <2>2. PICK d \in defaults : d.remote = r /\ up.tracking = Tracking(d)
    BY <2>1 DEF HasBeenDefault
  <2>3. d \in Branches /\ Tracking(d) \in TrackingNames /\ <<repo, d, Tracking(d)>> \in Own
    BY <1>0, <1>2, TrackingIsOwn
  <2>4. Tracking(d) \notin FromNoBranch
    BY <1>0, <2>3, OwnIsTold
  <2>5. \A q \in up.from : q \in Branches /\ <<repo, q, Tracking(d)>> \in Own
    BY <1>0, <2>1, <2>2, <2>3, <2>4, BehindItsTrackingRef
  <2>6. QED
    BY <2>2, <2>3, <2>5 DEF OfBranches
<1>4. CASE up \in Recorded(r)
  <2>1. PICK q \in record[r].default : up = Known(q)
    BY <1>4 DEF Recorded
  <2>2. q \in defaults
    BY DEF HasBeenDefault
  <2>3. QED
    BY <1>1, <1>2, <2>1, <2>2
<1>5. CASE up \in MergeTargets
  BY <1>0, <1>1, <1>5, TargetsAreBranches
<1>6. QED
  BY <1>3, <1>4, <1>5 DEF Default

(* One more target is compared, or passed over.                                *)
LEMMA MergeTargetSummary ==
  ASSUME Types, NEW n \in TrackingNames, MergeTarget(n)
  PROVE  /\ round.pc = "targets" /\ n \in round.left /\ Keeps /\ round'.merged = round.merged
         /\ round'.left = round.left \ {n}
         /\ \/ round'.pc = "targets"
            \/ /\ round'.pc = "tree" /\ round'.target = n
               /\ tracking[n] # None /\ ~Conflicts(tracking[n], round.head)
               /\ round'.tree = MergedTree(tracking[n], round.head)
<1>1. round \in Rounds /\ round.pc = "targets" /\ n \in round.left
  BY RoundIsRecord DEF MergeTarget
<1> DEFINE left == round.left \ {n}
           tree == MergedTree(tracking[n], round.head)
<1>2. \/ round' = [round EXCEPT !.left = left]
      \/ /\ tracking[n] # None /\ ~Conflicts(tracking[n], round.head)
         /\ round' = [round EXCEPT !.pc = "tree", !.left = left, !.target = n, !.tree = tree]
  BY DEF MergeTarget
<1> HIDE DEF left, tree
<1>3. CASE round' = [round EXCEPT !.left = left]
  BY <1>1, <1>3 DEF Keeps, SameReads, Rounds, left
<1>4. CASE /\ tracking[n] # None /\ ~Conflicts(tracking[n], round.head)
           /\ round' = [round EXCEPT !.pc = "tree", !.left = left, !.target = n, !.tree = tree]
  BY <1>1, <1>4 DEF Keeps, SameReads, Rounds, left, tree
<1>5. QED
  BY <1>2, <1>3, <1>4

LEMMA CompareTreesSummary ==
  ASSUME Types, CompareTrees
  PROVE  /\ round.pc = "tree" /\ Keeps
         /\ \/ /\ round'.pc = "judged" /\ tracking[round.target] # None
               /\ round.tree = commits[tracking[round.target]].tree
            \/ round'.pc = "targets" /\ round'.left = round.left /\ round'.merged = round.merged
<1>1. round \in Rounds /\ round.pc = "tree"
  BY RoundIsRecord DEF CompareTrees
<1>2. \/ /\ round' = Verdict(TRUE) /\ tracking[round.target] # None
         /\ round.tree = commits[tracking[round.target]].tree
      \/ round' = [round EXCEPT !.pc = "targets", !.target = <<>>, !.tree = <<>>]
  BY DEF CompareTrees
<1>3. CASE /\ round' = Verdict(TRUE) /\ tracking[round.target] # None
           /\ round.tree = commits[tracking[round.target]].tree
  <2>1. round'.pc = "judged" /\ Keeps
    BY <1>1, <1>3 DEF Verdict, Keeps, SameReads, Rounds
  <2>2. QED
    BY <1>1, <1>3, <2>1
<1>4. CASE round' = [round EXCEPT !.pc = "targets", !.target = <<>>, !.tree = <<>>]
  <2>1. round'.pc = "targets" /\ round'.left = round.left /\ round'.merged = round.merged
    BY <1>1, <1>4 DEF Rounds
  <2>2. Keeps
    BY <1>1, <1>4 DEF Keeps, SameReads, Rounds
  <2>3. QED
    BY <1>1, <2>1, <2>2
<1>5. QED
  BY <1>2, <1>3, <1>4

LEMMA ListOfBranchesStep ==
  ASSUME ToldApart, Types, History, HasBeenDefault, ListOfBranches, [Next]_vars
  PROVE  ListOfBranches'
<1>0. repo' = repo /\ Branches' = Branches
  BY EveryStep, SameNames DEF StepSummary
<1> DEFINE Lst(rd) == {up.tracking : up \in rd.list}
           Right(rd) == /\ \A up \in rd.list : OfBranches(up)
                        /\ rd.pc \in Comparing => rd.left \subseteq Lst(rd)
                        /\ rd.pc = "tree" => rd.target \in Lst(rd)
<1>1. Right(round)
  BY DEF ListOfBranches, OfBranches, Listed, Comparing
<1>2. ASSUME Right(round')
      PROVE  ListOfBranches'
  BY <1>0, <1>2 DEF ListOfBranches, OfBranches, Listed, Comparing
<1>3. round \in Rounds
  BY RoundIsRecord
<1>4. CASE round' = round
  BY <1>1, <1>2, <1>4
<1>5. ASSUME round'.list = round.list \/ round'.list = {}, round'.pc \notin Comparing
      PROVE  ListOfBranches'
  <2>1. Right(round')
    BY <1>1, <1>5 DEF Comparing
  <2>2. QED
    BY <1>2, <2>1
<1>6. CASE Anew
  BY <1>5, <1>6 DEF Anew, Comparing
<1>7. CASE ReadBranch
  BY <1>5, <1>7, ReadBranchSummary DEF Comparing
<1>8. ASSUME NEW pc \in {"fetch", "counts"}, FillIntegration(pc)
      PROVE  ListOfBranches'
  <2>1. /\ round'.pc = pc
        /\ \E r \in round.remote : \E targets \in Read(MergeTargets, {}) :
             round'.list = Default(r) \cup targets
    BY <1>3, <1>8, FillSummary
  <2>2. PICK r \in round.remote, targets \in Read(MergeTargets, {}) :
             round'.list = Default(r) \cup targets
    BY <2>1
  <2>3. r \in Remotes /\ targets \subseteq MergeTargets
    BY <1>3 DEF Rounds, Read
  <2>4. \A up \in round'.list : OfBranches(up)
    BY <2>2, <2>3, ListedBranches
  <2>5. Right(round')
    BY <2>1, <2>4 DEF Comparing
  <2>6. QED
    BY <1>2, <2>5
<1>9. CASE Keeps /\ round'.pc \in Earlier
  BY <1>5, <1>9 DEF Keeps, Earlier, Comparing
<1>10. CASE CheckAncestry
  <2>1. /\ round'.list = round.list /\ round'.pc \in {"judged", "targets"}
        /\ round'.left \in {{}, Listed}
    BY <1>10, AncestrySummary
  <2>2. round'.left \subseteq Lst(round')
    BY <2>1 DEF Listed
  <2>3. Right(round')
    BY <1>1, <2>1, <2>2 DEF Comparing
  <2>4. QED
    BY <1>2, <2>3
<1>11. CASE CompareTrees
  <2>1. Keeps /\ round.pc = "tree" /\ (round'.pc = "judged" \/ (round'.pc = "targets" /\ round'.left = round.left))
    BY <1>11, CompareTreesSummary
  <2>2. Right(round')
    BY <1>1, <2>1 DEF Keeps, Comparing
  <2>3. QED
    BY <1>2, <2>2
<1>12. CASE Keeps /\ NoneLeft
  BY <1>3, <1>5, <1>12 DEF NoneLeft, Verdict, Keeps, Comparing, Rounds
<1>13. ASSUME NEW n \in TrackingNames, MergeTarget(n)
       PROVE  ListOfBranches'
  <2>1. /\ round.pc = "targets" /\ n \in round.left /\ round'.list = round.list
        /\ round'.left = round.left \ {n}
        /\ round'.pc = "targets" \/ (round'.pc = "tree" /\ round'.target = n)
    BY <1>13, MergeTargetSummary DEF Keeps
  <2>2. Right(round')
    BY <1>1, <2>1 DEF Comparing
  <2>3. QED
    BY <1>2, <2>2
<1>14. World \/ UNCHANGED vars => round' = round
  BY WorldStep DEF WorldSummary, plugin, vars
<1>15. QED
  BY <1>4, <1>6, <1>7, <1>8, <1>9, <1>10, <1>11, <1>12, <1>13, <1>14, JudgingSteps DEF Next

LEMMA UpstreamsStep ==
  ASSUME Types, History, UpstreamsOfConfig, [Next]_vars
  PROVE  UpstreamsOfConfig'
<1>1. repo' = repo
  BY EveryStep DEF StepSummary
<1>2. CASE World \/ UNCHANGED vars
  <2>1. round' = round
    BY <1>2, WorldStep DEF WorldSummary, plugin, vars
  <2>2. QED
    BY <1>1, <2>1 DEF UpstreamsOfConfig
<1>3. CASE Anew \/ SameReads
  BY <1>1, <1>3 DEF Anew, SameReads, UpstreamsOfConfig
<1>4. CASE ReadBranch
  <2>1. PICK branch \in Read(place, Detached) : \E up \in Read(Upstream(branch), {}) :
          \E r \in Read(RemoteFor(up, Remotes), {u.remote : u \in up}) :
            round' = [round EXCEPT !.pc = "integration", !.branch = branch, !.upstream = up,
                        !.remote = r, !.whole = branch = place /\ up = Upstream(branch)]
    BY <1>4 DEF ReadBranch
  <2>2. PICK up \in Read(Upstream(branch), {}) : round'.upstream = up
    BY <2>1, RoundIsRecord DEF Rounds
  <2>3. branch \in Places
    BY RemoteTypes DEF Read, Places
  <2>4. \A u \in up : branch \in LocalBranches /\ u \in Config[repo].upstream[branch]
    BY <2>3 DEF Read, Upstream, Places
  <2>5. QED
    BY <1>1, <2>2, <2>4 DEF UpstreamsOfConfig
<1>5. QED
  BY <1>2, <1>3, <1>4, RoundSummary DEF Next

(* A tracking ref that is none of the branch's own, and not known to come from *)
(* no branch, holds what has been in another branch.                           *)
LEMMA CopyOfAnother ==
  ASSUME Types, CopiesOfBranches, NEW n \in TrackingNames \ FromNoBranch, tracking[n] # None,
         NEW branch, n \notin OwnRefs(branch, Remotes)
  PROVE  /\ tracking[n] \in Commits
         /\ \E r \in Elsewhere(branch) : Held(tracking[n], r)
<1>1. PICK r \in Branches : <<repo, r, n>> \in Own /\ Held(tracking[n], r)
  BY DEF CopiesOfBranches, CopyOf
<1>2. r.ref # Heads(branch)
  <2> SUFFICES ASSUME r.ref = Heads(branch) PROVE FALSE
    OBVIOUS
  <2>1. branch # Detached
    BY RemoteTypes, NamesAssumption
  <2>2. r = Remote(r.remote, branch) /\ r.remote \in Remotes
    BY TypesNow, RefType DEF Remote, Branches, BranchesOf
  <2>3. QED
    BY <1>1, <2>1, <2>2 DEF OwnRefs
<1>3. tracking[n] \in Commits
  BY TypesNow
<1>4. QED
  BY <1>1, <1>2, <1>3 DEF Elsewhere

(* What is held stays held, and what was elsewhere then.                       *)
LEMMA StillElsewhere ==
  ASSUME Types, History, NEW b, NEW c, NEW r \in Elsewhere(b), Held(c, r), [Next]_vars
  PROVE  c \in Commits /\ r \in Branches /\ r \in Elsewhere(b)' /\ Held(c, r)'
<1>1. /\ History' /\ KeepsCommits /\ BranchesGrow /\ Elsewhere(b)' = Elsewhere(b)
  BY EveryStep, SameNames DEF StepSummary
<1>2. r \in Branches
  BY DEF Elsewhere
<1>3. remote[r] \in Commits
  BY <1>2, RemoteTypes DEF Held
<1>4. c \in Commits
  BY <1>3, CommitTypes, RemoteTypes DEF Held
<1>5. QED
  BY <1>1, <1>2, <1>4, StillHeld

(* The targets of a comparison are none of the branch's own.                   *)
LEMMA ComparedIsAnother ==
  ASSUME ToldApart, Types, SilentInv, CopiesOfBranches, ListOfBranches,
         round.pc \in Comparing, round.whole, NEW n \in Listed, tracking[n] # None
  PROVE  /\ n \in TrackingNames /\ tracking[n] \in Commits
         /\ \E r \in Elsewhere(round.branch) : Held(tracking[n], r)
<1>1. PICK up \in round.list : n = up.tracking
  BY DEF Listed
<1>2. PICK r \in Branches : <<repo, r, n>> \in Own
  BY <1>1 DEF ListOfBranches
<1>3. n \in TrackingNames
  BY <1>1, RoundIsRecord DEF Rounds
<1>4. n \notin FromNoBranch
  BY <1>2, <1>3, TypesNow, OwnIsTold
<1>5. n \notin OwnRefs(round.branch, Remotes)
  BY DEF SilentInv, ListComplete, Judging, Comparing
<1>6. QED
  BY <1>3, <1>4, <1>5, CopyOfAnother

(* A merge of a commit that another branch holds.                              *)
MergeOf(tree, t, head, branch) ==
    /\ \E r \in Elsewhere(branch) : Held(t, r)
    /\ ~Conflicts(t, head) /\ tree = MergedTree(t, head)

LEMMA StillMergeOf ==
  ASSUME Types, History, [Next]_vars, NEW tree, NEW t \in Commits, NEW head \in Commits, NEW branch,
         MergeOf(tree, t, head, branch)
  PROVE  t \in Commits' /\ MergeOf(tree, t, head, branch)'
<1>1. KeepsCommits
  BY EveryStep DEF StepSummary
<1>2. /\ t \in Commits' /\ (Conflicts(t, head)' <=> Conflicts(t, head))
      /\ MergedTree(t, head)' = MergedTree(t, head)
  BY <1>1, OldCommits
<1>3. PICK r \in Elsewhere(branch) : Held(t, r)
  BY DEF MergeOf
<1>4. r \in Elsewhere(branch)' /\ Held(t, r)'
  BY <1>3, StillElsewhere
<1>5. QED
  BY <1>2, <1>4 DEF MergeOf

LEMMA TreeOfMergeStep ==
  ASSUME ToldApart, Types, History, SilentInv, EvidenceInv, [Next]_vars
  PROVE  TreeOfMerge'
<1>1. SUFFICES ASSUME round'.pc = "tree", round'.whole
               PROVE  \E t \in Commits' : MergeOf(round.tree, t, round.head, round.branch)'
  BY DEF TreeOfMerge, MergeOf
<1>2. round \in Rounds /\ (round.pc # "idle" => round.head \in Commits)
  BY TypesNow DEF RoundTyped
<1>3. ASSUME NEW tree, NEW t \in Commits, NEW head \in Commits, NEW branch,
             MergeOf(tree, t, head, branch),
             round'.tree = tree, round'.head = head, round'.branch = branch
      PROVE  \E u \in Commits' : MergeOf(round.tree, u, round.head, round.branch)'
  <2>1. t \in Commits' /\ MergeOf(tree, t, head, branch)'
    BY <1>3, StillMergeOf
  <2>2. QED
    BY <1>3, <2>1
<1>4. CASE round' = round
  <2>1. PICK t \in Commits : MergeOf(round.tree, t, round.head, round.branch)
    BY <1>1, <1>4 DEF EvidenceInv, TreeOfMerge, MergeOf
  <2>2. round.head \in Commits
    BY <1>1, <1>2, <1>4
  <2>3. QED
    BY <1>3, <1>4, <2>1, <2>2
<1>5. ASSUME NEW n \in TrackingNames, MergeTarget(n)
      PROVE  \E t \in Commits' : MergeOf(round.tree, t, round.head, round.branch)'
  <2>1. /\ round.pc = "targets" /\ n \in round.left /\ Keeps
        /\ tracking[n] # None /\ ~Conflicts(tracking[n], round.head)
        /\ round'.tree = MergedTree(tracking[n], round.head)
    BY <1>1, <1>5, MergeTargetSummary
  <2>2. round.whole /\ round.pc \in Comparing /\ round.head \in Commits
    BY <1>1, <1>2, <2>1 DEF Keeps, Comparing
  <2>3. n \in Listed
    BY <2>1 DEF EvidenceInv, ListOfBranches
  <2>4. tracking[n] \in Commits /\ \E r \in Elsewhere(round.branch) : Held(tracking[n], r)
    BY <2>1, <2>2, <2>3, ComparedIsAnother DEF EvidenceInv
  <2>5. MergeOf(round'.tree, tracking[n], round.head, round.branch)
    BY <2>1, <2>4 DEF MergeOf
  <2>6. round'.head = round.head /\ round'.branch = round.branch
    BY <2>1 DEF Keeps, SameReads
  <2>7. PICK tree : tree = round'.tree
    OBVIOUS
  <2>8. QED
    BY <1>3, <2>2, <2>4, <2>5, <2>6, <2>7
<1>6. round' = round \/ \E n \in TrackingNames : MergeTarget(n)
  <2>1. CASE World \/ UNCHANGED vars
    BY <2>1, WorldStep DEF WorldSummary, plugin, vars
  <2>2. CASE Others \/ Round \/ Restart
    <3>1. ~Anew /\ round'.pc \notin Earlier
      BY <1>1 DEF Anew, Earlier
    <3>2. ~ReadBranch
      BY <1>1, ReadBranchSummary
    <3>3. ASSUME NEW pc \in {"fetch", "counts"}
          PROVE  ~FillIntegration(pc)
      BY <1>1, <1>2, FillSummary
    <3>4. ~CheckAncestry
      BY <1>1, AncestrySummary
    <3>5. ~CompareTrees
      BY <1>1, CompareTreesSummary
    <3>6. ~NoneLeft
      <4>1. Verdict(FALSE).pc = "judged"
        BY <1>2 DEF Verdict, Rounds
      <4>2. QED
        BY <1>1, <4>1 DEF NoneLeft
    <3>7. QED
      BY <2>2, <3>1, <3>2, <3>3, <3>4, <3>5, <3>6, JudgingSteps
  <2>3. QED
    BY <2>1, <2>2 DEF Next
<1>7. QED
  BY <1>4, <1>5, <1>6

LEMMA EvidenceStep ==
  ASSUME ToldApart, Types, History, SilentInv, EvidenceInv, [Next]_vars
  PROVE  Evidence'
<1> DEFINE Shows(x, head, branch) ==
             \E r \in Elsewhere(branch) : \E c \in Commits :
               Held(c, r) /\ Version(c, x) = Version(head, x)
<1>1. SUFFICES ASSUME round'.merged, round'.whole, NEW x \in Areas
               PROVE  \E r \in Elsewhere(round.branch)' : \E c \in Commits' :
                        Held(c, r)' /\ Version(c, x)' = Version(round.head, x)'
  BY DEF Evidence
<1>2. round \in Rounds /\ (round.pc # "idle" => round.head \in Commits)
  BY TypesNow DEF RoundTyped
<1>3. ASSUME NEW head \in Commits, NEW branch, Shows(x, head, branch),
             round'.head = head, round'.branch = branch
      PROVE  \E r \in Elsewhere(round.branch)' : \E c \in Commits' :
               Held(c, r)' /\ Version(c, x)' = Version(round.head, x)'
  <2>1. PICK r \in Elsewhere(branch), c \in Commits :
          Held(c, r) /\ Version(c, x) = Version(head, x)
    BY <1>3
  <2>2. r \in Elsewhere(branch)' /\ Held(c, r)'
    BY <2>1, StillElsewhere
  <2>3. c \in Commits' /\ Version(c, x)' = Version(head, x)'
    BY <2>1, EveryStep, OldCommits DEF StepSummary
  <2>4. r \in Elsewhere(round.branch)' /\ Version(round.head, x)' = Version(head, x)'
    BY <1>3, <2>2 DEF Elsewhere, Version
  <2>5. QED
    BY <2>2, <2>3, <2>4
<1>4. ASSUME round.pc # "idle", SameReads, Shows(x, round.head, round.branch)
      PROVE  \E r \in Elsewhere(round.branch)' : \E c \in Commits' :
               Held(c, r)' /\ Version(c, x)' = Version(round.head, x)'
  <2> HIDE DEF Shows
  <2>1. PICK head, branch : head = round.head /\ branch = round.branch
    OBVIOUS
  <2>2. QED
    BY <1>2, <1>3, <1>4, <2>1 DEF SameReads
<1>5. CASE round' = round
  <2>1. round.pc # "idle"
    BY <1>1, <1>5 DEF SilentInv, ListComplete
  <2>2. Shows(x, round.head, round.branch)
    BY <1>1, <1>5 DEF EvidenceInv, Evidence
  <2>3. SameReads
    BY <1>5 DEF SameReads
  <2> HIDE DEF Shows
  <2>4. QED
    BY <1>4, <2>1, <2>2, <2>3
<1>6. CASE CheckAncestry /\ ~round.merged
  <2> DEFINE own == OwnCopies(round.branch, round.upstream, Remotes)
             others == Containing(round.head, TRUE) \ (own \cup TrackedCopies(round.upstream))
  <2>1. SameReads /\ round.pc = "merged" /\ others # {}
    BY <1>1, <1>6, AncestrySummary
  <2>2. PICK n \in TrackingNames \ FromNoBranch :
          /\ tracking[n] # None /\ round.head \in Past(tracking[n])
          /\ n \notin OwnRefs(round.branch, Remotes)
    BY <2>1 DEF Containing, OwnCopies
  <2>3. tracking[n] \in Commits /\ \E r \in Elsewhere(round.branch) : Held(tracking[n], r)
    BY <2>2, CopyOfAnother DEF EvidenceInv
  <2>4. PICK r \in Elsewhere(round.branch) : Held(tracking[n], r)
    BY <2>3
  <2>5. remote[r] \in Commits
    BY <2>4, RemoteTypes DEF Elsewhere, Held
  <2>6. Held(round.head, r)
    BY <2>2, <2>4, <2>5 DEF History, Held
  <2>7. round.head \in Commits
    BY <1>2, <2>1
  <2>8. Shows(x, round.head, round.branch)
    BY <2>6, <2>7
  <2> HIDE DEF Shows
  <2>9. QED
    BY <1>4, <2>1, <2>8
<1>7. CASE CompareTrees /\ ~round.merged
  <2>1. /\ round.pc = "tree" /\ Keeps /\ tracking[round.target] # None
        /\ round.tree = commits[tracking[round.target]].tree
    BY <1>1, <1>7, CompareTreesSummary
  <2>2. round.whole /\ round.pc \in Comparing /\ round.target \in Listed /\ round.head \in Commits
    BY <1>1, <1>2, <2>1 DEF Keeps, Comparing, EvidenceInv, ListOfBranches
  <2>3. PICK t \in Commits : MergeOf(round.tree, t, round.head, round.branch)
    BY <2>1, <2>2 DEF EvidenceInv, TreeOfMerge, MergeOf
  <2>4. PICK c \in Commits : c = tracking[round.target] /\ \E r \in Elsewhere(round.branch) : Held(c, r)
    BY <2>1, <2>2, ComparedIsAnother DEF EvidenceInv
  <2>5. PICK q \in Elsewhere(round.branch) : Held(t, q)
    BY <2>3 DEF MergeOf
  <2>6. PICK base : base \in MergeBases(t, round.head) /\ base = CHOOSE b \in MergeBases(t, round.head) : TRUE
    BY <2>2 DEF History
  <2>7. base \in Commits /\ Held(base, q)
    <3>1. base \in Past(t)
      BY <2>6 DEF MergeBases
    <3>2. remote[q] \in Commits /\ t \in Past(remote[q])
      BY <2>5, RemoteTypes DEF Elsewhere, Held
    <3>3. base \in Past(remote[q])
      BY <3>1, <3>2 DEF History
    <3>4. QED
      BY <2>5, <3>1, <3>3, CommitTypes, RemoteTypes DEF Held
  <2>8. round.tree[x] = IF Version(t, x) = Version(base, x) THEN Version(round.head, x)
                                                            ELSE Version(t, x)
    BY <2>3, <2>6 DEF MergeOf, MergedTree
  <2>9. round.tree[x] = Version(c, x)
    BY <2>1, <2>4 DEF Version
  <2>10. ASSUME Version(t, x) = Version(base, x)
         PROVE  Shows(x, round.head, round.branch)
    BY <2>4, <2>8, <2>9, <2>10
  <2>11. ASSUME Version(t, x) # Version(base, x)
         PROVE  Shows(x, round.head, round.branch)
    <3>1. Version(t, x) = Version(round.head, x) \/ Version(round.head, x) = Version(base, x)
      BY <2>3, <2>6, <2>11 DEF MergeOf, Conflicts
    <3>2. QED
      BY <2>5, <2>7, <3>1
  <2>12. Shows(x, round.head, round.branch)
    BY <2>10, <2>11
  <2> HIDE DEF Shows
  <2>13. QED
    BY <1>4, <2>1, <2>12 DEF Keeps
<1>8. \/ round' = round
      \/ CheckAncestry /\ ~round.merged
      \/ CompareTrees /\ ~round.merged
  <2>1. CASE World \/ UNCHANGED vars
    BY <2>1, WorldStep DEF WorldSummary, plugin, vars
  <2>2. CASE Others \/ Round \/ Restart
    <3>1. round.merged => round.pc = "judged"
      BY DEF SilentInv, ListComplete
    <3>2. ~Anew /\ ~ReadBranch
      BY <1>1, <3>1, ReadBranchSummary DEF Anew
    <3>3. ASSUME NEW pc \in {"fetch", "counts"}, round.pc = "integration"
          PROVE  ~FillIntegration(pc)
      BY <1>1, <1>2, <3>1, <3>3, FillSummary
    <3>4. ~(Keeps /\ round.pc # "judged" /\ round'.pc \in Earlier /\ round'.merged = round.merged)
      BY <1>1, <3>1
    <3>5. CheckAncestry => ~round.merged
      BY <3>1 DEF CheckAncestry
    <3>6. CompareTrees \/ NoneLeft \/ (\E n \in TrackingNames : MergeTarget(n))
            => CompareTrees /\ ~round.merged
      BY <1>1, <3>1, ComparingStep DEF Comparing
    <3>7. QED
      BY <2>2, <3>2, <3>3, <3>4, <3>5, <3>6, JudgingSteps
  <2>3. QED
    BY <2>1, <2>2 DEF Next
<1>9. QED
  BY <1>5, <1>6, <1>7, <1>8

LEMMA FirstEvidence == Init => EvidenceInv
<1> SUFFICES ASSUME Init PROVE EvidenceInv
  OBVIOUS
<1>1. CopiesOfBranches
  <2> SUFFICES ASSUME NEW n \in TrackingNames \ FromNoBranch, tracking[n] # None
               PROVE  \E r \in Branches : CopyOf(n, r)
    BY DEF CopiesOfBranches
  <2>1. default \in Branches /\ default \in RemoteRefs /\ repo \in Repos
    BY DEF Init, Branches, BranchesOf, RefsOf
  <2>2. n \in Copies(default) /\ tracking[n] = 1
    BY DEF Init
  <2>3. <<repo, default, n>> \in Own
    BY <2>1, <2>2, WrittenForBranch DEF Copies
  <2>4. remote[default] = 1 /\ commits[1].past = {1}
    BY <2>1 DEF Init
  <2>5. CopyOf(n, default)
    BY <2>2, <2>3, <2>4 DEF CopyOf, Held, Past, None
  <2>6. QED
    BY <2>1, <2>5
<1>2. ListOfBranches /\ UpstreamsOfConfig /\ TreeOfMerge /\ Evidence
  BY DEF Init, Idle, ListOfBranches, UpstreamsOfConfig, TreeOfMerge, Evidence
<1>3. QED
  BY <1>1, <1>2 DEF EvidenceInv

(* merged never says of work that is only in this branch that it is done, for  *)
(* any refspecs, mergeTargets and histories, and however the round interleaves *)
(* with fetches, pushes, merges and switches: a tracking ref that is not known *)
(* to come from no branch, nor is the branch's own, has what another branch    *)
(* had; and the tree that a comparison finds again in a target that moved      *)
(* meanwhile is made of what other branches had (judge.go:103-139,             *)
(* inspect.go:259-300).                                                        *)
THEOREM MergedIsElsewhere ==
  ASSUME ToldApart
  PROVE  Spec => []NothingOnlyHere
<1>1. Types /\ History /\ SilentInv /\ EvidenceInv /\ [Next]_vars => EvidenceInv'
  BY CopiesStep, ListOfBranchesStep, UpstreamsStep, TreeOfMergeStep, EvidenceStep
     DEF EvidenceInv, SilentInv
<1>2. EvidenceInv => NothingOnlyHere
  BY DEF EvidenceInv, Evidence, NothingOnlyHere, Whole, Held
<1>3. QED
  BY <1>1, <1>2, FirstEvidence, AlwaysTypes, AlwaysSilent, PTL DEF Spec
===============================================================================
