-------------------------- MODULE ScreenSessionProofs -------------------------
(* The terminal is given back however the process ends: TerminalModes for any  *)
(* set of workers, and ScreenSession as one of its uses, whatever its readers  *)
(* of keys do meanwhile.  And what they read is what was pressed: the bytes of *)
(* the presses may be cut anywhere, which rests on what ParseKeys does with any*)
(* number of them.                                                             *)
EXTENDS ScreenSession, SequenceTheorems, NaturalsInduction, WellFoundedInduction,
        TLAPS

(* Until watchSignals nobody but the main goroutine runs.                      *)
Alone ==
    /\ pc[Main] = "open" => modes = {}
    /\ pc[Main] \in {"open", "draw", "watch"} =>
           /\ \A t \in Threads \ {Main} : pc[t] = "none"
           /\ closer = Nobody /\ step = "stop"

(* What Close has passed has been given back, or was refused.                  *)
GivenBack ==
    /\ step \in {"screen", "closed"} /\ "input" \in modes => "input" \in refused
    /\ step = "closed" /\ "screen" \in modes => "screen" \in refused

IInv == Alone /\ GivenBack /\ RestoredAtEnd

(* Every step keeps the types.                                                 *)
LEMMA TypeStep ==
    ASSUME TypeOK, [Next]_vars
    PROVE  TypeOK'
<1> USE ThreadsAssumption DEF Threads, Main, Watcher
<1>1. CASE EnterRaw
  BY <1>1 DEF TypeOK, Modes, Places, Goto, EnterRaw
<1>2. CASE OpenFails
  BY <1>2 DEF TypeOK, Modes, Places, End, OpenFails
<1>3. CASE EnterScreen
  BY <1>3 DEF TypeOK, Modes, Places, Goto, EnterScreen
<1>4. CASE EnterScreenFails
  BY <1>4 DEF TypeOK, Modes, Places, End, EnterScreenFails
<1>5. CASE WatchSignals
  BY <1>5 DEF TypeOK, Modes, Places, WatchSignals
<1>6. ASSUME NEW w \in Workers, Go(w) PROVE TypeOK'
  BY <1>6 DEF TypeOK, Modes, Places, Goto, Go
<1>7. ASSUME NEW w \in Workers, Finish(w) PROVE TypeOK'
  BY <1>7 DEF TypeOK, Modes, Places, Goto, Finish
<1>8. ASSUME NEW w \in Workers, Panic(w) PROVE TypeOK'
  BY <1>8 DEF TypeOK, Modes, Places, Goto, Panic
<1>9. CASE LeaveLoop
  BY <1>9 DEF TypeOK, Modes, Places, Goto, LeaveLoop
<1>10. ASSUME NEW t \in Threads, EnterClose(t) PROVE TypeOK'
  BY <1>10 DEF TypeOK, Modes, Places, EnterClose
<1>11. ASSUME NEW t \in Threads, StopSignals(t) PROVE TypeOK'
  BY <1>11 DEF TypeOK, Modes, Places, Closing, StopSignals
<1>12. ASSUME NEW t \in Threads, RestoreInput(t) PROVE TypeOK'
  BY <1>12 DEF TypeOK, Modes, Places, Closing, GiveBack, RestoreInput
<1>13. ASSUME NEW t \in Threads, LeaveScreen(t) PROVE TypeOK'
  BY <1>13 DEF TypeOK, Modes, Places, Closing, GiveBack, LeaveScreen
<1>14. ASSUME NEW t \in Threads, PipeBreaks(t) PROVE TypeOK'
  BY <1>14 DEF TypeOK, Modes, Places, End, Closing, PipeBreaks
<1>15. ASSUME NEW t \in Threads, AfterClose(t) PROVE TypeOK'
  BY <1>15 DEF TypeOK, Modes, Places, End, AfterClose
<1>16. CASE Strike
  BY <1>16 DEF TypeOK, Modes, Places, Strike
<1>17. CASE WatcherWakes
  BY <1>17 DEF TypeOK, Modes, Places, Goto, WatcherWakes
<1>18. CASE WatcherEnds
  BY <1>18 DEF TypeOK, Modes, Places, Goto, WatcherEnds
<1>19. CASE UNCHANGED vars
  BY <1>19 DEF TypeOK, Modes, Places, vars
<1> QED
  BY <1>1, <1>2, <1>3, <1>4, <1>5, <1>6, <1>7, <1>8, <1>9, <1>10, <1>11,
     <1>12, <1>13, <1>14, <1>15, <1>16, <1>17, <1>18, <1>19 DEF Next,
     Opening, CloseStep, Watching

(* The types of TerminalModes, for any set of workers.                         *)
THEOREM TypeCorrect == Spec => []TypeOK
<1>1. Init => TypeOK
  BY ThreadsAssumption
  DEF Init, TypeOK, Modes, Places, Threads, Main, Watcher
<1>2. TypeOK /\ [Next]_vars => TypeOK'
  BY TypeStep
<1> QED
  BY <1>1, <1>2, PTL DEF Spec

(* Every step keeps the invariant.                                             *)
LEMMA GiveBackStep ==
    ASSUME TypeOK, IInv, alive, Next
    PROVE  IInv'
<1> USE ThreadsAssumption DEF Threads, Main, Watcher
<1>1. CASE EnterRaw
  BY <1>1 DEF TypeOK, Modes, Places, IInv, Alone,
     GivenBack, RestoredAtEnd, Goto, EnterRaw
<1>2. CASE OpenFails
  BY <1>2 DEF TypeOK, Modes, Places, IInv, Alone,
     GivenBack, RestoredAtEnd, End, OpenFails
<1>3. CASE EnterScreen
  BY <1>3 DEF TypeOK, Modes, Places, IInv, Alone,
     GivenBack, RestoredAtEnd, Goto, EnterScreen
<1>4. CASE EnterScreenFails
  BY <1>4 DEF TypeOK, Modes, Places, IInv, Alone,
     GivenBack, RestoredAtEnd, End, EnterScreenFails
<1>5. CASE WatchSignals
  BY <1>5 DEF TypeOK, Modes, Places, IInv, Alone,
     GivenBack, RestoredAtEnd, WatchSignals
<1>6. ASSUME NEW w \in Workers, Go(w) PROVE IInv'
  BY <1>6 DEF TypeOK, Modes, Places, IInv, Alone,
     GivenBack, RestoredAtEnd, Goto, Go
<1>7. ASSUME NEW w \in Workers, Finish(w) PROVE IInv'
  BY <1>7 DEF TypeOK, Modes, Places, IInv, Alone,
     GivenBack, RestoredAtEnd, Goto, Finish
<1>8. ASSUME NEW w \in Workers, Panic(w) PROVE IInv'
  BY <1>8 DEF TypeOK, Modes, Places, IInv, Alone,
     GivenBack, RestoredAtEnd, Goto, Panic
<1>9. CASE LeaveLoop
  BY <1>9 DEF TypeOK, Modes, Places, IInv, Alone,
     GivenBack, RestoredAtEnd, Goto, LeaveLoop
<1>10. ASSUME NEW t \in Threads, EnterClose(t) PROVE IInv'
  BY <1>10 DEF TypeOK, Modes, Places, IInv, Alone,
     GivenBack, RestoredAtEnd, EnterClose
<1>11. ASSUME NEW t \in Threads, StopSignals(t) PROVE IInv'
  BY <1>11 DEF TypeOK, Modes, Places, IInv, Alone,
     GivenBack, RestoredAtEnd, Closing, StopSignals
<1>12. ASSUME NEW t \in Threads, RestoreInput(t) PROVE IInv'
  BY <1>12 DEF TypeOK, Modes, Places, IInv, Alone,
     GivenBack, RestoredAtEnd, Closing, GiveBack, RestoreInput
<1>13. ASSUME NEW t \in Threads, LeaveScreen(t) PROVE IInv'
  BY <1>13 DEF TypeOK, Modes, Places, IInv, Alone,
     GivenBack, RestoredAtEnd, Closing, GiveBack, LeaveScreen
<1>14. ASSUME NEW t \in Threads, PipeBreaks(t) PROVE IInv'
  BY <1>14 DEF TypeOK, Modes, Places, IInv, Alone,
     GivenBack, RestoredAtEnd, End, Closing, PipeBreaks
<1>15. ASSUME NEW t \in Threads, AfterClose(t) PROVE IInv'
  BY <1>15 DEF TypeOK, Modes, Places, IInv, Alone,
     GivenBack, RestoredAtEnd, End, AfterClose
<1>16. CASE Strike
  BY <1>16 DEF TypeOK, Modes, Places, IInv, Alone,
     GivenBack, RestoredAtEnd, Strike
<1>17. CASE WatcherWakes
  BY <1>17 DEF TypeOK, Modes, Places, IInv, Alone,
     GivenBack, RestoredAtEnd, Goto, WatcherWakes
<1>18. CASE WatcherEnds
  BY <1>18 DEF TypeOK, Modes, Places, IInv, Alone,
     GivenBack, RestoredAtEnd, Goto, WatcherEnds
<1> QED
  BY <1>1, <1>2, <1>3, <1>4, <1>5, <1>6, <1>7, <1>8, <1>9, <1>10, <1>11,
     <1>12, <1>13, <1>14, <1>15, <1>16, <1>17, <1>18
  DEF Next,
     Opening, CloseStep, Watching

(* What is given back, at all times.                                           *)
LEMMA GivenBackAlways == Spec => []IInv
<1>1. Init => IInv
  BY ThreadsAssumption
  DEF Init, IInv, Alone, GivenBack, RestoredAtEnd, Threads, Main, Watcher
<1>2. TypeOK /\ IInv /\ [Next]_vars => IInv'
  <2> SUFFICES ASSUME TypeOK, IInv, [Next]_vars PROVE IInv'
    OBVIOUS
  <2>1. CASE Next
    BY <2>1, GiveBackStep DEF Next
  <2>2. CASE UNCHANGED vars
    BY <2>2 DEF vars, IInv, Alone, GivenBack, RestoredAtEnd
  <2> QED
    BY <2>1, <2>2
<1> QED
  BY <1>1, <1>2, TypeCorrect, PTL DEF Spec

(* Run, Go and watchSignals: the terminal is back when the process is gone,    *)
(* whichever goroutine closed it and whoever panicked meanwhile.               *)
THEOREM TerminalGivenBack == Spec => []RestoredAtEnd
<1>1. IInv => RestoredAtEnd
  BY DEF IInv
<1> QED
  BY <1>1, GivenBackAlways, PTL

-------------------------------------------------------------------------------
(* Whatever a screen does with its keys, it does to the terminal what Open,    *)
(* Go, Run, Close and watchSignals do, or nothing.                             *)
LEMMA SessionStep == [SessionNext]_allVars => [Next]_vars
<1> SUFFICES ASSUME [SessionNext]_allVars PROVE [Next]_vars
  OBVIOUS
<1> USE PressesAssumption
<1>1. CASE UNCHANGED allVars
  BY <1>1 DEF allVars
<1>2. CASE SessionNext
  <2>1. alive
    BY <1>2 DEF SessionNext
  <2>2. CASE \/ \E p \in Presses : Press(p)
             \/ HangUp \/ Resize \/ Read \/ TakeChunk \/ FlushFires \/ TakeResize
             \/ Emit \/ TakeEnd \/ TakeKey
    BY <2>2 DEF Press, HangUp, Resize, Read, TakeChunk, FlushFires, TakeResize, Emit,
                TakeEnd, TakeKey
  <2>3. CASE ReaderEnds \/ KeyerEnds
    BY <2>1, <2>3 DEF ReaderEnds, KeyerEnds, Next
  <2>4. CASE LeaveScreenLoop
    BY <2>1, <2>4 DEF LeaveScreenLoop, Next
  <2>5. CASE StartKeys
    BY <2>1, <2>5 DEF StartKeys, Next
  <2>6. CASE Work
    BY <2>1, <2>6 DEF Work, Next
  <2>7. CASE Open \/ Close \/ Signaled \/ Watch
    BY <2>1, <2>7 DEF Open, Close, Signaled, Watch, Next
  <2> QED
    BY <1>2, <2>2, <2>3, <2>4, <2>5, <2>6, <2>7 DEF SessionNext, ReaderStep, KeyerStep
<1> QED
  BY <1>1, <1>2

(* A screen's session implements TerminalModes, the two goroutines that read   *)
(* its keys being two of the workers.                                          *)
THEOREM SessionUsesTerminal == SessionSpec => Spec
<1>1. SessionInit => Init
  BY DEF SessionInit
<1> QED
  BY <1>1, SessionStep, PTL DEF SessionSpec, Spec

(* A screen gives the terminal back at its end, whatever was typed and read    *)
(* and in whichever goroutine it ended.                                        *)
THEOREM SessionGivesBack == SessionSpec => []RestoredAtEnd
BY SessionUsesTerminal, TerminalGivenBack, PTL

-------------------------------------------------------------------------------
(* Concatenation, for sequences that are named.                                *)
Triple(S, s, t, u) == s \in Seq(S) /\ t \in Seq(S) /\ u \in Seq(S)

Associate(s, t, u) == (s \o t) \o u = s \o (t \o u)

(* Concatenation is associative.                                               *)
LEMMA Associates ==
    \A S, s, t, u : Triple(S, s, t, u) => Associate(s, t, u)
  BY ConcatAssociative DEF Triple, Associate
-------------------------------------------------------------------------------
(* A set of naturals has a least one: induction.                               *)
LEMMA LeastThere ==
    ASSUME NEW S \in SUBSET Nat, S # {}
    PROVE  \E m \in S : \A n \in S : m <= n
<1> DEFINE R == {ss \in Nat \X Nat : ss[1] < ss[2]}
<1>1. IsWellFoundedOn(R, Nat)
  <2>1. R = OpToRel(<, Nat)
    BY Zenon DEF OpToRel
  <2> QED
    BY <2>1, NatLessThanWellFounded, Zenon
<1>2. \A n, m \in Nat : n < m => <<n, m>> \in R
  OBVIOUS
<1> HIDE DEF R
<1>3. PICK m \in S : \A n \in S : ~ (<<n, m>> \in R)
  BY <1>1, WFMin
<1>4. ASSUME NEW n \in S PROVE m <= n
  <2>1. n \in Nat /\ m \in Nat
    OBVIOUS
  <2>2. ~ (n < m)
    BY <1>2, <1>3, <2>1, Zenon
  <2> QED
    BY <2>1, <2>2
<1> QED
  BY <1>3, <1>4, Zenon

(* A set that holds 0, and one more than what it holds, is all of them.        *)
LEMMA Upwards ==
    ASSUME NEW S \in SUBSET Nat, 0 \in S, \A n \in S : n + 1 \in S
    PROVE  S = Nat
<1> SUFFICES ASSUME Nat \ S # {} PROVE FALSE
  OBVIOUS
<1>1. PICK m \in Nat \ S : \A n \in Nat \ S : m <= n
  BY LeastThere
<1>2. m - 1 \in Nat /\ m - 1 < m /\ (m - 1) + 1 = m
  BY <1>1
<1>3. m - 1 \in S
  BY <1>1, <1>2
<1> QED
  BY <1>1, <1>2, <1>3

-------------------------------------------------------------------------------
(* FlattenSeq.                                                                 *)
Flattens(f, seqs) ==
    f = [i \in 1 .. Len(seqs) |-> IF i = 1 THEN seqs[i] ELSE f[i - 1] \o seqs[i]]

(* There is a function that concatenates upwards, as FlattenSeq does.          *)
LEMMA FlattenExists ==
    ASSUME NEW S, NEW seqs \in Seq(Seq(S))
    PROVE  \E f \in [1 .. Len(seqs) -> Seq(S)] : Flattens(f, seqs)
<1> DEFINE Upto(m, f) ==
               f = [i \in 1 .. m |-> IF i = 1 THEN seqs[i] ELSE f[i - 1] \o seqs[i]]
           T == {m \in Nat : m <= Len(seqs) =>
                                 \E f \in [1 .. m -> Seq(S)] : Upto(m, f)}
<1>1. 0 \in T
  <2> DEFINE f == [i \in 1 .. 0 |-> <<>>]
  <2>1. f \in [1 .. 0 -> Seq(S)]
    OBVIOUS
  <2>2. Upto(0, f)
    OBVIOUS
  <2> HIDE DEF f, Upto
  <2> QED
    BY <2>1, <2>2
<1>2. ASSUME NEW m \in T PROVE m + 1 \in T
  <2> HIDE DEF Upto
  <2>1. SUFFICES ASSUME m + 1 <= Len(seqs)
                 PROVE  \E f \in [1 .. m + 1 -> Seq(S)] : Upto(m + 1, f)
    OBVIOUS
  <2>a. m \in Nat /\ m <= Len(seqs)
    BY <2>1, LenProperties
  <2>2. PICK f \in [1 .. m -> Seq(S)] : Upto(m, f)
    BY <2>a
  <2> DEFINE g == [i \in 1 .. m + 1 |->
                       IF i = m + 1
                       THEN IF i = 1 THEN seqs[i] ELSE f[i - 1] \o seqs[i]
                       ELSE f[i]]
  <2>3. seqs[m + 1] \in Seq(S)
    BY <2>1, <2>a, ElementOfSeq
  <2>4. g \in [1 .. m + 1 -> Seq(S)]
    <3>1. m + 1 # 1 => f[m] \in Seq(S)
      BY <2>a
    <3>2. m + 1 # 1 => f[m] \o seqs[m + 1] \in Seq(S)
      BY <2>3, <3>1, ConcatProperties
    <3>3. ASSUME NEW i \in 1 .. m + 1 PROVE g[i] \in Seq(S)
      BY <2>a, <2>3, <3>2
    <3> QED
      BY <3>3
  <2>5. \A i \in 1 .. m + 1 :
            g[i] = IF i = 1 THEN seqs[i] ELSE g[i - 1] \o seqs[i]
    <3> TAKE i \in 1 .. m + 1
    <3>1. CASE i = m + 1
      <4>1. g[i] = IF i = 1 THEN seqs[i] ELSE f[i - 1] \o seqs[i]
        BY <3>1
      <4>2. i # 1 => g[i - 1] = f[i - 1]
        BY <2>a, <3>1
      <4> HIDE DEF g
      <4> QED
        BY <4>1, <4>2
    <3>2. CASE i # m + 1
      <4>1. i \in 1 .. m /\ (i # 1 => i - 1 \in 1 .. m)
        BY <2>a, <3>2
      <4>2. f[i] = IF i = 1 THEN seqs[i] ELSE f[i - 1] \o seqs[i]
        BY <2>2, <4>1 DEF Upto
      <4>3. g[i] = f[i] /\ (i # 1 => g[i - 1] = f[i - 1])
        BY <2>a, <3>2, <4>1
      <4> HIDE DEF g
      <4> QED
        BY <4>2, <4>3
    <3> QED
      BY <3>1, <3>2
  <2>6. Upto(m + 1, g)
    <3>1. g = [i \in 1 .. m + 1 |-> g[i]]
      OBVIOUS
    <3> HIDE DEF g
    <3> QED
      BY <2>5, <3>1 DEF Upto
  <2> HIDE DEF g
  <2> QED
    BY <2>4, <2>6
<1> HIDE DEF T, Upto
<1>3. T = Nat
  <2>1. T \in SUBSET Nat
    BY DEF T
  <2> QED
    BY <1>1, <1>2, <2>1, Upwards
<1>4. Len(seqs) \in T
  BY <1>3, LenProperties
<1>5. \E f \in [1 .. Len(seqs) -> Seq(S)] : Upto(Len(seqs), f)
  BY <1>4 DEF T
<1> QED
  BY <1>5 DEF Flattens, Upto

(* Two that agree on what they flatten are one.                                *)
FlattensUpto(f, seqs, n) ==
    \A i \in 1 .. n : f[i] = IF i = 1 THEN seqs[i] ELSE f[i - 1] \o seqs[i]

LEMMA FlattenAgree ==
    ASSUME NEW f, NEW g, NEW seqs, NEW others, NEW n \in Nat,
           FlattensUpto(f, seqs, n), FlattensUpto(g, others, n),
           \A i \in 1 .. n : seqs[i] = others[i]
    PROVE  \A i \in 1 .. n : f[i] = g[i]
<1> DEFINE T == {m \in Nat : m \in 1 .. n => f[m] = g[m]}
<1>1. 0 \in T
  OBVIOUS
<1>2. ASSUME NEW m \in T PROVE m + 1 \in T
  <2>1. CASE m + 1 \in 1 .. n /\ m = 0
    BY <2>1 DEF FlattensUpto
  <2>2. CASE m + 1 \in 1 .. n /\ m # 0
    <3>1. m \in 1 .. n
      BY <2>2
    <3>2. f[m] = g[m]
      BY <3>1
    <3>3. f[m + 1] = f[m] \o seqs[m + 1] /\ g[m + 1] = g[m] \o others[m + 1]
      <4>1. m + 1 # 1 /\ (m + 1) - 1 = m
        BY <2>2
      <4> QED
        BY <2>2, <4>1 DEF FlattensUpto
    <3> QED
      <4>1. seqs[m + 1] = others[m + 1]
        BY <2>2
      <4>2. f[m + 1] = g[m + 1]
        BY <3>2, <3>3, <4>1, Zenon
      <4> HIDE DEF T
      <4> QED
        BY <4>2 DEF T
  <2> QED
    BY <2>1, <2>2
<1> HIDE DEF T
<1>3. T = Nat
  <2>1. T \in SUBSET Nat
    BY DEF T
  <2> QED
    BY <1>1, <1>2, <2>1, Upwards
<1> QED
  BY <1>3 DEF T

(* FlattenSeq chooses that function, and gives its last value.                 *)
LEMMA FlattenIs ==
    ASSUME NEW S, NEW seqs \in Seq(Seq(S)), seqs # <<>>
    PROVE  \E f \in [1 .. Len(seqs) -> Seq(S)] :
               Flattens(f, seqs) /\ FlattenSeq(seqs) = f[Len(seqs)]
<1> DEFINE F == CHOOSE f : Flattens(f, seqs)
<1>1. PICK f \in [1 .. Len(seqs) -> Seq(S)] : Flattens(f, seqs)
  BY FlattenExists
<1>2. Flattens(F, seqs)
  BY <1>1
<1>3. Len(seqs) \in Nat \ {0}
  BY EmptySeq
<1>4. FlattenSeq(seqs) = F[Len(seqs)]
  BY <1>3 DEF FlattenSeq, Flattens
<1> HIDE DEF F
<1>5. F[Len(seqs)] = f[Len(seqs)]
  <2>1. FlattensUpto(f, seqs, Len(seqs)) /\ FlattensUpto(F, seqs, Len(seqs))
    BY <1>1, <1>2 DEF Flattens, FlattensUpto
  <2>2. \A i \in 1 .. Len(seqs) : f[i] = F[i]
    BY <1>3, <2>1, FlattenAgree
  <2> QED
    BY <1>3, <2>2
<1> QED
  BY <1>1, <1>4, <1>5

(* What FlattenSeq gives for none, and with one more.                          *)
LEMMA FlattenNone == FlattenSeq(<<>>) = <<>>
  BY DEF FlattenSeq

(* What FlattenSeq gives is a sequence of the same elements.                   *)
LEMMA FlattenType ==
    ASSUME NEW S, NEW seqs \in Seq(Seq(S))
    PROVE  FlattenSeq(seqs) \in Seq(S)
<1>1. CASE seqs = <<>>
  BY <1>1, FlattenNone, EmptySeq
<1>2. CASE seqs # <<>>
  <2>1. Len(seqs) \in 1 .. Len(seqs)
    BY <1>2, EmptySeq
  <2>2. PICK f \in [1 .. Len(seqs) -> Seq(S)] : FlattenSeq(seqs) = f[Len(seqs)]
    BY <1>2, FlattenIs
  <2> QED
    BY <2>1, <2>2
<1> QED
  BY <1>1, <1>2

(* One more sequence comes at the end.                                         *)
LEMMA FlattenAppend ==
    ASSUME NEW S, NEW seqs \in Seq(Seq(S)), NEW x \in Seq(S)
    PROVE  FlattenSeq(Append(seqs, x)) = FlattenSeq(seqs) \o x
<1> DEFINE more == Append(seqs, x)
           n == Len(seqs)
<1>1. more \in Seq(Seq(S)) /\ more # <<>>
  BY AppendProperties
<1>2. n \in Nat /\ Len(more) = n + 1
  BY AppendProperties, LenProperties
<1>3. \A i \in 1 .. n : more[i] = seqs[i]
  BY AppendProperties
<1>4. more[n + 1] = x
  BY AppendProperties
<1> HIDE DEF more
<1>5. PICK g \in [1 .. Len(more) -> Seq(S)] :
               Flattens(g, more) /\ FlattenSeq(more) = g[Len(more)]
  BY <1>1, FlattenIs
<1>6. FlattensUpto(g, more, n + 1)
  BY <1>2, <1>5 DEF Flattens, FlattensUpto
<1>7. CASE seqs = <<>>
  <2>1. n = 0
    BY <1>7
  <2>2. g[1] = more[1]
    BY <1>6, <2>1 DEF FlattensUpto
  <2>3. FlattenSeq(more) = x
    BY <1>2, <1>4, <1>5, <2>1, <2>2
  <2>4. <<>> \o x = x
    BY ConcatEmptySeq
  <2> QED
    BY <1>7, <2>3, <2>4, FlattenNone DEF more
<1>8. CASE seqs # <<>>
  <2>1. PICK f \in [1 .. n -> Seq(S)] :
                 Flattens(f, seqs) /\ FlattenSeq(seqs) = f[n]
    BY <1>8, FlattenIs
  <2> HIDE DEF n
  <2>2. n \in Nat \ {0}
    BY <1>8, EmptySeq DEF n
  <2>3. FlattensUpto(f, seqs, n)
    BY <2>1 DEF Flattens, FlattensUpto, n
  <2>4. FlattensUpto(g, more, n)
    BY <1>6, <2>2 DEF FlattensUpto
  <2>5. \A i \in 1 .. n : g[i] = f[i]
    <3>1. n \in Nat
      BY <2>2
    <3>2. \A i \in 1 .. n : more[i] = seqs[i]
      BY <1>3 DEF n
    <3> QED
      BY <2>3, <2>4, <3>1, <3>2, FlattenAgree, SMTT(40)
  <2>6. g[n + 1] = g[n] \o x
    <3>1. n + 1 # 1 /\ (n + 1) - 1 = n /\ n + 1 \in 1 .. n + 1
      BY <2>2
    <3> QED
      BY <1>4, <1>6, <3>1 DEF FlattensUpto
  <2>7. g[n] = f[n]
    BY <2>2, <2>5
  <2>8. FlattenSeq(more) = f[n] \o x
    BY <1>2, <1>5, <2>6, <2>7
  <2> QED
    BY <2>1, <2>8, Zenon DEF more
<1> QED
  BY <1>7, <1>8

-------------------------------------------------------------------------------
(* AllOf, of a table and a sequence.                                           *)
Table(table, D, S) == table \in [D -> Seq(S)]

Entries(table, ps) == [i \in DOMAIN ps |-> table[ps[i]]]

(* The entries of a table for a sequence.                                      *)
LEMMA EntriesType ==
    ASSUME NEW D, NEW S, NEW table, Table(table, D, S), NEW ps \in Seq(D)
    PROVE  /\ Entries(table, ps) \in Seq(Seq(S))
           /\ Len(Entries(table, ps)) = Len(ps)
<1>1. Len(ps) \in Nat /\ DOMAIN ps = 1 .. Len(ps)
  BY LenProperties
<1>2. \A i \in 1 .. Len(ps) : table[ps[i]] \in Seq(S)
  BY ElementOfSeq DEF Table
<1>3. Entries(table, ps) \in [1 .. Len(ps) -> Seq(S)]
  BY <1>1, <1>2 DEF Entries
<1> QED
  BY <1>1, <1>3

(* No press, nothing sent or meant.                                            *)
LEMMA AllOfNone ==
    ASSUME NEW D, NEW S, NEW table, Table(table, D, S)
    PROVE  AllOf(table, <<>>) = <<>>
<1>1. <<>> \in Seq(D) /\ Len(<<>>) = 0
  BY EmptySeq
<1>2. Entries(table, <<>>) \in Seq(Seq(S)) /\ Len(Entries(table, <<>>)) = 0
  <2>1. \A ps \in Seq(D) : /\ Entries(table, ps) \in Seq(Seq(S))
                           /\ Len(Entries(table, ps)) = Len(ps)
    BY EntriesType
  <2> QED
    BY <1>1, <2>1, Zenon
<1>3. Entries(table, <<>>) = <<>>
  BY <1>2, EmptySeq
<1> QED
  BY <1>3, FlattenNone, Zenon DEF AllOf, Entries

(* All the entries of a sequence, one after the other.                         *)
LEMMA AllOfType ==
    ASSUME NEW D, NEW S, NEW table, Table(table, D, S), NEW ps \in Seq(D)
    PROVE  AllOf(table, ps) \in Seq(S)
<1>1. Entries(table, ps) \in Seq(Seq(S))
  BY EntriesType
<1>2. FlattenSeq(Entries(table, ps)) \in Seq(S)
  BY <1>1, FlattenType
<1> QED
  BY <1>2 DEF AllOf, Entries

(* One more gives its own entry at the end.                                    *)
LEMMA AllOfAppend ==
    ASSUME NEW D, NEW S, NEW table, Table(table, D, S), NEW ps \in Seq(D),
           NEW p \in D
    PROVE  AllOf(table, Append(ps, p)) = AllOf(table, ps) \o table[p]
<1> DEFINE more == Append(ps, p)
           seqs == Entries(table, ps)
           longer == Entries(table, more)
           n == Len(ps)
<1>1. /\ more \in Seq(D) /\ Len(more) = n + 1 /\ n \in Nat
      /\ DOMAIN ps = 1 .. n /\ DOMAIN more = 1 .. n + 1
  BY AppendProperties, LenProperties
<1>2. (\A i \in 1 .. n : more[i] = ps[i]) /\ more[n + 1] = p
  BY AppendProperties
<1>3. table[p] \in Seq(S)
  BY DEF Table
<1>4. seqs \in Seq(Seq(S)) /\ Len(seqs) = n
  BY EntriesType
<1> HIDE DEF more, n
<1>5. longer \in Seq(Seq(S)) /\ Len(longer) = n + 1
  BY <1>1, EntriesType
<1>6. /\ \A i \in 1 .. n : seqs[i] = table[ps[i]] /\ longer[i] = table[ps[i]]
      /\ longer[n + 1] = table[p]
  BY <1>1, <1>2 DEF Entries
<1> HIDE DEF seqs, longer
<1>7. longer = Append(seqs, table[p])
  <2> DEFINE other == Append(seqs, table[p])
  <2>1. /\ other \in Seq(Seq(S)) /\ Len(other) = n + 1
        /\ \A i \in 1 .. n : other[i] = seqs[i]
        /\ other[n + 1] = table[p]
    BY <1>3, <1>4, AppendProperties
  <2> HIDE DEF other
  <2>2. \A i \in 1 .. Len(longer) : longer[i] = other[i]
    <3>1. ASSUME NEW i \in 1 .. n + 1 PROVE longer[i] = other[i]
      <4>1. i = n + 1 \/ i \in 1 .. n
        BY <1>1
      <4> QED
        BY <1>6, <2>1, <4>1
    <3> QED
      BY <1>5, <3>1
  <2>3. longer = other
    BY <1>5, <2>1, <2>2, SeqEqual
  <2> QED
    BY <2>3 DEF other
<1>8. FlattenSeq(longer) = FlattenSeq(seqs) \o table[p]
  BY <1>3, <1>4, <1>7, FlattenAppend
<1> QED
  BY <1>8 DEF AllOf, Entries, seqs, longer, more

(* Two sequences give what each gives.                                         *)
LEMMA AllOfConcat ==
    ASSUME NEW D, NEW S, NEW table, Table(table, D, S), NEW ps \in Seq(D),
           NEW qs \in Seq(D)
    PROVE  AllOf(table, ps \o qs) = AllOf(table, ps) \o AllOf(table, qs)
<1> DEFINE Good(rs) == AllOf(table, ps \o rs) = AllOf(table, ps) \o AllOf(table, rs)
           T == {n \in Nat : \A rs \in Seq(D) : Len(rs) = n => Good(rs)}
<1>1. 0 \in T
  <2>1. Good(<<>>)
    <3>1. ps \o <<>> = ps
      BY ConcatEmptySeq
    <3>2. AllOf(table, <<>>) = <<>>
      BY AllOfNone
    <3>3. AllOf(table, ps) \o <<>> = AllOf(table, ps)
      BY AllOfType, ConcatEmptySeq
    <3> QED
      BY <3>1, <3>2, <3>3, Zenon
  <2> HIDE DEF Good
  <2>2. \A rs \in Seq(D) : Len(rs) = 0 => rs = <<>>
    BY EmptySeq
  <2> QED
    BY <2>1, <2>2
<1>2. ASSUME NEW n \in T PROVE n + 1 \in T
  <2> HIDE DEF Good
  <2>1. ASSUME NEW rs \in Seq(D), Len(rs) = n + 1 PROVE Good(rs)
    <3>1. rs # <<>> /\ n \in Nat
      BY <2>1, EmptySeq
    <3>2. PICK us \in Seq(D), u \in D : rs = Append(us, u)
      BY <3>1, SequenceEmptyOrAppend
    <3>3. Len(us) = n
      BY <2>1, <3>2, AppendProperties, LenProperties
    <3>4. Good(us)
      BY <3>1, <3>3
    <3>5. ps \o rs = Append(ps \o us, u) /\ ps \o us \in Seq(D)
      <4>1. rs = us \o <<u>> /\ <<u>> \in Seq(D)
        BY <3>2, AppendIsConcat
      <4>2. ps \o rs = (ps \o us) \o <<u>> /\ ps \o us \in Seq(D)
        BY <4>1, ConcatAssociative, ConcatProperties
      <4> QED
        BY <4>2, AppendIsConcat
    <3>6. AllOf(table, ps \o rs) = AllOf(table, ps \o us) \o table[u]
      <4>1. \A ws \in Seq(D) :
                AllOf(table, Append(ws, u)) = AllOf(table, ws) \o table[u]
        BY AllOfAppend
      <4> QED
        BY <3>5, <4>1, Zenon
    <3>7. AllOf(table, rs) = AllOf(table, us) \o table[u]
      BY <3>2, AllOfAppend
    <3>8. /\ AllOf(table, ps) \in Seq(S) /\ AllOf(table, us) \in Seq(S)
          /\ table[u] \in Seq(S)
      BY AllOfType DEF Table
    <3>9. AllOf(table, ps \o us) = AllOf(table, ps) \o AllOf(table, us)
      BY <3>4 DEF Good
    <3>10. (AllOf(table, ps) \o AllOf(table, us)) \o table[u]
               = AllOf(table, ps) \o (AllOf(table, us) \o table[u])
      <4> DEFINE a == AllOf(table, ps)
                 b == AllOf(table, us)
                 c == table[u]
      <4>1. Triple(S, a, b, c)
        BY <3>8 DEF Triple
      <4> HIDE DEF a, b, c
      <4>2. (a \o b) \o c = a \o (b \o c)
        <5>1. Associate(a, b, c)
          BY <4>1, Associates
        <5> QED
          BY <5>1 DEF Associate
      <4> QED
        BY <4>2 DEF a, b, c
    <3> QED
      BY <3>6, <3>7, <3>9, <3>10, Zenon DEF Good
  <2>2. n + 1 \in Nat
    OBVIOUS
  <2> QED
    BY <2>1, <2>2
<1> HIDE DEF T
<1>3. T = Nat
  <2>1. T \in SUBSET Nat
    BY DEF T
  <2> QED
    BY <1>1, <1>2, <2>1, Upwards
<1>4. Len(qs) \in T
  BY <1>3, LenProperties
<1> HIDE DEF Good
<1>5. Good(qs)
  BY <1>4 DEF T
<1> QED
  BY <1>5 DEF Good

(* One alone gives its own entry.                                              *)
LEMMA AllOfOne ==
    ASSUME NEW D, NEW S, NEW table, Table(table, D, S), NEW p \in D
    PROVE  AllOf(table, <<p>>) = table[p]
<1>1. <<>> \in Seq(D) /\ Append(<<>>, p) = <<p>>
  BY EmptySeq
<1>2. AllOf(table, <<p>>) = AllOf(table, <<>>) \o table[p]
  BY <1>1, AllOfAppend
<1>3. table[p] \in Seq(S)
  BY DEF Table
<1>4. <<>> \o table[p] = table[p]
  BY <1>3, ConcatEmptySeq
<1> QED
  BY <1>2, <1>4, AllOfNone

-------------------------------------------------------------------------------
(* ParseKeys.                                                                  *)
Suffix(buf, from) == SubSeq(buf, from, Len(buf))

(* What is left of a buffer from a byte on.                                    *)
LEMMA SuffixIs ==
    ASSUME NEW S, NEW buf \in Seq(S), NEW from \in 1 .. Len(buf) + 1
    PROVE  /\ Suffix(buf, from) \in Seq(S)
           /\ Len(Suffix(buf, from)) = Len(buf) + 1 - from
           /\ \A i \in 1 .. Len(buf) + 1 - from :
                  Suffix(buf, from)[i] = buf[from + i - 1]
<1>1. Len(buf) \in Nat
  OBVIOUS
<1>2. \A i \in from .. Len(buf) : buf[i] \in S
  BY <1>1, ElementOfSeq
<1>3. SubSeq(buf, from, Len(buf)) \in Seq(S)
  BY <1>1, <1>2, SubSeqProperties
<1>4. Len(SubSeq(buf, from, Len(buf))) = Len(buf) + 1 - from
  BY <1>1, <1>2, SubSeqProperties
<1>5. \A i \in 1 .. Len(buf) - from + 1 :
          SubSeq(buf, from, Len(buf))[i] = buf[from + i - 1]
  BY <1>1, <1>2, SubSeqProperties
<1> QED
  BY <1>1, <1>3, <1>4, <1>5 DEF Suffix

(* What is left of what is left.                                               *)
LEMMA SuffixOfSuffix ==
    ASSUME NEW S, NEW buf \in Seq(S), NEW k \in 0 .. Len(buf),
           NEW from \in 1 .. Len(buf) - k + 1
    PROVE  Suffix(Suffix(buf, k + 1), from) = Suffix(buf, k + from)
<1> DEFINE s == Suffix(buf, k + 1)
           t == Suffix(s, from)
           u == Suffix(buf, k + from)
<1>1. Len(buf) \in Nat /\ k + 1 \in 1 .. Len(buf) + 1
  OBVIOUS
<1>2. /\ s \in Seq(S) /\ Len(s) = Len(buf) - k
      /\ \A i \in 1 .. Len(buf) - k : s[i] = buf[k + i]
  <2>1. /\ s \in Seq(S) /\ Len(s) = Len(buf) + 1 - (k + 1)
        /\ \A i \in 1 .. Len(buf) + 1 - (k + 1) : s[i] = buf[(k + 1) + i - 1]
    BY <1>1, SuffixIs
  <2>2. Len(buf) + 1 - (k + 1) = Len(buf) - k
    BY <1>1
  <2>3. \A i \in 1 .. Len(buf) - k : (k + 1) + i - 1 = k + i
    BY <1>1
  <2> HIDE DEF s
  <2> QED
    BY <2>1, <2>2, <2>3
<1> HIDE DEF s
<1>3. from \in 1 .. Len(s) + 1
  BY <1>1, <1>2
<1>4. /\ t \in Seq(S) /\ Len(t) = Len(s) + 1 - from
      /\ \A i \in 1 .. Len(s) + 1 - from : t[i] = s[from + i - 1]
  BY <1>2, <1>3, SuffixIs, SMTT(40)
<1>5. k + from \in 1 .. Len(buf) + 1
  BY <1>1
<1>6. /\ u \in Seq(S) /\ Len(u) = Len(buf) + 1 - (k + from)
      /\ \A i \in 1 .. Len(buf) + 1 - (k + from) : u[i] = buf[(k + from) + i - 1]
  BY <1>5, SuffixIs
<1> HIDE DEF t, u
<1>7. Len(t) = Len(u)
  BY <1>1, <1>2, <1>4, <1>6
<1>8. ASSUME NEW i \in 1 .. Len(t) PROVE t[i] = u[i]
  <2>1. /\ i \in 1 .. Len(s) + 1 - from
        /\ i \in 1 .. Len(buf) + 1 - (k + from)
        /\ from + i - 1 \in 1 .. Len(buf) - k
        /\ k + (from + i - 1) = (k + from) + i - 1
    BY <1>1, <1>2, <1>4, <1>8
  <2>2. t[i] = s[from + i - 1] /\ u[i] = buf[(k + from) + i - 1]
    BY <1>4, <1>6, <2>1
  <2>3. s[from + i - 1] = buf[k + (from + i - 1)]
    BY <1>2, <2>1
  <2> QED
    BY <2>1, <2>2, <2>3
<1> QED
  BY <1>4, <1>6, <1>7, <1>8, SeqEqual DEF s, t, u

(* parseEscape takes no more bytes than there are.                             *)
LEMMA EscapeLength ==
    ASSUME NEW seq \in Seq(Bytes), Len(seq) > 1, seq[2] \in {"[", "O"}
    PROVE  ParseEscape(seq).length \in 0 .. Len(seq)
<1> DEFINE ends == {j \in 3 .. Len(seq) : seq[j] \notin Parameters}
           final == CHOOSE j \in ends : \A other \in ends : j <= other
<1>0. Len(seq) \in Nat
  OBVIOUS
<1>1. CASE seq[2] = "O" /\ Len(seq) < 3
  BY <1>0, <1>1 DEF ParseEscape, Incomplete, Decoded
<1>2. CASE seq[2] = "O" /\ Len(seq) >= 3
  BY <1>0, <1>2 DEF ParseEscape, Incomplete, Decoded
<1>3. CASE seq[2] = "[" /\ ends = {}
  BY <1>0, <1>3 DEF ParseEscape, Incomplete, Decoded
<1>4. CASE seq[2] = "[" /\ ends # {}
  <2>1. ends \in SUBSET Nat
    OBVIOUS
  <2>2. \E j \in ends : \A other \in ends : j <= other
    <3> HIDE DEF ends
    <3> QED
      BY <1>4, <2>1, LeastThere
  <2>3. final \in ends
    <3> HIDE DEF ends
    <3> QED
      BY <2>2
  <2>4. final \in 3 .. Len(seq)
    BY <2>3
  <2>5. ParseEscape(seq) = IF seq[final] \in Letters
                           THEN Decoded(SequenceKey(seq, final), final)
                           ELSE Decoded(<<>>, final - 1)
    <3> HIDE DEF final
    <3>1. seq[2] # "O"
      BY <1>4
    <3> QED
      BY <1>4, <3>1 DEF ParseEscape, final
  <2> HIDE DEF final, ends
  <2> QED
    BY <1>0, <2>4, <2>5 DEF Decoded
<1> QED
  BY <1>0, <1>1, <1>2, <1>3, <1>4

(* Nor does any other case of ParseKeys.                                       *)
LEMMA FirstKeyLength ==
    ASSUME NEW buf \in Seq(Bytes), buf # <<>>
    PROVE  FirstKey(buf).length \in 0 .. Len(buf)
<1>1. Len(buf) \in Nat /\ Len(buf) >= 1
  BY EmptySeq
<1>2. CASE buf[1] = "ESC" /\ Len(buf) > 1 /\ buf[2] \in {"[", "O"}
  <2>1. FirstKey(buf) = ParseEscape(buf)
    BY <1>1, <1>2 DEF FirstKey, Letters, Parameters
  <2> QED
    BY <1>2, <2>1, EscapeLength
<1>3. CASE ~ (buf[1] = "ESC" /\ Len(buf) > 1 /\ buf[2] \in {"[", "O"})
  <2> USE DEF FirstKey, Letters, Parameters
  <2>1. CASE buf[1] = "ESC"
    BY <1>1, <1>3, <2>1 DEF Decoded
  <2>2. CASE buf[1] = "CR"
    BY <1>1, <1>3, <2>2 DEF Decoded
  <2>3. CASE buf[1] = "LF"
    BY <1>1, <1>3, <2>3 DEF Decoded
  <2>4. CASE buf[1] = "DEL"
    BY <1>1, <1>3, <2>4 DEF Decoded
  <2>5. CASE buf[1] = "TAB"
    BY <1>1, <1>3, <2>5 DEF Decoded
  <2>6. CASE buf[1] = "ETX"
    BY <1>1, <1>3, <2>6 DEF Decoded
  <2>7. CASE buf[1] \in Letters \cup Parameters
    <3>1. FirstKey(buf) = Decoded(<<buf[1]>>, 1)
      BY <1>1, <1>3, <2>7
    <3> HIDE DEF FirstKey, Letters, Parameters
    <3> QED
      BY <1>1, <3>1 DEF Decoded
  <2>8. CASE buf[1] = "LEAD"
    BY <1>1, <1>3, <2>8 DEF Decoded, Incomplete
  <2>9. CASE buf[1] = "NUL"
    BY <1>1, <1>3, <2>9 DEF Decoded
  <2>10. CASE buf[1] = "TAIL"
    BY <1>1, <1>3, <2>10 DEF Decoded
  <2>11. buf[1] \in Bytes
    BY <1>1
  <2> QED
    BY <2>1, <2>2, <2>3, <2>4, <2>5, <2>6, <2>7, <2>8, <2>9, <2>10, <2>11
    DEF Bytes, Controls
<1> QED
  BY <1>2, <1>3

-------------------------------------------------------------------------------
ParseAt(f, buf, from) ==
    LET rest == Suffix(buf, from)
        first == FirstKey(rest)
        after == f[from + first.length]
    IN  IF rest = <<>> \/ first.length = 0
        THEN [keys |-> <<>>, rest |-> rest]
        ELSE [keys |-> first.keys \o after.keys, rest |-> after.rest]

Parses(f, buf) == f = [from \in 1 .. Len(buf) + 1 |-> ParseAt(f, buf, from)]

Alike(f, buf, at, g, other, there) ==
    /\ Suffix(buf, at) = Suffix(other, there)
    /\ \A d \in 1 .. Len(buf) + 1 - at : f[at + d] = g[there + d]

(* What is parsed depends on what is left, and on what the rest of it gives.   *)
LEMMA ParseAgree ==
    ASSUME NEW buf \in Seq(Bytes), NEW other \in Seq(Bytes),
           NEW at \in 1 .. Len(buf) + 1, NEW there \in 1 .. Len(other) + 1,
           NEW f, NEW g, Alike(f, buf, at, g, other, there)
    PROVE  ParseAt(f, buf, at) = ParseAt(g, other, there)
<1> DEFINE rest == Suffix(buf, at)
           length == FirstKey(rest).length
<1>1. rest \in Seq(Bytes) /\ Len(rest) = Len(buf) + 1 - at
  BY SuffixIs
<1>2. CASE rest = <<>> \/ length = 0
  BY <1>2 DEF ParseAt, Alike
<1>3. CASE rest # <<>> /\ length # 0
  <2>1. length \in 1 .. Len(buf) + 1 - at
    <3>1. length \in 0 .. Len(rest)
      BY <1>1, <1>3, FirstKeyLength
    <3> HIDE DEF length
    <3> QED
      BY <1>1, <1>3, <3>1
  <2>2. f[at + length] = g[there + length]
    BY <2>1 DEF Alike
  <2> QED
    BY <2>2 DEF ParseAt, Alike
<1> QED
  BY <1>2, <1>3

(* There is a function that parses a buffer from its end, as ParseKeys does.   *)
LEMMA ParseExists ==
    ASSUME NEW buf \in Seq(Bytes)
    PROVE  \E f : Parses(f, buf)
<1> DEFINE n == Len(buf) + 1
           Down(f, at) == f = [from \in at .. n |-> ParseAt(f, buf, from)]
           T == {m \in Nat : m <= n => \E f : Down(f, n + 1 - m)}
<1>0. n \in Nat /\ n >= 1 /\ n = Len(buf) + 1
  BY LenProperties
<1> HIDE DEF n
<1>1. 0 \in T
  <2> DEFINE f == [from \in n + 1 .. n |-> <<>>]
  <2>1. f = [from \in n + 1 .. n |-> ParseAt(f, buf, from)]
    <3>1. n + 1 .. n = {}
      BY <1>0
    <3> QED
      BY <3>1
  <2>2. n + 1 - 0 = n + 1
    BY <1>0
  <2> HIDE DEF f
  <2> QED
    BY <2>1, <2>2
<1>2. ASSUME NEW m \in T PROVE m + 1 \in T
  <2> HIDE DEF Down
  <2>1. m \in Nat
    OBVIOUS
  <2>2. SUFFICES ASSUME m + 1 <= n
                 PROVE  \E f : Down(f, n + 1 - (m + 1))
    BY <2>1
  <2>3. PICK at \in Nat : at = n + 1 - (m + 1)
    BY <1>0, <2>1, <2>2
  <2>4. at \in 1 .. n /\ n + 1 - m = at + 1
    BY <1>0, <2>1, <2>2, <2>3
  <2>5. PICK f : Down(f, at + 1)
    BY <1>0, <2>1, <2>2, <2>4
  <2> DEFINE g == [from \in at .. n |->
                       IF from = at THEN ParseAt(f, buf, from) ELSE f[from]]
  <2>6. \A from \in at + 1 .. n : g[from] = f[from]
    BY <1>0, <2>4
  <2>7. g[at] = ParseAt(f, buf, at)
    BY <1>0, <2>4
  <2>8. g = [from \in at .. n |-> g[from]]
    OBVIOUS
  <2> HIDE DEF g
  <2>9. ASSUME NEW from \in at .. n PROVE g[from] = ParseAt(g, buf, from)
    <3>1. from \in 1 .. Len(buf) + 1
      BY <1>0, <2>4
    <3>2. ASSUME NEW d \in 1 .. Len(buf) + 1 - from
          PROVE  f[from + d] = g[from + d]
      <4>1. from + d \in at + 1 .. n
        BY <1>0, <2>4
      <4> QED
        BY <2>6, <4>1
    <3>3. ParseAt(f, buf, from) = ParseAt(g, buf, from)
      <4>1. Alike(f, buf, from, g, buf, from)
        BY <3>2 DEF Alike
      <4> QED
        BY <3>1, <4>1, ParseAgree
    <3>4. g[from] = ParseAt(f, buf, from)
      <4>1. CASE from = at
        BY <2>7, <4>1
      <4>2. CASE from # at
        <5>1. from \in at + 1 .. n
          BY <1>0, <2>4, <4>2
        <5>2. f[from] = ParseAt(f, buf, from)
          BY <2>5, <5>1 DEF Down
        <5> QED
          BY <2>6, <5>1, <5>2
      <4> QED
        BY <4>1, <4>2
    <3> QED
      BY <3>3, <3>4
  <2>10. Down(g, at)
    BY <2>8, <2>9 DEF Down
  <2> QED
    BY <2>3, <2>10
<1> HIDE DEF T, Down
<1>3. T = Nat
  <2>1. T \in SUBSET Nat
    BY DEF T
  <2> QED
    BY <1>1, <1>2, <2>1, Upwards
<1>4. n \in T /\ n + 1 - n = 1
  BY <1>0, <1>3
<1>5. \E f : Down(f, 1)
  BY <1>4, <1>0 DEF T
<1> QED
  BY <1>0, <1>5 DEF Parses, Down

(* ParseKeys chooses that function, and gives its first value.                 *)
LEMMA ParseKeysIs ==
    ASSUME NEW buf \in Seq(Bytes)
    PROVE  \E f : Parses(f, buf) /\ ParseKeys(buf) = f[1]
<1> DEFINE F == CHOOSE f : Parses(f, buf)
<1>1. Parses(F, buf)
  BY ParseExists
<1>2. ParseKeys(buf) = F[1]
  BY DEF ParseKeys, Parses, ParseAt, Suffix
<1> HIDE DEF F
<1> QED
  BY <1>1, <1>2

(* A suffix is parsed alone as it is within the whole.                         *)
LEMMA ParseShift ==
    ASSUME NEW buf \in Seq(Bytes), NEW k \in 0 .. Len(buf),
           NEW f, Parses(f, buf),
           NEW g, Parses(g, Suffix(buf, k + 1))
    PROVE  g[1] = f[k + 1]
<1> DEFINE s == Suffix(buf, k + 1)
           n == Len(buf) - k
           Same(c) == g[n + 1 - c] = f[k + n + 1 - c]
           T == {d \in Nat : \A c \in 0 .. d : c <= n => Same(c)}
<1>0. n \in Nat /\ Len(buf) \in Nat /\ Len(buf) = n + k /\ k \in Nat
  BY LenProperties
<1>1. s \in Seq(Bytes) /\ Len(s) = n
  <2> HIDE DEF n
  <2>1. k + 1 \in 1 .. Len(buf) + 1
    BY <1>0
  <2>2. Len(buf) + 1 - (k + 1) = n
    BY <1>0
  <2> QED
    BY <2>1, <2>2, SuffixIs
<1>2. \A from \in 1 .. n + 1 : g[from] = ParseAt(g, s, from)
  BY <1>1 DEF Parses
<1>3. \A from \in 1 .. n + 1 : f[k + from] = ParseAt(f, buf, k + from)
  <2>1. \A from \in 1 .. n + 1 : k + from \in 1 .. Len(buf) + 1
    BY <1>0
  <2> QED
    BY <2>1 DEF Parses
<1>4. ASSUME NEW from \in 1 .. n + 1 PROVE Suffix(s, from) = Suffix(buf, k + from)
  <2>1. from \in 1 .. Len(buf) - k + 1
    BY <1>0
  <2> QED
    BY <2>1, SuffixOfSuffix
<1> HIDE DEF s, n, Same
<1>5. ASSUME NEW c \in 0 .. n, \A e \in 0 .. n : e < c => Same(e)
      PROVE  Same(c)
  <2>1. PICK from \in 1 .. n + 1 : from = n + 1 - c
    BY <1>0
  <2>2. k + from \in 1 .. Len(buf) + 1 /\ from \in 1 .. Len(s) + 1
    BY <1>0, <1>1
  <2>3. ASSUME NEW d \in 1 .. Len(s) + 1 - from PROVE g[from + d] = f[(k + from) + d]
    <3>1. PICK e \in 0 .. n : e = c - d
      BY <1>0, <1>1, <2>1
    <3>2. Same(e)
      BY <1>0, <1>1, <1>5, <2>1, <3>1
    <3>3. n + 1 - e = from + d /\ k + n + 1 - e = (k + from) + d
      BY <1>0, <1>1, <2>1, <3>1
    <3> QED
      BY <3>2, <3>3 DEF Same
  <2>4. Alike(g, s, from, f, buf, k + from)
    BY <1>4, <2>3 DEF Alike
  <2>5. ParseAt(g, s, from) = ParseAt(f, buf, k + from)
    BY <1>1, <2>2, <2>4, ParseAgree
  <2>6. g[from] = f[k + from]
    BY <1>2, <1>3, <2>5
  <2>7. n + 1 - c = from /\ k + n + 1 - c = k + from
    BY <1>0, <2>1
  <2> QED
    BY <2>6, <2>7 DEF Same
<1>6. 0 \in T
  BY <1>0, <1>5
<1>7. ASSUME NEW d \in T PROVE d + 1 \in T
  BY <1>0, <1>5
<1> HIDE DEF T
<1>8. T = Nat
  <2>1. T \in SUBSET Nat
    BY DEF T
  <2> QED
    BY <1>6, <1>7, <2>1, Upwards
<1>9. Same(n)
  <2>1. n \in T
    BY <1>0, <1>8
  <2>2. \A c \in 0 .. n : c <= n => Same(c)
    BY <2>1 DEF T
  <2> QED
    BY <1>0, <2>2
<1>10. n + 1 - n = 1 /\ k + n + 1 - n = k + 1
  BY <1>0
<1> QED
  BY <1>9, <1>10 DEF Same

(* The loop of ParseKeys: one key, then the rest.                              *)
LEMMA ParseStops ==
    ASSUME NEW buf \in Seq(Bytes), buf = <<>> \/ FirstKey(buf).length = 0
    PROVE  ParseKeys(buf) = [keys |-> <<>>, rest |-> buf]
<1>1. PICK f : Parses(f, buf) /\ ParseKeys(buf) = f[1]
  BY ParseKeysIs
<1>2. Suffix(buf, 1) = buf
  BY SubSeqFull DEF Suffix
<1>3. f[1] = ParseAt(f, buf, 1)
  BY <1>1 DEF Parses
<1> QED
  BY <1>1, <1>2, <1>3 DEF ParseAt

(* After one key that is complete, ParseKeys goes on with what is left.        *)
LEMMA ParseGoesOn ==
    ASSUME NEW buf \in Seq(Bytes), buf # <<>>,
           NEW length \in Nat \ {0}, FirstKey(buf).length = length
    PROVE  /\ ParseKeys(buf).keys =
                  FirstKey(buf).keys \o ParseKeys(Suffix(buf, length + 1)).keys
           /\ ParseKeys(buf).rest = ParseKeys(Suffix(buf, length + 1)).rest
<1>1. PICK f : Parses(f, buf) /\ ParseKeys(buf) = f[1]
  BY ParseKeysIs
<1>2. Suffix(buf, 1) = buf
  BY SubSeqFull DEF Suffix
<1>3. length \in 0 .. Len(buf)
  BY FirstKeyLength
<1>4. Suffix(buf, length + 1) \in Seq(Bytes)
  BY <1>3, SuffixIs
<1>5. PICK g : /\ Parses(g, Suffix(buf, length + 1))
               /\ ParseKeys(Suffix(buf, length + 1)) = g[1]
  BY <1>4, ParseKeysIs
<1>6. g[1] = f[length + 1]
  BY <1>1, <1>3, <1>5, ParseShift
<1>7. f[1] = ParseAt(f, buf, 1)
  BY <1>1 DEF Parses
<1>8. ParseAt(f, buf, 1) = [keys |-> FirstKey(buf).keys \o f[1 + length].keys,
                            rest |-> f[1 + length].rest]
  BY <1>2 DEF ParseAt
<1>9. f[1 + length] = ParseKeys(Suffix(buf, length + 1))
  BY <1>5, <1>6
<1>10. ParseKeys(buf) = ParseAt(f, buf, 1)
  BY <1>1, <1>7
<1> DEFINE after == ParseKeys(Suffix(buf, length + 1))
           now == FirstKey(buf).keys
<1>11. ParseKeys(buf) = [keys |-> now \o after.keys, rest |-> after.rest]
  BY <1>8, <1>9, <1>10, Zenon
<1> HIDE DEF after, now
<1>12. ParseKeys(buf).keys = now \o after.keys /\ ParseKeys(buf).rest = after.rest
  BY <1>11
<1> QED
  BY <1>12 DEF after, now

-------------------------------------------------------------------------------
(* The presses.                                                                *)
Kinds == {"esc", "up", "home", "f1", "alt", "letter", "wide", "enter"}
Plain == Names \ {"Resize"}

(* What each press sends, and the keys it stands for.                          *)
LEMMA SentIs ==
    /\ Sent["esc"] = <<"ESC">> /\ Meant["esc"] = <<"Esc">>
    /\ Sent["up"] = <<"ESC", "[", "A">> /\ Meant["up"] = <<"Up">>
    /\ Sent["home"] = <<"ESC", "[", "1", "H">> /\ Meant["home"] = <<>>
    /\ Sent["f1"] = <<"ESC", "[", "1", "1", "~">> /\ Meant["f1"] = <<"F1">>
    /\ Sent["alt"] = <<"ESC", "j">> /\ Meant["alt"] = <<"j">>
    /\ Sent["letter"] = <<"A">> /\ Meant["letter"] = <<"A">>
    /\ Sent["wide"] = <<"LEAD", "TAIL">> /\ Meant["wide"] = <<"wide">>
    /\ Sent["enter"] = <<"CR">> /\ Meant["enter"] = <<"Enter">>
  BY DEF Sent, Meant

(* Tables of the presses, and of the keys in the channel.                      *)
LEMMA Tables ==
    /\ Table(Sent, Kinds, Bytes \ {"LF"})
    /\ Table(Sent, Kinds, Bytes)
    /\ Table(Meant, Kinds, Plain)
    /\ Table(HeardAs, Names, Names)
<1> USE DEF Table, Letters, Parameters, Controls
<1>1. Sent \in [Kinds -> Seq(Bytes \ {"LF"})]
  <2>1. ASSUME NEW p \in Kinds PROVE Sent[p] \in Seq(Bytes \ {"LF"})
    <3> DEFINE B == Bytes \ {"LF"}
    <3>1. {"ESC", "[", "A", "1", "H", "~", "j", "LEAD", "TAIL", "CR"} \subseteq B
      BY DEF Bytes
    <3> HIDE DEF B
    <3>2. /\ <<"ESC">> \in Seq(B) /\ <<"A">> \in Seq(B) /\ <<"CR">> \in Seq(B)
          /\ <<"ESC", "j">> \in Seq(B) /\ <<"LEAD", "TAIL">> \in Seq(B)
          /\ <<"ESC", "[", "A">> \in Seq(B) /\ <<"ESC", "[", "1", "H">> \in Seq(B)
          /\ <<"ESC", "[", "1", "1", "~">> \in Seq(B)
      BY <3>1
    <3> QED
      BY <3>2, SentIs DEF Kinds, B
  <2>2. DOMAIN Sent = Kinds /\ Sent = [p \in Kinds |-> Sent[p]]
    BY DEF Sent, Kinds
  <2> QED
    BY <2>1, <2>2
<1>2. Meant \in [Kinds -> Seq(Plain)]
  <2>1. ASSUME NEW p \in Kinds PROVE Meant[p] \in Seq(Plain)
    <3>1. {"Esc", "Up", "F1", "j", "A", "wide", "Enter"} \subseteq Plain
      BY DEF Plain, Names
    <3>2. /\ <<"Esc">> \in Seq(Plain) /\ <<"Up">> \in Seq(Plain)
          /\ <<>> \in Seq(Plain) /\ <<"j">> \in Seq(Plain)
          /\ <<"A">> \in Seq(Plain) /\ <<"wide">> \in Seq(Plain)
          /\ <<"Enter">> \in Seq(Plain) /\ <<"F1">> \in Seq(Plain)
      BY <3>1, EmptySeq
    <3> QED
      BY <3>2, SentIs DEF Kinds
  <2>2. DOMAIN Meant = Kinds /\ Meant = [p \in Kinds |-> Meant[p]]
    BY DEF Meant, Kinds
  <2> QED
    BY <2>1, <2>2
<1>3. HeardAs \in [Names -> Seq(Names)]
  <2>1. ASSUME NEW k \in Names PROVE HeardAs[k] \in Seq(Names)
    BY DEF HeardAs
  <2> QED
    BY <2>1 DEF HeardAs
<1>4. Sent \in [Kinds -> Seq(Bytes)]
  <2>1. Seq(Bytes \ {"LF"}) \subseteq Seq(Bytes)
    BY SeqMonotonic
  <2> QED
    BY <1>1, <2>1
<1> QED
  BY <1>1, <1>2, <1>3, <1>4

(* How the bytes of a press begin and how many they are.                       *)
LEMMA SentBytes ==
    ASSUME NEW p \in Kinds
    PROVE  /\ Len(Sent[p]) \in 1 .. 5
           /\ \A i \in 2 .. Len(Sent[p]) : Sent[p][i] # "ESC"
           /\ Len(Sent[p]) = 1 /\ Sent[p][1] = "ESC" => p = "esc"
<1>1. CASE p = "esc"
  BY <1>1, SentIs
<1>2. CASE p = "up"
  BY <1>2, SentIs
<1>3. CASE p = "home"
  BY <1>3, SentIs
<1>4. CASE p = "alt"
  BY <1>4, SentIs
<1>5. CASE p = "letter"
  BY <1>5, SentIs
<1>6. CASE p = "wide"
  BY <1>6, SentIs
<1>7. CASE p = "enter"
  BY <1>7, SentIs
<1>8. CASE p = "f1"
  BY <1>8, SentIs
<1> QED
  BY <1>1, <1>2, <1>3, <1>4, <1>5, <1>6, <1>7, <1>8 DEF Kinds

(* What is left after the first of two sequences is the second.                *)
LEMMA SuffixOfConcat ==
    ASSUME NEW S, NEW s \in Seq(S), NEW t \in Seq(S)
    PROVE  Suffix(s \o t, Len(s) + 1) = t
<1>1. PICK m \in Nat, n \in Nat : m = Len(s) /\ n = Len(t)
  BY LenProperties
<1>2. Len(s \o t) = m + n
  BY <1>1, ConcatProperties
<1>3. Suffix(s \o t, Len(s) + 1) = SubSeq(s \o t, m + 1, m + n)
  BY <1>1, <1>2 DEF Suffix
<1>4. CASE n = 0
  <2>1. SubSeq(s \o t, m + 1, m + n) = <<>>
    BY <1>4, SubSeqEmpty
  <2>2. t = <<>>
    BY <1>1, <1>4, EmptySeq
  <2> QED
    BY <1>3, <2>1, <2>2
<1>5. CASE n # 0
  <2>1. /\ m + 1 \in Len(s) + 1 .. Len(s) + Len(t)
        /\ m + n \in Len(s) + 1 .. Len(s) + Len(t)
    BY <1>1, <1>5
  <2>2. (m + 1) - Len(s) = 1 /\ (m + n) - Len(s) = n
    BY <1>1
  <2>3. SubSeq(s \o t, m + 1, m + n) = SubSeq(t, 1, n)
    BY <2>1, <2>2, SubSeqOfConcat2
  <2>4. SubSeq(t, 1, n) = t
    BY <1>1, SubSeqFull
  <2> QED
    BY <1>3, <2>3, <2>4
<1> QED
  BY <1>4, <1>5

(* Two ways to cut a sequence into two.                                        *)
LEMMA Overlap ==
    ASSUME NEW S, NEW s \in Seq(S), NEW t \in Seq(S), NEW u \in Seq(S),
           NEW v \in Seq(S)
    PROVE  s \o t = u \o v /\ Len(u) <= Len(s) =>
               \E w \in Seq(S) : s = u \o w /\ w \o t = v
<1>0. SUFFICES ASSUME s \o t = u \o v, Len(u) <= Len(s)
               PROVE  \E w \in Seq(S) : s = u \o w /\ w \o t = v
  OBVIOUS
<1> DEFINE w == Suffix(s, Len(u) + 1)
<1>1. Len(s) \in Nat /\ Len(u) \in Nat /\ Len(u) + 1 \in 1 .. Len(s) + 1
  BY <1>0, LenProperties
<1>2. /\ w \in Seq(S) /\ Len(w) = Len(s) + 1 - (Len(u) + 1)
      /\ \A i \in 1 .. Len(s) + 1 - (Len(u) + 1) : w[i] = s[(Len(u) + 1) + i - 1]
  BY <1>1, SuffixIs
<1> HIDE DEF w
<1>3. \A i \in 1 .. Len(u) : s[i] = u[i]
  <2>1. ASSUME NEW i \in 1 .. Len(u) PROVE s[i] = u[i]
    <3>1. i \in 1 .. Len(s) /\ i <= Len(s) /\ i <= Len(u)
      BY <1>1
    <3>2. Len(t) \in Nat /\ Len(v) \in Nat
      BY LenProperties
    <3>3. i \in 1 .. Len(s) + Len(t) /\ i \in 1 .. Len(u) + Len(v)
      BY <1>1, <3>1, <3>2
    <3>4. (s \o t)[i] = s[i]
      BY <3>1, <3>3, ConcatProperties
    <3>5. (u \o v)[i] = u[i]
      BY <3>1, <3>3, ConcatProperties
    <3> QED
      BY <1>0, <3>4, <3>5
  <2> QED
    BY <2>1
<1>4. s = u \o w
  <2> DEFINE x == u \o w
  <2>1. /\ x \in Seq(S) /\ Len(x) = Len(u) + Len(w)
        /\ \A i \in 1 .. Len(u) + Len(w) :
               x[i] = IF i <= Len(u) THEN u[i] ELSE w[i - Len(u)]
    BY <1>2, ConcatProperties
  <2> HIDE DEF x
  <2>2. Len(x) = Len(s)
    BY <1>1, <1>2, <2>1
  <2>3. ASSUME NEW i \in 1 .. Len(s) PROVE s[i] = x[i]
    <3>1. CASE i <= Len(u)
      <4>1. i \in 1 .. Len(u) /\ i \in 1 .. Len(u) + Len(w)
        BY <1>1, <1>2, <3>1
      <4> QED
        BY <1>3, <2>1, <3>1, <4>1
    <3>2. CASE ~ (i <= Len(u))
      <4>1. /\ i - Len(u) \in 1 .. Len(s) + 1 - (Len(u) + 1)
            /\ (Len(u) + 1) + (i - Len(u)) - 1 = i
            /\ i \in 1 .. Len(u) + Len(w)
        BY <1>1, <1>2, <3>2
      <4>2. w[i - Len(u)] = s[i]
        BY <1>2, <4>1
      <4> QED
        BY <2>1, <3>2, <4>1, <4>2
    <3> QED
      BY <3>1, <3>2
  <2> QED
    BY <2>1, <2>2, <2>3, SeqEqual DEF x
<1>5. u \o (w \o t) = u \o v
  <2>1. (u \o w) \o t = u \o (w \o t)
    <3>1. Triple(S, u, w, t)
      BY <1>2 DEF Triple
    <3>2. Associate(u, w, t)
      BY <3>1, Associates
    <3> QED
      BY <3>2 DEF Associate
  <2> QED
    BY <1>0, <1>4, <2>1
<1>6. w \o t \in Seq(S)
  BY <1>2, ConcatProperties
<1>7. w \o t = v
  BY <1>5, <1>6, ConcatSimplifications
<1> QED
  BY <1>2, <1>4, <1>7

(* The final byte of an escape sequence is the first that can be one.          *)
LEMMA EscapeEnd ==
    ASSUME NEW ends \in SUBSET Nat, NEW j \in ends, \A other \in ends : j <= other
    PROVE  (CHOOSE i \in ends : \A other \in ends : i <= other) = j
<1> DEFINE least == CHOOSE i \in ends : \A other \in ends : i <= other
<1>1. least \in ends /\ \A other \in ends : least <= other
  OBVIOUS
<1> HIDE DEF least
<1>2. least = j
  BY <1>1
<1> QED
  BY <1>2 DEF least

(* What one press is for the keyer, whatever follows.                          *)
LEMMA PressParsed ==
    ASSUME NEW p \in Kinds, p # "esc",
           NEW t \in Seq(Bytes), t # <<>> => t[1] # "LF",
           ParseKeys(t).keys \in Seq(Plain)
    PROVE  /\ ParseKeys(Sent[p] \o t).keys = Meant[p] \o ParseKeys(t).keys
           /\ ParseKeys(Sent[p] \o t).rest = ParseKeys(t).rest
<1> DEFINE s == Sent[p]
           b == s \o t
<1>1. s \in Seq(Bytes) /\ Len(s) \in Nat /\ Len(t) \in Nat
  BY Tables DEF Table
<1>2. /\ b \in Seq(Bytes) /\ Len(b) = Len(s) + Len(t)
      /\ \A i \in 1 .. Len(s) + Len(t) :
             b[i] = IF i <= Len(s) THEN s[i] ELSE t[i - Len(s)]
  BY <1>1, ConcatProperties
<1>3. Suffix(b, Len(s) + 1) = t
  BY <1>1, SuffixOfConcat
<1> HIDE DEF b
<1>4. \A i \in 1 .. Len(s) : b[i] = s[i]
  <2>1. Len(s) \in Nat /\ Len(t) \in Nat
    BY <1>1, LenProperties
  <2>2. ASSUME NEW i \in 1 .. Len(s) PROVE b[i] = s[i]
    <3>1. i \in 1 .. Len(s) + Len(t) /\ i <= Len(s)
      BY <2>1
    <3> QED
      BY <1>2, <3>1
  <2> QED
    BY <2>2
<1> SUFFICES /\ ParseKeys(b).keys = Meant[p] \o ParseKeys(t).keys
             /\ ParseKeys(b).rest = ParseKeys(t).rest
  BY DEF b
<1>5. ASSUME FirstKey(b) = Decoded(Meant[p], Len(s)), Len(s) # 0
      PROVE  /\ ParseKeys(b).keys = Meant[p] \o ParseKeys(t).keys
             /\ ParseKeys(b).rest = ParseKeys(t).rest
  <2> HIDE DEF s
  <2>1. FirstKey(b).keys = Meant[p] /\ FirstKey(b).length = Len(s)
    BY <1>5 DEF Decoded
  <2>2. b # <<>>
    BY <1>1, <1>2, <1>5
  <2>3. Len(s) \in Nat \ {0}
    BY <1>1, <1>5
  <2> QED
    BY <1>2, <1>3, <2>1, <2>2, <2>3, ParseGoesOn
<1>6. CASE p = "up"
  <2>1. s = <<"ESC", "[", "A">> /\ Meant[p] = <<"Up">>
    BY <1>6, SentIs
  <2>2. Len(s) = 3 /\ Len(b) >= 3 /\ b[1] = "ESC" /\ b[2] = "[" /\ b[3] = "A"
    BY <1>1, <1>2, <1>4, <2>1
  <2>3. FirstKey(b) = ParseEscape(b)
    BY <2>2 DEF FirstKey, Letters, Parameters
  <2>4. ParseEscape(b) = Decoded(ArrowKey("A"), 3)
    <3> DEFINE ends == {j \in 3 .. Len(b) : b[j] \notin Parameters}
    <3>1. 3 \in ends /\ \A j \in ends : 3 <= j
      <4>1. Len(b) \in Nat
        BY <1>2
      <4>2. 3 \in ends
        <5>1. 3 \in 3 .. Len(b)
          <6>1. Len(b) >= 3
            BY <2>2
          <6> QED
            BY <4>1, <6>1
        <5>2. b[3] \notin Parameters
          BY <2>2 DEF Parameters
        <5> HIDE DEF b
        <5> QED
          BY <5>1, <5>2
      <4>3. ASSUME NEW j \in ends PROVE 3 <= j
        <5>1. j \in 3 .. Len(b) /\ b[j] \notin Parameters
          OBVIOUS
        <5> HIDE DEF ends
        <5>2. j \in 3 .. Len(b)
          BY <5>1
        <5> QED
          BY <4>1, <5>2
      <4> HIDE DEF ends
      <4> QED
        BY <4>2, <4>3
    <3>2. (CHOOSE j \in ends : \A other \in ends : j <= other) = 3
      <4>1. ends \subseteq Nat
        OBVIOUS
      <4> HIDE DEF ends
      <4> QED
        BY <3>1, <4>1, EscapeEnd
    <3>3. ends # {} /\ "A" \in Letters
      BY <3>1 DEF Letters
    <3> HIDE DEF ends
    <3> QED
      BY <2>2, <3>2, <3>3 DEF ParseEscape, SequenceKey, ends
  <2>5. ArrowKey("A") = <<"Up">>
    BY DEF ArrowKey
  <2> QED
    BY <1>5, <2>1, <2>2, <2>3, <2>4, <2>5
<1>7. CASE p = "home"
  <2>1. s = <<"ESC", "[", "1", "H">> /\ Meant[p] = <<>>
    BY <1>7, SentIs
  <2>2. /\ Len(s) = 4 /\ Len(b) >= 4
        /\ b[1] = "ESC" /\ b[2] = "[" /\ b[3] = "1" /\ b[4] = "H"
    BY <1>1, <1>2, <1>4, <2>1
  <2>3. FirstKey(b) = ParseEscape(b)
    BY <2>2 DEF FirstKey, Letters, Parameters
  <2>4. ParseEscape(b) = Decoded(ArrowKey("H"), 4)
    <3> DEFINE ends == {j \in 3 .. Len(b) : b[j] \notin Parameters}
    <3>1. 4 \in ends /\ \A j \in ends : 4 <= j
      <4>1. Len(b) \in Nat
        BY <1>2
      <4>2. 4 \in ends
        <5>1. 4 \in 3 .. Len(b)
          <6>1. Len(b) >= 4
            BY <2>2
          <6> QED
            BY <4>1, <6>1
        <5>2. b[4] \notin Parameters
          BY <2>2 DEF Parameters
        <5> HIDE DEF b
        <5> QED
          BY <5>1, <5>2
      <4>3. ASSUME NEW j \in ends PROVE 4 <= j
        <5>1. j \in 3 .. Len(b) /\ b[j] \notin Parameters
          OBVIOUS
        <5> HIDE DEF ends
        <5>2. j \in 3 .. Len(b)
          BY <5>1
        <5>3. j # 3
          BY <2>2, <5>1 DEF Parameters
        <5> QED
          BY <4>1, <5>2, <5>3
      <4> HIDE DEF ends
      <4> QED
        BY <4>2, <4>3
    <3>2. (CHOOSE j \in ends : \A other \in ends : j <= other) = 4
      <4>1. ends \subseteq Nat
        OBVIOUS
      <4> HIDE DEF ends
      <4> QED
        BY <3>1, <4>1, EscapeEnd
    <3>3. ends # {} /\ "H" \in Letters
      BY <3>1 DEF Letters
    <3> HIDE DEF ends
    <3> QED
      BY <2>2, <3>2, <3>3 DEF ParseEscape, SequenceKey, ends
  <2>5. ArrowKey("H") = <<>>
    BY DEF ArrowKey
  <2> QED
    BY <1>5, <2>1, <2>2, <2>3, <2>4, <2>5
<1>8. CASE p = "alt"
  <2>1. s = <<"ESC", "j">> /\ Meant[p] = <<"j">>
    BY <1>8, SentIs
  <2>2. Len(s) = 2 /\ Len(b) >= 2 /\ b[1] = "ESC" /\ b[2] = "j"
    BY <1>1, <1>2, <1>4, <2>1
  <2>3. FirstKey(b) = Decoded(<<>>, 1)
    BY <2>2 DEF FirstKey, Letters, Parameters
  <2> DEFINE c == Suffix(b, 2)
  <2>4. /\ c \in Seq(Bytes) /\ Len(c) = Len(b) - 1
        /\ c[1] = "j" /\ c # <<>> /\ b # <<>>
    <3>1. Len(b) \in Nat /\ 2 \in 1 .. Len(b) + 1 /\ Len(b) + 1 - 2 = Len(b) - 1
      BY <1>2, <2>2
    <3>2. /\ c \in Seq(Bytes) /\ Len(c) = Len(b) + 1 - 2
          /\ \A i \in 1 .. Len(b) + 1 - 2 : c[i] = b[2 + i - 1]
      BY <1>2, <3>1, SuffixIs
    <3> HIDE DEF c
    <3>3. c[1] = b[2 + 1 - 1] /\ 2 + 1 - 1 = 2
      BY <2>2, <3>1, <3>2
    <3> QED
      BY <2>2, <3>1, <3>2, <3>3
  <2>5. Suffix(c, 2) = t
    <3>1. 1 \in 0 .. Len(b) /\ 2 \in 1 .. Len(b) - 1 + 1
      BY <1>2, <2>2
    <3>2. Suffix(Suffix(b, 1 + 1), 2) = Suffix(b, 1 + 2)
      BY <1>2, <3>1, SuffixOfSuffix
    <3>3. Suffix(b, 3) = t
      BY <1>3, <2>2
    <3> QED
      BY <3>2, <3>3
  <2> HIDE DEF c
  <2>6. FirstKey(c) = Decoded(<<"j">>, 1)
    BY <2>2, <2>4 DEF FirstKey, Letters, Parameters
  <2>7. /\ ParseKeys(c).keys = <<"j">> \o ParseKeys(t).keys
        /\ ParseKeys(c).rest = ParseKeys(t).rest
    <3>1. FirstKey(c).length = 1 /\ FirstKey(c).keys = <<"j">> /\ 1 + 1 = 2
      BY <2>6 DEF Decoded
    <3>2. \A n \in Nat \ {0} : FirstKey(c).length = n =>
              /\ ParseKeys(c).keys =
                     FirstKey(c).keys \o ParseKeys(Suffix(c, n + 1)).keys
              /\ ParseKeys(c).rest = ParseKeys(Suffix(c, n + 1)).rest
      BY <2>4, ParseGoesOn
    <3> QED
      BY <2>5, <3>1, <3>2
  <2>8. /\ ParseKeys(b).keys = <<>> \o ParseKeys(c).keys
        /\ ParseKeys(b).rest = ParseKeys(c).rest
    <3>1. FirstKey(b).length = 1 /\ FirstKey(b).keys = <<>> /\ 1 + 1 = 2
      BY <2>3 DEF Decoded
    <3>2. \A n \in Nat \ {0} : FirstKey(b).length = n =>
              /\ ParseKeys(b).keys =
                     FirstKey(b).keys \o ParseKeys(Suffix(b, n + 1)).keys
              /\ ParseKeys(b).rest = ParseKeys(Suffix(b, n + 1)).rest
      BY <1>2, <2>4, ParseGoesOn
    <3> QED
      BY <3>1, <3>2 DEF c
  <2>9. <<>> \o (<<"j">> \o ParseKeys(t).keys) = <<"j">> \o ParseKeys(t).keys
    <3>1. "j" \in Plain
      BY DEF Plain, Names, Letters
    <3>2. <<"j">> \in Seq(Plain)
      BY <3>1
    <3>3. <<"j">> \o ParseKeys(t).keys \in Seq(Plain)
      BY <3>2, ConcatProperties
    <3> QED
      BY <3>3, ConcatEmptySeq
  <2> QED
    BY <2>1, <2>7, <2>8, <2>9
<1>9. CASE p = "letter"
  <2>1. s = <<"A">> /\ Meant[p] = <<"A">>
    BY <1>9, SentIs
  <2>2. Len(s) = 1 /\ Len(b) >= 1 /\ b[1] = "A"
    BY <1>1, <1>2, <1>4, <2>1
  <2>3. FirstKey(b) = Decoded(<<"A">>, 1)
    BY <2>2 DEF FirstKey, Letters, Parameters
  <2> QED
    BY <1>5, <2>1, <2>2, <2>3
<1>10. CASE p = "wide"
  <2>1. s = <<"LEAD", "TAIL">> /\ Meant[p] = <<"wide">>
    BY <1>10, SentIs
  <2>2. Len(s) = 2 /\ Len(b) >= 2 /\ b[1] = "LEAD" /\ b[2] = "TAIL"
    BY <1>1, <1>2, <1>4, <2>1
  <2>3. FirstKey(b) = Decoded(<<"wide">>, 2)
    BY <2>2 DEF FirstKey, Letters, Parameters
  <2> QED
    BY <1>5, <2>1, <2>2, <2>3
<1>11. CASE p = "enter"
  <2>1. s = <<"CR">> /\ Meant[p] = <<"Enter">>
    BY <1>11, SentIs
  <2>2. Len(s) = 1 /\ Len(b) = Len(t) + 1 /\ b[1] = "CR"
    BY <1>1, <1>2, <1>4, <2>1
  <2>3. ~ (Len(b) > 1 /\ b[2] \in {"LF"})
    BY <1>1, <1>2, <2>2
  <2>4. FirstKey(b) = Decoded(<<"Enter">>, 1)
    BY <2>2, <2>3 DEF FirstKey, Letters, Parameters
  <2> QED
    BY <1>5, <2>1, <2>2, <2>4
<1>12. CASE p = "f1"
  <2>1. s = <<"ESC", "[", "1", "1", "~">> /\ Meant[p] = <<"F1">>
    BY <1>12, SentIs
  <2>2. /\ Len(s) = 5 /\ Len(b) >= 5
        /\ b[1] = "ESC" /\ b[2] = "[" /\ b[3] = "1" /\ b[4] = "1" /\ b[5] = "~"
    BY <1>1, <1>2, <1>4, <2>1
  <2>3. FirstKey(b) = ParseEscape(b)
    BY <2>2 DEF FirstKey, Letters, Parameters
  <2>4. ParseEscape(b) = Decoded(<<"F1">>, 5)
    <3> DEFINE ends == {j \in 3 .. Len(b) : b[j] \notin Parameters}
    <3>1. 5 \in ends /\ \A j \in ends : 5 <= j
      <4>1. Len(b) \in Nat
        BY <1>2
      <4>2. 5 \in ends
        <5>1. 5 \in 3 .. Len(b)
          <6>1. Len(b) >= 5
            BY <2>2
          <6> QED
            BY <4>1, <6>1
        <5>2. b[5] \notin Parameters
          BY <2>2 DEF Parameters
        <5> HIDE DEF b
        <5> QED
          BY <5>1, <5>2
      <4>3. ASSUME NEW j \in ends PROVE 5 <= j
        <5>1. j \in 3 .. Len(b) /\ b[j] \notin Parameters
          OBVIOUS
        <5> HIDE DEF ends
        <5>2. j \in 3 .. Len(b)
          BY <5>1
        <5>3. j # 3 /\ j # 4
          BY <2>2, <5>1 DEF Parameters
        <5> QED
          BY <4>1, <5>2, <5>3
      <4> HIDE DEF ends
      <4> QED
        BY <4>2, <4>3
    <3>2. (CHOOSE j \in ends : \A other \in ends : j <= other) = 5
      <4>1. ends \subseteq Nat
        OBVIOUS
      <4> HIDE DEF ends
      <4> QED
        BY <3>1, <4>1, EscapeEnd
    <3>3. ends # {} /\ "~" \in Letters
      BY <3>1 DEF Letters
    <3> HIDE DEF ends
    <3> QED
      BY <2>2, <3>2, <3>3 DEF ParseEscape, SequenceKey, ends
  <2> QED
    BY <1>5, <2>1, <2>2, <2>3, <2>4
<1> QED
  BY <1>6, <1>7, <1>8, <1>9, <1>10, <1>11, <1>12 DEF Kinds

(* What is known of all sequences, for those that are met here.                *)
LEMMA KindsAssociate ==
    \A a, b, c \in Seq(Kinds) : (a \o b) \o c = a \o (b \o c)
  BY ConcatAssociative

(* The same for bytes.                                                         *)
LEMMA BytesAssociate ==
    \A a, b, c \in Seq(Bytes) : (a \o b) \o c = a \o (b \o c)
  BY ConcatAssociative

Longer(s, t, u, v) == s \o t = u \o v /\ Len(u) <= Len(s)

Cut(S, s, t, u, v) == \E w \in Seq(S) : s = u \o w /\ w \o t = v

(* The longer of two beginnings goes on where the shorter one ends.            *)
LEMMA BytesOverlap ==
    \A s, t, u, v \in Seq(Bytes) : Longer(s, t, u, v) => Cut(Bytes, s, t, u, v)
  BY Overlap DEF Longer, Cut

(* What is sent by some presses and by others after them.                      *)
LEMMA SentConcat ==
    \A ps, qs \in Seq(Kinds) :
        AllOf(Sent, ps \o qs) = AllOf(Sent, ps) \o AllOf(Sent, qs)
  BY Tables, AllOfConcat

(* What is meant by some presses and by others after them.                     *)
LEMMA MeantConcat ==
    \A ps, qs \in Seq(Kinds) :
        AllOf(Meant, ps \o qs) = AllOf(Meant, ps) \o AllOf(Meant, qs)
  BY Tables, AllOfConcat

(* The first of some presses.                                                  *)
EscLast(ps) == \A i \in 1 .. Len(ps) : ps[i] = "esc" => i = Len(ps)

(* The first press, its bytes first, and what comes after it.                  *)
LEMMA FirstPress ==
    ASSUME NEW ps \in Seq(Kinds), ps # <<>>
    PROVE  \E qs \in Seq(Kinds) :
               /\ ps = <<ps[1]>> \o qs /\ ps[1] \in Kinds
               /\ Len(ps) = Len(qs) + 1
               /\ AllOf(Sent, ps) = Sent[ps[1]] \o AllOf(Sent, qs)
               /\ EscLast(ps) => EscLast(qs) /\ (ps[1] = "esc" => qs = <<>>)
<1> DEFINE p == ps[1]
           qs == Tail(ps)
<1>1. /\ qs \in Seq(Kinds) /\ Len(qs) = Len(ps) - 1 /\ p \in Kinds
      /\ \A i \in 1 .. Len(qs) : qs[i] = ps[i + 1]
      /\ Len(ps) \in Nat \ {0}
  BY HeadTailProperties, EmptySeq
<1>2. ps = <<p>> \o qs
  <2> DEFINE x == <<p>> \o qs
  <2> HIDE DEF p, qs
  <2>1. <<p>> \in Seq(Kinds) /\ Len(<<p>>) = 1 /\ <<p>>[1] = p
    BY <1>1
  <2>2. /\ x \in Seq(Kinds) /\ Len(x) = 1 + Len(qs)
        /\ \A i \in 1 .. 1 + Len(qs) : x[i] = IF i <= 1 THEN <<p>>[i] ELSE qs[i - 1]
    BY <1>1, <2>1, ConcatProperties
  <2> HIDE DEF x
  <2>3. Len(x) = Len(ps)
    BY <1>1, <2>2
  <2>4. ASSUME NEW i \in 1 .. Len(x) PROVE x[i] = ps[i]
    <3>1. CASE i = 1
      BY <1>1, <2>1, <2>2, <3>1 DEF p
    <3>2. CASE i # 1
      <4>1. i - 1 \in 1 .. Len(qs) /\ (i - 1) + 1 = i /\ ~ (i <= 1)
        BY <1>1, <2>2, <3>2
      <4> QED
        BY <1>1, <2>2, <4>1
    <3> QED
      BY <3>1, <3>2
  <2> QED
    BY <2>2, <2>3, <2>4, SeqEqual DEF x
<1> HIDE DEF p, qs
<1>3. AllOf(Sent, ps) = Sent[p] \o AllOf(Sent, qs)
  <2>1. <<p>> \in Seq(Kinds)
    BY <1>1
  <2>2. AllOf(Sent, <<p>> \o qs) = AllOf(Sent, <<p>>) \o AllOf(Sent, qs)
    BY <1>1, <2>1, SentConcat, Zenon
  <2>3. AllOf(Sent, <<p>>) = Sent[p]
    BY <1>1, Tables, AllOfOne
  <2> QED
    BY <1>2, <2>2, <2>3
<1>4. ASSUME EscLast(ps) PROVE EscLast(qs) /\ (p = "esc" => qs = <<>>)
  <2>1. ASSUME NEW i \in 1 .. Len(qs), qs[i] = "esc" PROVE i = Len(qs)
    <3>1. i + 1 \in 1 .. Len(ps) /\ ps[i + 1] = "esc"
      BY <1>1, <2>1
    <3>2. i + 1 = Len(ps)
      BY <1>4, <3>1 DEF EscLast
    <3> QED
      BY <1>1, <3>2
  <2>2. p = "esc" => Len(ps) = 1
    BY <1>1, <1>4 DEF EscLast, p
  <2>3. p = "esc" => qs = <<>>
    BY <1>1, <2>2, EmptySeq
  <2> QED
    BY <2>1, <2>3 DEF EscLast
<1>5. Len(ps) = Len(qs) + 1
  BY <1>1
<1> QED
  BY <1>1, <1>2, <1>3, <1>4, <1>5 DEF p

(* The beginning of a press waits, save an ESC that is not held back.          *)
PartOf(b, p) ==
    /\ b # <<>> /\ Len(b) < Len(Sent[p])
    /\ \A i \in 1 .. Len(b) : b[i] = Sent[p][i]
    /\ Len(b) = 1 => b[1] # "ESC"

(* The beginning of a press is not decoded yet: it waits.                      *)
LEMMA PartWaits ==
    ASSUME NEW p \in Kinds, NEW b \in Seq(Bytes), PartOf(b, p)
    PROVE  FirstKey(b).length = 0
<1>1. PICK n \in Nat : n = Len(b)
  BY LenProperties
<1>2. n # 0 /\ n < Len(Sent[p])
  BY <1>1, EmptySeq DEF PartOf
<1>3. \A i \in 1 .. n : b[i] = Sent[p][i]
  BY <1>1 DEF PartOf
<1>4. CASE p \in {"esc", "letter", "enter"}
  <2>1. Len(Sent[p]) = 1
    <3>1. CASE p = "esc"
      BY <3>1, SentIs
    <3>2. CASE p = "letter"
      BY <3>2, SentIs
    <3>3. CASE p = "enter"
      BY <3>3, SentIs
    <3> QED
      BY <1>4, <3>1, <3>2, <3>3
  <2> QED
    BY <1>2, <2>1
<1>5. CASE p = "alt"
  <2>1. Len(Sent[p]) = 2
    BY <1>5, SentIs
  <2>2. Sent[p][1] = "ESC"
    BY <1>5, SentIs
  <2>3. n = 1
    BY <1>2, <2>1
  <2> QED
    BY <1>1, <1>3, <2>2, <2>3 DEF PartOf
<1>6. CASE p = "wide"
  <2>1. Len(Sent[p]) = 2
    BY <1>6, SentIs
  <2>2. Sent[p][1] = "LEAD"
    BY <1>6, SentIs
  <2>3. n = 1
    BY <1>2, <2>1
  <2>4. b[1] = "LEAD" /\ Len(b) = 1
    BY <1>1, <1>3, <2>2, <2>3
  <2>5. FirstKey(b) = Incomplete
    BY <2>4 DEF FirstKey, Letters, Parameters
  <2> QED
    BY <2>5 DEF Incomplete, Decoded
<1>7. CASE p \in {"up", "home", "f1"}
  <2>1. Len(Sent[p]) = IF p = "up" THEN 3 ELSE IF p = "home" THEN 4 ELSE 5
    <3>1. CASE p = "up"
      BY <3>1, SentIs
    <3>2. CASE p = "home"
      BY <3>2, SentIs
    <3>3. CASE p = "f1"
      BY <3>3, SentIs
    <3> QED
      BY <1>7, <3>1, <3>2, <3>3
  <2>2. /\ Sent[p][1] = "ESC" /\ Sent[p][2] = "["
        /\ p # "up" => Sent[p][3] = "1"
        /\ p = "f1" => Sent[p][4] = "1"
    <3>1. CASE p = "up"
      BY <3>1, SentIs
    <3>2. CASE p = "home"
      BY <3>2, SentIs
    <3>3. CASE p = "f1"
      BY <3>3, SentIs
    <3> QED
      BY <1>7, <3>1, <3>2, <3>3
  <2>3. b[1] = "ESC"
    BY <1>2, <1>3, <2>2
  <2>4. n # 1
    BY <1>1, <2>3 DEF PartOf
  <2>5. n = 2 \/ (n = 3 /\ p # "up") \/ (n = 4 /\ p = "f1")
    BY <1>2, <1>7, <2>1, <2>4
  <2>6. b[2] = "["
    BY <1>3, <2>2, <2>5
  <2>7. (n >= 3 => b[3] = "1") /\ (n = 4 => b[4] = "1")
    BY <1>3, <2>2, <2>5
  <2>8. FirstKey(b) = ParseEscape(b)
    BY <1>1, <2>3, <2>5, <2>6 DEF FirstKey, Letters, Parameters
  <2> DEFINE ends == {j \in 3 .. n : b[j] \notin Parameters}
  <2>9. ends = {}
    <3>1. ASSUME NEW j \in 3 .. n PROVE b[j] \in Parameters
      <4>1. (j = 3 /\ n >= 3) \/ (j = 4 /\ n = 4)
        BY <2>5
      <4> QED
        BY <2>7, <4>1 DEF Parameters
    <3> QED
      BY <3>1
  <2> HIDE DEF ends
  <2>10. ParseEscape(b) = Incomplete
    BY <1>1, <2>6, <2>9 DEF ParseEscape, ends
  <2> QED
    BY <2>8, <2>10 DEF Incomplete, Decoded
<1> QED
  BY <1>4, <1>5, <1>6, <1>7 DEF Kinds

-------------------------------------------------------------------------------
Parsed(b, c, done, left) ==
    /\ ParseKeys(b).keys = AllOf(Meant, done)
    /\ ParseKeys(b).rest \in Seq(Bytes)
    /\ ParseKeys(b).rest \o c = AllOf(Sent, left)
    /\ ParseKeys(b).rest # <<>> =>
           left # <<>> /\ Len(ParseKeys(b).rest) < Len(Sent[left[1]])

(* An ESC at the end is held back, unless another one follows.                 *)
HeldBack(b, c) == b # <<>> /\ Last(b) = "ESC" => c # <<>> /\ c[1] = "ESC"

Splits(ps, b, c) ==
    \E done \in Seq(Kinds), left \in Seq(Kinds) :
        ps = done \o left /\ Parsed(b, c, done, left)

(* Nothing of a press is lost: it waits.                                       *)
LEMMA WaitsForAll ==
    ASSUME NEW ps \in Seq(Kinds), NEW b \in Seq(Bytes), NEW c \in Seq(Bytes),
           b \o c = AllOf(Sent, ps),
           ParseKeys(b) = [keys |-> <<>>, rest |-> b],
           b # <<>> => ps # <<>> /\ Len(b) < Len(Sent[ps[1]])
    PROVE  Splits(ps, b, c)
<1>1. <<>> \in Seq(Kinds) /\ <<>> \o ps = ps
  BY EmptySeq, ConcatEmptySeq
<1>2. AllOf(Meant, <<>>) = <<>>
  BY Tables, AllOfNone
<1>3. ParseKeys(b).keys = <<>> /\ ParseKeys(b).rest = b
  OBVIOUS
<1>4. Parsed(b, c, <<>>, ps)
  BY <1>2, <1>3 DEF Parsed
<1> QED
  BY <1>1, <1>4 DEF Splits

(* Both ends of two sequences, one after the other.                            *)
LEMMA ConcatEnds ==
    ASSUME NEW S, NEW s \in Seq(S), NEW t \in Seq(S)
    PROVE  /\ s # <<>> => (s \o t)[1] = s[1]
           /\ t # <<>> => /\ (s \o t)[Len(s) + 1] = t[1]
                          /\ Last(s \o t) = Last(t)
           /\ \A i \in 1 .. Len(s) : (s \o t)[i] = s[i]
<1> DEFINE x == s \o t
<1>1. PICK m \in Nat, n \in Nat : m = Len(s) /\ n = Len(t)
  BY LenProperties
<1>2. /\ Len(x) = m + n
      /\ \A i \in 1 .. m + n : x[i] = IF i <= m THEN s[i] ELSE t[i - m]
  BY <1>1, ConcatProperties
<1> HIDE DEF x
<1>3. \A i \in 1 .. m : x[i] = s[i]
  BY <1>2
<1>4. s # <<>> => m # 0
  BY <1>1, EmptySeq
<1>5. s # <<>> => x[1] = s[1]
  BY <1>3, <1>4
<1>6. ASSUME t # <<>> PROVE x[m + 1] = t[1] /\ Last(x) = Last(t)
  <2>1. n # 0
    BY <1>1, <1>6, EmptySeq
  <2>2. m + 1 \in 1 .. m + n /\ (m + 1) - m = 1 /\ ~ (m + 1 <= m)
    BY <2>1
  <2>3. m + n \in 1 .. m + n /\ (m + n) - m = n /\ ~ (m + n <= m)
    BY <2>1
  <2>4. x[m + 1] = t[1]
    BY <1>2, <2>2
  <2>5. x[m + n] = t[n]
    BY <1>2, <2>3
  <2> QED
    BY <1>1, <1>2, <2>4, <2>5 DEF Last
<1> QED
  BY <1>1, <1>3, <1>5, <1>6 DEF x

(* ParseKeys (key.go:38-105): however the bytes of presses are cut, an ESC at  *)
(* the end being held back, what is decoded of the first part is what was meant*)
(* by the presses that are complete in it, and what is kept is the beginning of*)
(* the next one.                                                               *)
THEOREM ParsePresses ==
    ASSUME NEW presses \in Seq(Kinds), EscLast(presses),
           NEW bytes \in Seq(Bytes), NEW more \in Seq(Bytes),
           bytes \o more = AllOf(Sent, presses), HeldBack(bytes, more)
    PROVE  Splits(presses, bytes, more)
<1> DEFINE Right(ps, b, c) ==
               b \o c = AllOf(Sent, ps) /\ EscLast(ps) /\ HeldBack(b, c) =>
                   Splits(ps, b, c)
           T == {n \in Nat : \A ps \in Seq(Kinds), b, c \in Seq(Bytes) :
                                 Len(ps) = n => Right(ps, b, c)}
<1>1. ASSUME NEW ps \in Seq(Kinds), NEW b \in Seq(Bytes), NEW c \in Seq(Bytes),
             b \o c = AllOf(Sent, ps), EscLast(ps), HeldBack(b, c), b = <<>>
      PROVE  Splits(ps, b, c)
  BY <1>1, ParseStops, WaitsForAll
<1>2. 0 \in T
  <2>1. ASSUME NEW ps \in Seq(Kinds), NEW b \in Seq(Bytes), NEW c \in Seq(Bytes),
               Len(ps) = 0, b \o c = AllOf(Sent, ps), EscLast(ps), HeldBack(b, c)
        PROVE  Splits(ps, b, c)
    <3>1. ps = <<>>
      BY <2>1, EmptySeq
    <3>2. b \o c = <<>>
      BY <2>1, <3>1, Tables, AllOfNone
    <3>3. b = <<>>
      BY <3>2, ConcatSimplifications
    <3> QED
      BY <1>1, <2>1, <3>3
  <2> QED
    BY <2>1
<1>3. ASSUME NEW n \in T PROVE n + 1 \in T
  <2>1. ASSUME NEW ps \in Seq(Kinds), NEW b \in Seq(Bytes), NEW c \in Seq(Bytes),
               Len(ps) = n + 1, b \o c = AllOf(Sent, ps), EscLast(ps),
               HeldBack(b, c), b # <<>>
        PROVE  Splits(ps, b, c)
    <3>1. n \in Nat /\ ps # <<>>
      BY <2>1, EmptySeq
    <3>2. PICK qs \in Seq(Kinds) :
                   /\ ps = <<ps[1]>> \o qs /\ ps[1] \in Kinds
                   /\ Len(ps) = Len(qs) + 1
                   /\ AllOf(Sent, ps) = Sent[ps[1]] \o AllOf(Sent, qs)
                   /\ EscLast(ps) => EscLast(qs) /\ (ps[1] = "esc" => qs = <<>>)
      BY <3>1, FirstPress
    <3>3. PICK p \in Kinds : p = ps[1]
      BY <3>2
    <3>4. Sent[p] \in Seq(Bytes) /\ AllOf(Sent, qs) \in Seq(Bytes)
      BY Tables, AllOfType DEF Table
    <3>a. PICK s \in Seq(Bytes), a \in Seq(Bytes) : s = Sent[p] /\ a = AllOf(Sent, qs)
      BY <3>4
    <3>c. b \in Seq(Bytes) /\ c \in Seq(Bytes) /\ s \in Seq(Bytes) /\ a \in Seq(Bytes)
      BY <2>1, <3>a
    <3>5. b \o c = s \o a
      BY <2>1, <3>2, <3>3, <3>a
    <3>6. PICK l \in Nat, m \in Nat : l = Len(b) /\ m = Len(Sent[p])
      BY <3>4, LenProperties
    <3>b. l = Len(b) /\ m = Len(s)
      BY <3>6, <3>a
    <3>7. CASE p # "esc" /\ m <= l
      <4>1. PICK w \in Seq(Bytes) : b = Sent[p] \o w /\ w \o c = AllOf(Sent, qs)
        <5>1. PICK w \in Seq(Bytes) : b = s \o w /\ w \o c = a
          <6>1. Len(s) <= Len(b)
            BY <3>7, <3>b
          <6>2. Longer(b, c, s, a)
            BY <3>5, <6>1 DEF Longer
          <6>3. Cut(Bytes, b, c, s, a)
            BY <3>c, <6>2, BytesOverlap, Zenon
          <6> QED
            BY <6>3 DEF Cut
        <5> QED
          BY <5>1, <3>a
      <4>2. HeldBack(w, c)
        <5>1. b = s \o w /\ HeldBack(b, c)
          BY <2>1, <3>a, <4>1
        <5>2. ASSUME w # <<>> PROVE Last(s \o w) = Last(w) /\ s \o w # <<>>
          BY <5>2, ConcatEnds, ConcatSimplifications
        <5> QED
          BY <5>1, <5>2 DEF HeldBack
      <4>3. Len(qs) = n
        BY <2>1, <3>1, <3>2, LenProperties
      <4>4. Splits(qs, w, c)
        BY <2>1, <3>2, <4>1, <4>2, <4>3
      <4>5. PICK done \in Seq(Kinds), left \in Seq(Kinds) :
                     qs = done \o left /\ Parsed(w, c, done, left)
        BY <4>4 DEF Splits
      <4>6. AllOf(Meant, done) \in Seq(Plain) /\ <<p>> \in Seq(Kinds)
        BY Tables, AllOfType
      <4>7. w # <<>> => w[1] # "LF"
        <5>1. AllOf(Sent, qs) \in Seq(Bytes \ {"LF"})
          BY Tables, AllOfType
        <5>2. w # <<>> => w[1] = AllOf(Sent, qs)[1] /\ AllOf(Sent, qs) # <<>>
          BY <4>1, ConcatEnds, ConcatSimplifications
        <5>3. w # <<>> => AllOf(Sent, qs)[1] \in Bytes \ {"LF"}
          <6> DEFINE x == AllOf(Sent, qs)
          <6> HIDE DEF x
          <6>1. x \in Seq(Bytes \ {"LF"}) /\ (w # <<>> => x # <<>>)
            BY <5>1, <5>2 DEF x
          <6>2. w # <<>> => 1 \in 1 .. Len(x)
            BY <6>1, EmptySeq
          <6>3. w # <<>> => x[1] \in Bytes \ {"LF"}
            BY <6>1, <6>2, ElementOfSeq
          <6> QED
            BY <6>3 DEF x
        <5> QED
          BY <5>2, <5>3
      <4>8. /\ ParseKeys(b).keys = Meant[p] \o ParseKeys(w).keys
            /\ ParseKeys(b).rest = ParseKeys(w).rest
        <5>1. ParseKeys(w).keys \in Seq(Plain)
          BY <4>5, <4>6 DEF Parsed
        <5> QED
          BY <3>7, <4>1, <4>7, <5>1, PressParsed
      <4>9. ParseKeys(b).keys = AllOf(Meant, <<p>> \o done)
        <5>1. AllOf(Meant, <<p>> \o done) = AllOf(Meant, <<p>>) \o AllOf(Meant, done)
          BY <4>6, MeantConcat, Zenon
        <5>2. AllOf(Meant, <<p>>) = Meant[p]
          BY Tables, AllOfOne
        <5> QED
          BY <4>5, <4>8, <5>1, <5>2 DEF Parsed
      <4>10. Parsed(b, c, <<p>> \o done, left)
        BY <4>5, <4>8, <4>9 DEF Parsed
      <4>11. ps = (<<p>> \o done) \o left /\ <<p>> \o done \in Seq(Kinds)
        <5>1. PICK one \in Seq(Kinds) : one = <<p>>
          BY <4>6
        <5>2. (one \o done) \o left = one \o (done \o left)
          <6>1. Triple(Kinds, one, done, left)
            BY DEF Triple
          <6>2. Associate(one, done, left)
            BY <6>1, Associates
          <6> QED
            BY <6>2 DEF Associate
        <5> QED
          BY <3>2, <3>3, <4>5, <5>1, <5>2, ConcatProperties
      <4> QED
        BY <4>10, <4>11 DEF Splits
    <3>8. CASE p = "esc" /\ m <= l
      <4>1. qs = <<>> /\ AllOf(Sent, qs) = <<>> /\ Sent[p] = <<"ESC">>
        BY <2>1, <3>2, <3>3, <3>8, SentIs, Tables, AllOfNone
      <4>2. PICK w \in Seq(Bytes) : b = Sent[p] \o w /\ w \o c = <<>>
        <5>1. PICK w \in Seq(Bytes) : b = s \o w /\ w \o c = a
          <6>1. Len(s) <= Len(b)
            BY <3>8, <3>b
          <6>2. Longer(b, c, s, a)
            BY <3>5, <6>1 DEF Longer
          <6>3. Cut(Bytes, b, c, s, a)
            BY <3>c, <6>2, BytesOverlap, Zenon
          <6> QED
            BY <6>3 DEF Cut
        <5> QED
          BY <4>1, <5>1, <3>a
      <4>3. w = <<>> /\ c = <<>>
        BY <4>2, ConcatSimplifications
      <4>4. b = <<"ESC">>
        BY <3>4, <4>1, <4>2, <4>3, ConcatEmptySeq
      <4>5. Last(b) = "ESC"
        BY <4>4 DEF Last
      <4> QED
        BY <2>1, <4>3, <4>5 DEF HeldBack
    <3>9. CASE l < m
      <4>1. s \o a = b \o c
        BY <3>5
      <4>2. Len(b) <= Len(s)
        BY <3>9, <3>b
      <4>3. PICK w \in Seq(Bytes) : s = b \o w /\ w \o a = c
        <5>1. Longer(s, a, b, c)
          BY <4>1, <4>2 DEF Longer
        <5>2. Cut(Bytes, s, a, b, c)
          BY <3>c, <5>1, BytesOverlap, Zenon
        <5> QED
          BY <5>2 DEF Cut
      <4>4. w # <<>>
        <5>1. b \o <<>> = b
          BY ConcatEmptySeq
        <5> QED
          BY <3>9, <3>b, <4>3, <5>1
      <4>5. \A i \in 1 .. l : b[i] = s[i]
        BY <3>b, <4>3, ConcatEnds
      <4>6. ~ (l = 1 /\ b[1] = "ESC")
        <5> SUFFICES ASSUME l = 1, b[1] = "ESC" PROVE FALSE
          OBVIOUS
        <5>1. Last(b) = "ESC"
          BY <3>6 DEF Last
        <5>2. c[1] = "ESC"
          BY <2>1, <5>1 DEF HeldBack
        <5>3. c[1] = w[1]
          BY <4>3, <4>4, ConcatEnds
        <5>4. s[l + 1] = w[1]
          <6>1. (b \o w)[Len(b) + 1] = w[1]
            BY <4>4, ConcatEnds
          <6> QED
            BY <3>b, <4>3, <6>1
        <5>5. l + 1 \in 2 .. Len(Sent[p])
          BY <3>6, <3>9
        <5> QED
          BY <3>a, <5>2, <5>3, <5>4, <5>5, SentBytes
      <4>7. PartOf(b, p)
        BY <2>1, <3>6, <3>9, <3>a, <4>5, <4>6 DEF PartOf
      <4>8. ParseKeys(b) = [keys |-> <<>>, rest |-> b]
        BY <4>7, PartWaits, ParseStops
      <4>9. Len(b) < Len(Sent[ps[1]])
        BY <3>3, <3>6, <3>9
      <4> QED
        BY <2>1, <3>1, <4>8, <4>9, WaitsForAll
    <3> QED
      BY <3>6, <3>7, <3>8, <3>9
  <2>2. ASSUME NEW ps \in Seq(Kinds), NEW b \in Seq(Bytes), NEW c \in Seq(Bytes),
               Len(ps) = n + 1
        PROVE  Right(ps, b, c)
    BY <1>1, <2>1, <2>2
  <2> HIDE DEF Right
  <2>3. n + 1 \in Nat
    OBVIOUS
  <2> QED
    BY <2>2, <2>3
<1> HIDE DEF T
<1>4. T = Nat
  <2>1. T \in SUBSET Nat
    BY DEF T
  <2> QED
    BY <1>2, <1>3, <2>1, Upwards
<1>5. Len(presses) \in T
  BY <1>4, LenProperties
<1>6. Right(presses, bytes, more)
  <2> HIDE DEF Right
  <2> QED
    BY <1>5 DEF T
<1> QED
  BY <1>6

-------------------------------------------------------------------------------
(* What was heard, what waits, and what is still on its way, of some presses.  *)
Waits(rest, more, left) ==
    /\ rest \o more = AllOf(Sent, left)
    /\ EscLast(left)
    /\ rest # <<>> => /\ left # <<>>
                      /\ Len(rest) <= Len(Sent[left[1]])
                      /\ Len(rest) = Len(Sent[left[1]]) => left[1] = "esc"

Follows(heard, rest, more, presses) ==
    \E done \in Seq(Kinds), left \in Seq(Kinds) :
        /\ presses = done \o left
        /\ heard = AllOf(Meant, done)
        /\ Waits(rest, more, left)

(* Every press sends some bytes.                                               *)
LEMMA SomeBytes ==
    ASSUME NEW presses \in Seq(Kinds), AllOf(Sent, presses) = <<>>
    PROVE  presses = <<>>
<1> SUFFICES ASSUME presses # <<>> PROVE FALSE
  OBVIOUS
<1>1. PICK qs \in Seq(Kinds) :
               /\ presses[1] \in Kinds
               /\ AllOf(Sent, presses) = Sent[presses[1]] \o AllOf(Sent, qs)
  BY FirstPress
<1>2. PICK s, a \in Seq(Bytes) : s = Sent[presses[1]] /\ a = AllOf(Sent, qs)
  BY <1>1, Tables, AllOfType DEF Table
<1>3. s \o a = <<>>
  BY <1>1, <1>2
<1>4. s = <<>>
  BY <1>2, <1>3, ConcatSimplifications
<1>5. Len(s) # 0
  <2>1. PICK n \in 1 .. 5 : n = Len(Sent[presses[1]])
    BY <1>1, SentBytes
  <2>2. Len(s) = n
    BY <1>2, <2>1
  <2> QED
    BY <2>2
<1> QED
  BY <1>4, <1>5

(* An Esc that comes last of all comes last of those that are left.            *)
LEMMA EscLastOfConcat ==
    ASSUME NEW done \in Seq(Kinds), NEW left \in Seq(Kinds), EscLast(done \o left)
    PROVE  EscLast(left)
<1>1. PICK m \in Nat, n \in Nat : m = Len(done) /\ n = Len(left)
  BY LenProperties
<1>2. PICK ps \in Seq(Kinds) :
               /\ ps = done \o left /\ Len(ps) = m + n
               /\ \A i \in 1 .. m + n : ps[i] = IF i <= m THEN done[i] ELSE left[i - m]
  <2> DEFINE x == done \o left
  <2>1. /\ x \in Seq(Kinds) /\ Len(x) = m + n
        /\ \A i \in 1 .. m + n : x[i] = IF i <= m THEN done[i] ELSE left[i - m]
    BY <1>1, ConcatProperties
  <2> HIDE DEF x
  <2>2. x = done \o left
    BY DEF x
  <2> QED
    BY <2>1, <2>2
<1>3. ASSUME NEW i \in 1 .. n, left[i] = "esc" PROVE i = n
  <2>1. m + i \in 1 .. m + n /\ ~ (m + i <= m) /\ (m + i) - m = i
    OBVIOUS
  <2>2. ps[m + i] = "esc"
    BY <1>2, <1>3, <2>1
  <2>3. m + i = m + n
    BY <1>2, <2>1, <2>2 DEF EscLast
  <2> QED
    BY <2>3
<1> QED
  BY <1>1, <1>3 DEF EscLast

(* An ESC that is held back joins what waits.                                  *)
LEMMA HeldWaits ==
    ASSUME NEW left \in Seq(Kinds), NEW rest \in Seq(Bytes), NEW more \in Seq(Bytes),
           rest \o (<<"ESC">> \o more) = AllOf(Sent, left), EscLast(left),
           rest # <<>> => left # <<>> /\ Len(rest) < Len(Sent[left[1]])
    PROVE  Waits(rest \o <<"ESC">>, more, left)
<1>1. PICK h \in Seq(Bytes) : h = <<"ESC">> /\ Len(h) = 1 /\ h # <<>> /\ h[1] = "ESC"
  <2>1. "ESC" \in Bytes
    BY DEF Bytes
  <2>2. <<"ESC">> \in Seq(Bytes)
    BY <2>1
  <2>3. Len(<<"ESC">>) = 1 /\ <<"ESC">> # <<>> /\ <<"ESC">>[1] = "ESC"
    OBVIOUS
  <2> QED
    BY <2>2, <2>3
<1>2. h \o more \in Seq(Bytes) /\ rest \o h \in Seq(Bytes)
  BY ConcatProperties
<1>3. PICK u \in Seq(Bytes) : u = h \o more /\ u # <<>> /\ u[1] = "ESC"
  <2>1. (h \o more)[1] = "ESC"
    BY <1>1, ConcatEnds
  <2>2. h \o more # <<>>
    BY <1>1, ConcatSimplifications
  <2> QED
    BY <1>2, <2>1, <2>2
<1>4. (rest \o h) \o more = rest \o (h \o more)
  BY BytesAssociate, Zenon
<1>5. left # <<>>
  <2> SUFFICES ASSUME left = <<>> PROVE FALSE
    OBVIOUS
  <2>1. rest \o u = <<>>
    BY <1>1, <1>3, Tables, AllOfNone
  <2> QED
    BY <1>3, <2>1, ConcatSimplifications
<1>6. PICK qs \in Seq(Kinds) :
               /\ left[1] \in Kinds
               /\ AllOf(Sent, left) = Sent[left[1]] \o AllOf(Sent, qs)
  BY <1>5, FirstPress
<1>7. PICK p \in Kinds, s \in Seq(Bytes), a \in Seq(Bytes) :
               p = left[1] /\ s = Sent[p] /\ a = AllOf(Sent, qs)
  BY <1>6, Tables, AllOfType DEF Table
<1>8. rest \o u = s \o a
  BY <1>1, <1>3, <1>6, <1>7
<1>9. PICK m \in Nat, n \in Nat : m = Len(rest) /\ n = Len(s)
  BY LenProperties
<1>10. (s \o a)[m + 1] = "ESC"
  <2>1. (rest \o u)[Len(rest) + 1] = u[1]
    BY <1>3, ConcatEnds
  <2> QED
    BY <1>3, <1>8, <1>9, <2>1
<1>11. CASE rest = <<>>
  <2>1. m = 0
    BY <1>9, <1>11
  <2>2. rest \o h = h
    BY <1>11, ConcatEmptySeq
  <2>3. n \in 1 .. 5
    BY <1>7, <1>9, SentBytes
  <2>4. s[1] = "ESC"
    <3>1. s # <<>>
      <4>1. s = <<>> => n = 0
        BY <1>9
      <4> QED
        BY <2>3, <4>1
    <3>2. (s \o a)[1] = s[1]
      BY <3>1, ConcatEnds
    <3>3. m + 1 = 1
      BY <2>1
    <3>4. (s \o a)[1] = "ESC"
      BY <1>10, <3>3
    <3> QED
      BY <3>2, <3>4
  <2>5. n = 1 => p = "esc"
    BY <1>7, <1>9, <2>4, SentBytes
  <2>6. /\ Len(rest \o h) <= Len(Sent[left[1]])
        /\ Len(rest \o h) = Len(Sent[left[1]]) => left[1] = "esc"
    <3>1. Len(rest \o h) = 1
      BY <1>1, <2>2
    <3>2. Len(Sent[left[1]]) = n /\ left[1] = p
      BY <1>7, <1>9
    <3>3. 1 <= n
      BY <2>3
    <3> QED
      BY <2>5, <3>1, <3>2, <3>3
  <2> QED
    BY <1>1, <1>3, <1>4, <1>5, <2>6 DEF Waits
<1>12. CASE rest # <<>>
  <2>1. m < n
    BY <1>7, <1>9, <1>12
  <2>2. m # 0
    BY <1>9, <1>12, EmptySeq
  <2>3. m + 1 \in 2 .. n /\ m + 1 \in 1 .. n
    BY <2>1, <2>2
  <2>4. s[m + 1] = "ESC"
    BY <1>9, <1>10, <2>3, ConcatEnds
  <2>5. s[m + 1] # "ESC"
    BY <1>7, <1>9, <2>3, SentBytes
  <2> QED
    BY <2>4, <2>5
<1> QED
  BY <1>11, <1>12

(* A chunk joins what waits: no press is lost, none is heard in part.          *)
ToParse(left, bytes, held, more) ==
    /\ bytes \o (held \o more) = AllOf(Sent, left) /\ EscLast(left)
    /\ held \in {<<>>, <<"ESC">>}
    /\ held = <<>> => bytes = <<>> \/ Last(bytes) # "ESC"

ParsedInto(left, bytes, held, more) ==
    \E done \in Seq(Kinds), after \in Seq(Kinds) :
        /\ left = done \o after
        /\ ParseKeys(bytes).keys = AllOf(Meant, done)
        /\ ParseKeys(bytes).rest \o held \in Seq(Bytes)
        /\ Waits(ParseKeys(bytes).rest \o held, more, after)

(* A chunk joins what waits: no press is lost, none is heard in part.          *)
LEMMA ChunkFollows ==
    \A left \in Seq(Kinds), bytes, held, more \in Seq(Bytes) :
        ToParse(left, bytes, held, more) => ParsedInto(left, bytes, held, more)
<1> SUFFICES ASSUME NEW left \in Seq(Kinds), NEW bytes \in Seq(Bytes),
                    NEW held \in Seq(Bytes), NEW more \in Seq(Bytes),
                    ToParse(left, bytes, held, more)
             PROVE  ParsedInto(left, bytes, held, more)
  OBVIOUS
<1>1. /\ bytes \o (held \o more) = AllOf(Sent, left) /\ EscLast(left)
      /\ held \in {<<>>, <<"ESC">>}
      /\ held = <<>> => bytes = <<>> \/ Last(bytes) # "ESC"
  BY DEF ToParse
<1>2. PICK c \in Seq(Bytes) : c = held \o more
  BY ConcatProperties
<1>3. HeldBack(bytes, c)
  <2>1. CASE held = <<>>
    BY <1>1, <2>1 DEF HeldBack
  <2>2. CASE held = <<"ESC">>
    <3>1. held # <<>> /\ held[1] = "ESC"
      BY <2>2
    <3>2. c # <<>>
      BY <1>2, <3>1, ConcatSimplifications
    <3>3. c[1] = "ESC"
      BY <1>2, <3>1, ConcatEnds
    <3> QED
      BY <3>2, <3>3 DEF HeldBack
  <2> QED
    BY <1>1, <2>1, <2>2
<1>4. bytes \o c = AllOf(Sent, left)
  BY <1>1, <1>2
<1>5. Splits(left, bytes, c)
  BY <1>1, <1>3, <1>4, ParsePresses
<1>6. PICK done \in Seq(Kinds), after \in Seq(Kinds) :
               left = done \o after /\ Parsed(bytes, c, done, after)
  BY <1>5 DEF Splits
<1>7. PICK rest \in Seq(Bytes) :
               /\ rest = ParseKeys(bytes).rest
               /\ rest \o c = AllOf(Sent, after)
               /\ rest # <<>> => after # <<>> /\ Len(rest) < Len(Sent[after[1]])
  BY <1>6 DEF Parsed
<1>8. EscLast(after)
  BY <1>1, <1>6, EscLastOfConcat
<1>9. rest \o held \in Seq(Bytes)
  BY ConcatProperties
<1>10. Waits(rest \o held, more, after)
  <2>1. CASE held = <<>>
    <3>1. c = more /\ rest \o held = rest
      BY <1>2, <2>1, ConcatEmptySeq
    <3>2. rest # <<>> => Len(Sent[after[1]]) \in Nat
      <4>1. rest # <<>> => after[1] \in Kinds
        BY <1>7, FirstPress
      <4> QED
        BY <4>1, SentBytes
    <3>3. PICK m \in Nat : m = Len(rest)
      BY LenProperties
    <3>4. rest # <<>> => /\ after # <<>>
                         /\ Len(rest) <= Len(Sent[after[1]])
                         /\ Len(rest) # Len(Sent[after[1]])
      BY <1>7, <3>2, <3>3
    <3> QED
      BY <1>7, <1>8, <3>1, <3>4 DEF Waits
  <2>2. CASE held = <<"ESC">>
    <3>1. rest \o (<<"ESC">> \o more) = AllOf(Sent, after)
      BY <1>2, <1>7, <2>2
    <3> QED
      BY <1>7, <1>8, <2>2, <3>1, HeldWaits
  <2> QED
    BY <1>1, <2>1, <2>2
<1> QED
  BY <1>6, <1>7, <1>9, <1>10 DEF Parsed, ParsedInto

(* The cut before an ESC at the end, if there is one.                          *)
LEMMA HeldCut ==
    ASSUME NEW buf \in Seq(Bytes), buf # <<>>
    PROVE  \E bytes \in Seq(Bytes), held \in {<<>>, <<"ESC">>} :
               /\ bytes = SubSeq(buf, 1, Len(buf) - Held(buf))
               /\ held = SubSeq(buf, Len(buf) - Held(buf) + 1, Len(buf))
               /\ bytes \o held = buf
               /\ held = <<>> => bytes = <<>> \/ Last(bytes) # "ESC"
<1>1. PICK n \in Nat \ {0} : n = Len(buf)
  BY EmptySeq
<1>2. CASE Last(buf) = "ESC"
  <2>1. Held(buf) = 1
    BY <1>2 DEF Held
  <2>2. buf[n] = "ESC"
    BY <1>1, <1>2 DEF Last
  <2>3. n - 1 \in 0 .. n /\ (n - 1) + 1 = n /\ n \in 1 .. n
    OBVIOUS
  <2>4. SubSeq(buf, n, n) = <<"ESC">>
    <3>1. SubSeq(buf, n, n) = <<buf[n]>> \o SubSeq(buf, n + 1, n)
      BY <1>1, <2>3, SubSeqRecursiveFirst
    <3>2. SubSeq(buf, n + 1, n) = <<>>
      BY SubSeqEmpty
    <3>3. <<"ESC">> \o <<>> = <<"ESC">>
      <4>1. <<"ESC">> \in Seq({"ESC"})
        OBVIOUS
      <4> QED
        BY <4>1, ConcatEmptySeq
    <3> QED
      BY <2>2, <3>1, <3>2, <3>3
  <2>5. SubSeq(buf, 1, n - 1) \in Seq(Bytes)
    <3>1. \A i \in 1 .. n - 1 : buf[i] \in Bytes
      BY <1>1, ElementOfSeq
    <3> QED
      BY <3>1, SubSeqProperties
  <2>6. SubSeq(buf, 1, n - 1) \o SubSeq(buf, n, n) = buf
    <3>1. /\ n - 1 \in 1 - 1 .. Len(buf) /\ n \in n - 1 .. Len(buf)
          /\ 1 \in 1 .. Len(buf) + 1
      BY <1>1
    <3>2. SubSeq(buf, 1, n - 1) \o SubSeq(buf, (n - 1) + 1, n) = SubSeq(buf, 1, n)
      BY <3>1, ConcatAdjacentSubSeq
    <3> QED
      BY <1>1, <2>3, <3>2, SubSeqFull
  <2> QED
    BY <1>1, <2>1, <2>3, <2>4, <2>5, <2>6
<1>3. CASE Last(buf) # "ESC"
  <2>1. Held(buf) = 0
    BY <1>3 DEF Held
  <2>2. SubSeq(buf, 1, n) = buf
    BY <1>1, SubSeqFull
  <2>3. SubSeq(buf, n + 1, n) = <<>>
    BY SubSeqEmpty
  <2>4. buf \o <<>> = buf
    BY ConcatEmptySeq
  <2>5. n - 0 = n
    OBVIOUS
  <2> QED
    BY <1>1, <1>3, <2>1, <2>2, <2>3, <2>4, <2>5
<1> QED
  BY <1>2, <1>3

(* The keyer takes a chunk, and holds back an ESC at its end.                  *)
Joined(rest, came, bytes, held) ==
    /\ bytes \o held = rest \o came
    /\ held \in {<<>>, <<"ESC">>}
    /\ held = <<>> => bytes = <<>> \/ Last(bytes) # "ESC"

(* The same, when what is held back is cut off before.                         *)
LEMMA JoinedFollows ==
    ASSUME NEW heard \in Seq(Names), NEW rest \in Seq(Bytes),
           NEW came \in Seq(Bytes), NEW more \in Seq(Bytes),
           NEW presses \in Seq(Kinds),
           Follows(heard, rest, came \o more, presses),
           NEW bytes \in Seq(Bytes), NEW held \in Seq(Bytes),
           Joined(rest, came, bytes, held)
    PROVE  /\ ParseKeys(bytes).keys \in Seq(Plain)
           /\ ParseKeys(bytes).rest \o held \in Seq(Bytes)
           /\ Follows(heard \o ParseKeys(bytes).keys, ParseKeys(bytes).rest \o held,
                      more, presses)
<1>1. PICK done \in Seq(Kinds), left \in Seq(Kinds) :
               /\ presses = done \o left
               /\ heard = AllOf(Meant, done)
               /\ rest \o (came \o more) = AllOf(Sent, left)
               /\ EscLast(left)
  BY DEF Follows, Waits
<1>2. bytes \o (held \o more) = AllOf(Sent, left)
  <2>1. (bytes \o held) \o more = bytes \o (held \o more)
    <3>1. Triple(Bytes, bytes, held, more)
      BY DEF Triple
    <3>2. Associate(bytes, held, more)
      BY <3>1, Associates
    <3> QED
      BY <3>2 DEF Associate
  <2>2. (rest \o came) \o more = rest \o (came \o more)
    <3>1. Triple(Bytes, rest, came, more)
      BY DEF Triple
    <3>2. Associate(rest, came, more)
      BY <3>1, Associates
    <3> QED
      BY <3>2 DEF Associate
  <2>3. bytes \o held = rest \o came
    BY DEF Joined
  <2> QED
    BY <1>1, <2>1, <2>2, <2>3, Zenon
<1>3. PICK now \in Seq(Kinds), after \in Seq(Kinds) :
               /\ left = now \o after
               /\ ParseKeys(bytes).keys = AllOf(Meant, now)
               /\ ParseKeys(bytes).rest \o held \in Seq(Bytes)
               /\ Waits(ParseKeys(bytes).rest \o held, more, after)
  <2>1. ToParse(left, bytes, held, more)
    BY <1>1, <1>2 DEF Joined, ToParse
  <2>2. ParsedInto(left, bytes, held, more)
    BY <1>1, <2>1, ChunkFollows
  <2> QED
    BY <2>2 DEF ParsedInto
<1>4. done \o now \in Seq(Kinds)
  BY ConcatProperties
<1>5. presses = (done \o now) \o after
  <2>1. (done \o now) \o after = done \o (now \o after)
    <3>1. Triple(Kinds, done, now, after)
      BY <1>1, <1>3 DEF Triple
    <3>2. Associate(done, now, after)
      BY <3>1, Associates
    <3> QED
      BY <3>2 DEF Associate
  <2> QED
    BY <1>1, <1>3, <2>1, Zenon
<1>6. heard \o ParseKeys(bytes).keys = AllOf(Meant, done \o now)
  <2>1. AllOf(Meant, done \o now) = AllOf(Meant, done) \o AllOf(Meant, now)
    BY MeantConcat, Zenon
  <2> QED
    BY <1>1, <1>3, <2>1, Zenon
<1>7. AllOf(Meant, now) \in Seq(Plain)
  BY Tables, AllOfType
<1> QED
  BY <1>3, <1>4, <1>5, <1>6, <1>7, Zenon DEF Follows

TakenFrom(heard, rest, came, more, presses) ==
    \E bytes \in Seq(Bytes), held \in Seq(Bytes), buf \in Seq(Bytes) :
        /\ buf = rest \o came
        /\ bytes = SubSeq(buf, 1, Len(buf) - Held(buf))
        /\ held = SubSeq(buf, Len(buf) - Held(buf) + 1, Len(buf))
        /\ ParseKeys(bytes).keys \in Seq(Plain)
        /\ ParseKeys(bytes).rest \o held \in Seq(Bytes)
        /\ Follows(heard \o ParseKeys(bytes).keys, ParseKeys(bytes).rest \o held,
                   more, presses)

ToTake(heard, rest, came, more, presses) ==
    came # <<>> /\ Follows(heard, rest, came \o more, presses)

(* The same, for what was heard before.                                        *)
LEMMA TakenFollows ==
    \A heard \in Seq(Names), rest, came, more \in Seq(Bytes), presses \in Seq(Kinds) :
        ToTake(heard, rest, came, more, presses) =>
            TakenFrom(heard, rest, came, more, presses)
<1> SUFFICES ASSUME NEW heard \in Seq(Names), NEW rest \in Seq(Bytes),
                    NEW came \in Seq(Bytes), NEW more \in Seq(Bytes),
                    NEW presses \in Seq(Kinds),
                    ToTake(heard, rest, came, more, presses)
             PROVE  TakenFrom(heard, rest, came, more, presses)
  OBVIOUS
<1>0. came # <<>> /\ Follows(heard, rest, came \o more, presses)
  BY DEF ToTake
<1>1. PICK buf \in Seq(Bytes) : buf = rest \o came /\ buf # <<>>
  <2>1. rest \o came \in Seq(Bytes)
    BY ConcatProperties
  <2>2. rest \o came # <<>>
    BY <1>0, ConcatSimplifications
  <2> QED
    BY <2>1, <2>2
<1>2. PICK bytes \in Seq(Bytes), held \in {<<>>, <<"ESC">>} :
               /\ bytes = SubSeq(buf, 1, Len(buf) - Held(buf))
               /\ held = SubSeq(buf, Len(buf) - Held(buf) + 1, Len(buf))
               /\ bytes \o held = buf
               /\ held = <<>> => bytes = <<>> \/ Last(bytes) # "ESC"
  BY <1>1, HeldCut
<1>3. held \in Seq(Bytes)
  <2>1. "ESC" \in Bytes
    BY DEF Bytes
  <2>2. <<"ESC">> \in Seq(Bytes)
    BY <2>1
  <2> QED
    BY <1>2, <2>2, EmptySeq
<1>4. Joined(rest, came, bytes, held)
  BY <1>1, <1>2 DEF Joined
<1>5. /\ ParseKeys(bytes).keys \in Seq(Plain)
      /\ ParseKeys(bytes).rest \o held \in Seq(Bytes)
      /\ Follows(heard \o ParseKeys(bytes).keys, ParseKeys(bytes).rest \o held,
                 more, presses)
  BY <1>0, <1>3, <1>4, JoinedFollows
<1> QED
  BY <1>1, <1>2, <1>3, <1>5 DEF TakenFrom

(* One more press.                                                             *)
LEMMA KindsAppend ==
    \A ps \in Seq(Kinds), p \in Kinds :
        /\ Len(Append(ps, p)) = Len(ps) + 1
        /\ \A i \in 1 .. Len(ps) : Append(ps, p)[i] = ps[i]
        /\ Append(ps, p) # <<>>
  BY AppendProperties

(* A press: only one after an Esc that still waits is not followed.            *)
LEMMA PressFollows ==
    ASSUME NEW heard \in Seq(Names), NEW rest \in Seq(Bytes), NEW more \in Seq(Bytes),
           NEW presses \in Seq(Kinds), NEW p \in Kinds,
           Follows(heard, rest, more, presses),
           presses # <<>> /\ Last(presses) = "esc" => rest \o more = <<>>
    PROVE  Follows(heard, rest, more \o Sent[p], Append(presses, p))
<1>1. PICK done \in Seq(Kinds), left \in Seq(Kinds) :
               /\ presses = done \o left
               /\ heard = AllOf(Meant, done)
               /\ Waits(rest, more, left)
  BY DEF Follows
<1>2. PICK after \in Seq(Kinds) : after = Append(left, p)
  BY AppendProperties
<1>3. Append(presses, p) = done \o after
  <2>1. PICK one \in Seq(Kinds) : one = <<p>>
    <3>1. <<p>> \in Seq(Kinds)
      OBVIOUS
    <3> QED
      BY <3>1
  <2>2. Append(presses, p) = presses \o one /\ after = left \o one
    BY <1>2, <2>1, AppendIsConcat
  <2>3. (done \o left) \o one = done \o (left \o one)
    BY KindsAssociate, Zenon
  <2> QED
    BY <1>1, <2>2, <2>3, Zenon
<1>4. rest \o (more \o Sent[p]) = AllOf(Sent, after)
  <2>1. PICK s \in Seq(Bytes) : s = Sent[p]
    BY Tables DEF Table
  <2>2. AllOf(Sent, after) = AllOf(Sent, left) \o s
    <3>1. Table(Sent, Kinds, Bytes)
      BY Tables
    <3>2. AllOf(Sent, Append(left, p)) = AllOf(Sent, left) \o Sent[p]
      BY <3>1, AllOfAppend
    <3> QED
      BY <1>2, <2>1, <3>2
  <2>3. (rest \o more) \o s = rest \o (more \o s)
    BY BytesAssociate, Zenon
  <2>4. rest \o more = AllOf(Sent, left)
    BY <1>1 DEF Waits
  <2> QED
    BY <2>1, <2>2, <2>3, <2>4, Zenon
<1>5. PICK n \in Nat : n = Len(left)
  BY LenProperties
<1>6. /\ Len(after) = n + 1
      /\ \A i \in 1 .. n : after[i] = left[i]
      /\ after # <<>>
  BY <1>2, <1>5, KindsAppend, Zenon
<1>7. EscLast(after)
  <2>1. ASSUME NEW i \in 1 .. n + 1, after[i] = "esc", i # n + 1 PROVE FALSE
    <3>1. i \in 1 .. n
      BY <2>1
    <3>2. left[i] = "esc"
      BY <1>6, <2>1, <3>1
    <3>3. i = n
      BY <1>1, <1>5, <3>1, <3>2 DEF Waits, EscLast
    <3>4. left # <<>>
      BY <1>5, <3>1
    <3>5. Last(left) = "esc"
      BY <1>5, <3>2, <3>3 DEF Last
    <3>6. Last(presses) = "esc"
      BY <1>1, <3>4, <3>5, ConcatEnds
    <3>7. presses # <<>>
      BY <1>1, <3>4, ConcatSimplifications
    <3>8. rest \o more = <<>>
      BY <3>6, <3>7
    <3>9. AllOf(Sent, left) = <<>>
      BY <1>1, <3>8 DEF Waits
    <3> QED
      BY <3>4, <3>9, SomeBytes
  <2> QED
    BY <1>6, <2>1 DEF EscLast
<1>8. rest # <<>> => /\ after # <<>>
                     /\ Len(rest) <= Len(Sent[after[1]])
                     /\ Len(rest) = Len(Sent[after[1]]) => after[1] = "esc"
  <2>1. rest # <<>> => left # <<>>
    BY <1>1 DEF Waits
  <2>2. left # <<>> => 1 \in 1 .. n
    BY <1>5, EmptySeq
  <2>3. rest # <<>> => after[1] = left[1]
    BY <1>6, <2>1, <2>2
  <2> QED
    BY <1>1, <1>6, <2>3 DEF Waits
<1>9. Waits(rest, more \o Sent[p], after)
  BY <1>4, <1>7, <1>8 DEF Waits
<1> QED
  BY <1>1, <1>3, <1>9 DEF Follows

(* What is heard is the beginning of what was meant, and all of it when there  *)
(* is no byte left.                                                            *)
LEMMA FollowedHeard ==
    ASSUME NEW heard \in Seq(Names), NEW rest \in Seq(Bytes), NEW more \in Seq(Bytes),
           NEW presses \in Seq(Kinds), Follows(heard, rest, more, presses)
    PROVE  /\ IsPrefix(heard, AllOf(Meant, presses))
           /\ rest \o more = <<>> => heard = AllOf(Meant, presses)
<1>1. PICK done \in Seq(Kinds), left \in Seq(Kinds) :
               /\ presses = done \o left
               /\ heard = AllOf(Meant, done)
               /\ rest \o more = AllOf(Sent, left)
  BY DEF Follows, Waits
<1>2. AllOf(Meant, presses) = AllOf(Meant, done) \o AllOf(Meant, left)
  BY <1>1, MeantConcat, Zenon
<1>3. PICK all \in Seq(Names), a \in Seq(Names) :
               all = AllOf(Meant, presses) /\ a = AllOf(Meant, left)
  <2>1. AllOf(Meant, presses) \in Seq(Plain) /\ AllOf(Meant, left) \in Seq(Plain)
    BY Tables, AllOfType
  <2>2. Plain \subseteq Names
    BY DEF Plain
  <2>3. AllOf(Meant, presses) \in Seq(Names) /\ AllOf(Meant, left) \in Seq(Names)
    BY <2>1, <2>2, SeqMonotonic
  <2> QED
    BY <2>3
<1>4. all = heard \o a
  BY <1>1, <1>2, <1>3
<1>5. IsPrefix(heard, all)
  <2>1. PICK m \in Nat, n \in Nat : m = Len(heard) /\ n = Len(a)
    BY LenProperties
  <2>2. Len(all) = m + n
    BY <1>4, <2>1, ConcatProperties
  <2>3. \A i \in 1 .. m : heard[i] = all[i]
    BY <1>4, <2>1, ConcatEnds
  <2>4. DOMAIN heard = 1 .. m /\ DOMAIN all = 1 .. m + n
    BY <2>1, <2>2, LenProperties
  <2> QED
    BY <2>1, <2>2, <2>3, <2>4 DEF IsPrefix
<1>6. ASSUME rest \o more = <<>> PROVE heard = all
  <2>1. left = <<>>
    BY <1>1, <1>6, SomeBytes
  <2>2. a = <<>>
    BY <1>3, <2>1, Tables, AllOfNone
  <2> QED
    BY <1>4, <2>2, ConcatEmptySeq
<1> QED
  BY <1>3, <1>5, <1>6

(* The bytes of some presses and of others after them, in number.              *)
LEMMA SentLength ==
    \A ps, qs \in Seq(Kinds) :
        /\ Len(AllOf(Sent, ps)) \in Nat
        /\ Len(AllOf(Sent, ps \o qs)) = Len(AllOf(Sent, ps)) + Len(AllOf(Sent, qs))
<1> SUFFICES ASSUME NEW ps \in Seq(Kinds), NEW qs \in Seq(Kinds)
             PROVE  /\ Len(AllOf(Sent, ps)) \in Nat
                    /\ Len(AllOf(Sent, ps \o qs)) =
                           Len(AllOf(Sent, ps)) + Len(AllOf(Sent, qs))
  OBVIOUS
<1>1. PICK s \in Seq(Bytes), t \in Seq(Bytes) :
               s = AllOf(Sent, ps) /\ t = AllOf(Sent, qs)
  BY Tables, AllOfType
<1>2. AllOf(Sent, ps \o qs) = s \o t
  BY <1>1, SentConcat, Zenon
<1>3. Len(s \o t) = Len(s) + Len(t) /\ Len(s) \in Nat
  BY ConcatProperties, LenProperties
<1> QED
  BY <1>1, <1>2, <1>3, Zenon

(* flushPending: nothing gives nothing, and an ESC alone is an Esc.            *)
LEMMA FlushedEsc ==
    FlushPending(<<>>) = <<>> /\ FlushPending(<<"ESC">>) = <<"Esc">>
<1>1. FlushPending(<<>>) = <<>>
  BY DEF FlushPending
<1>2. Tail(<<"ESC">>) = <<>>
  OBVIOUS
<1>3. ParseKeys(<<>>).keys = <<>>
  <2>1. <<>> \in Seq(Bytes)
    BY EmptySeq
  <2>2. ParseKeys(<<>>) = [keys |-> <<>>, rest |-> <<>>]
    BY <2>1, ParseStops
  <2> QED
    BY <2>2
<1>4. <<"Esc">> \o <<>> = <<"Esc">>
  <2>1. <<"Esc">> \in Seq({"Esc"})
    OBVIOUS
  <2> QED
    BY <2>1, ConcatEmptySeq
<1>5. <<"ESC">> # <<>> /\ <<"ESC">>[1] = "ESC"
  OBVIOUS
<1>6. FlushPending(<<"ESC">>) = <<"Esc">> \o ParseKeys(Tail(<<"ESC">>)).keys
  BY <1>5 DEF FlushPending
<1> QED
  BY <1>1, <1>2, <1>3, <1>4, <1>6

(* The longer of two beginnings of presses goes on where the other ends.       *)
LEMMA KindsOverlap ==
    \A s, t, u, v \in Seq(Kinds) : Longer(s, t, u, v) => Cut(Kinds, s, t, u, v)
  BY Overlap DEF Longer, Cut

(* When the bytes that wait are all of the presses that have come, they are    *)
(* one Esc.                                                                    *)
LEMMA AllWait ==
    ASSUME NEW rest \in Seq(Bytes), NEW more \in Seq(Bytes), rest # <<>>,
           NEW done \in Seq(Kinds), NEW left \in Seq(Kinds), Waits(rest, more, left),
           NEW upto \in Seq(Kinds), NEW tail \in Seq(Kinds)
    PROVE  upto \o tail = done \o left /\ Len(AllOf(Sent, tail)) = Len(more) =>
               /\ rest = <<"ESC">> /\ more = <<>> /\ left = <<"esc">>
<1> DEFINE given == upto \o tail = done \o left /\ Len(AllOf(Sent, tail)) = Len(more)
<1>0. SUFFICES ASSUME given PROVE rest = <<"ESC">> /\ more = <<>> /\ left = <<"esc">>
  OBVIOUS
<1>1. PICK k \in Nat \ {0}, l \in Nat, d \in Nat, u \in Nat :
               k = Len(rest) /\ l = Len(more) /\ d = Len(done) /\ u = Len(upto)
  BY EmptySeq, LenProperties
<1>2. /\ left # <<>> /\ k <= Len(Sent[left[1]])
      /\ k = Len(Sent[left[1]]) => left[1] = "esc"
  BY <1>1 DEF Waits
<1>3. PICK qs \in Seq(Kinds) :
               /\ left = <<left[1]>> \o qs /\ left[1] \in Kinds
               /\ AllOf(Sent, left) = Sent[left[1]] \o AllOf(Sent, qs)
               /\ left[1] = "esc" => qs = <<>>
  BY <1>2, FirstPress DEF Waits
<1>4. PICK p \in Kinds, s \in Seq(Bytes), a \in Seq(Bytes), one \in Seq(Kinds) :
               p = left[1] /\ s = Sent[p] /\ a = AllOf(Sent, qs) /\ one = <<p>>
  <2>1. <<left[1]>> \in Seq(Kinds)
    BY <1>3
  <2>2. Sent[left[1]] \in Seq(Bytes) /\ AllOf(Sent, qs) \in Seq(Bytes)
    BY <1>3, Tables, AllOfType DEF Table
  <2> QED
    BY <1>3, <2>1, <2>2
<1>5. rest \o more = s \o a
  BY <1>3, <1>4 DEF Waits
<1>6. PICK m \in Nat, n \in Nat : m = Len(s) /\ n = Len(a) /\ k + l = m + n
  <2>1. Len(rest \o more) = Len(rest) + Len(more) /\ Len(s \o a) = Len(s) + Len(a)
    BY ConcatProperties
  <2>2. Len(s) \in Nat /\ Len(a) \in Nat
    BY LenProperties
  <2> QED
    BY <1>1, <1>5, <2>1, <2>2
<1>7. k <= m /\ (k = m => p = "esc")
  BY <1>2, <1>4, <1>6
<1>8. Len(AllOf(Sent, left)) = k + l
  <2>1. Len(s \o a) = Len(s) + Len(a)
    BY ConcatProperties
  <2> QED
    BY <1>3, <1>4, <1>6, <2>1
<1>9. CASE u <= d
  <2>1. PICK w \in Seq(Kinds) : w \o left = tail
    <3>1. Longer(done, left, upto, tail)
      BY <1>0, <1>1, <1>9 DEF Longer
    <3>2. Cut(Kinds, done, left, upto, tail)
      BY <3>1, KindsOverlap, Zenon
    <3> QED
      BY <3>2 DEF Cut
  <2>2. PICK x \in Nat : x = Len(AllOf(Sent, w))
    BY SentLength
  <2>3. Len(AllOf(Sent, tail)) = x + (k + l)
    BY <1>8, <2>1, <2>2, SentLength
  <2>4. l = x + (k + l)
    BY <1>0, <1>1, <2>3
  <2> QED
    BY <2>4
<1>10. CASE d < u
  <2>1. PICK w \in Seq(Kinds) : upto = done \o w /\ w \o tail = left
    <3>1. Longer(upto, tail, done, left)
      BY <1>0, <1>1, <1>10 DEF Longer
    <3>2. Cut(Kinds, upto, tail, done, left)
      BY <3>1, KindsOverlap, Zenon
    <3> QED
      BY <3>2 DEF Cut
  <2>2. PICK x \in Nat : x = Len(w) /\ x # 0
    <3>1. Len(upto) = Len(done) + Len(w) /\ Len(w) \in Nat
      BY <2>1, ConcatProperties, LenProperties
    <3> QED
      BY <1>1, <1>10, <3>1
  <2>3. Len(one) <= Len(w)
    <3>1. Len(one) = 1
      BY <1>4
    <3> QED
      BY <2>2, <3>1
  <2>4. w \o tail = one \o qs
    BY <1>3, <1>4, <2>1
  <2>5. PICK v \in Seq(Kinds) : v \o tail = qs
    <3>1. Longer(w, tail, one, qs)
      BY <2>3, <2>4 DEF Longer
    <3>2. Cut(Kinds, w, tail, one, qs)
      BY <1>3, <1>4, <2>1, <3>1, KindsOverlap, Zenon
    <3> QED
      BY <3>2 DEF Cut
  <2>6. PICK y \in Nat : y = Len(AllOf(Sent, v))
    BY SentLength
  <2>7. Len(AllOf(Sent, qs)) = y + Len(AllOf(Sent, tail))
    BY <2>5, <2>6, SentLength
  <2>8. n = y + l
    BY <1>0, <1>1, <1>4, <1>6, <2>7
  <2>9. k = m
    BY <1>6, <1>7, <2>8
  <2>10. p = "esc" /\ qs = <<>> /\ s = <<"ESC">>
    BY <1>3, <1>4, <1>7, <2>9, SentIs
  <2>11. a = <<>>
    BY <1>4, <2>10, Tables, AllOfNone
  <2>12. more = <<>>
    <3>1. n = 0
      BY <1>6, <2>11, EmptySeq
    <3>2. l = 0
      BY <2>8, <3>1
    <3> QED
      BY <1>1, <3>2, EmptySeq
  <2>13. rest = s
    BY <1>5, <2>11, <2>12, ConcatEmptySeq
  <2>14. left = <<"esc">>
    BY <1>3, <1>4, <2>10, ConcatEmptySeq
  <2> QED
    BY <2>10, <2>12, <2>13, <2>14
<1> QED
  BY <1>1, <1>9, <1>10

(* The bytes that wait are flushed, not in the middle of a press.              *)
LEMMA FlushFollows ==
    ASSUME NEW heard \in Seq(Names), NEW rest \in Seq(Bytes), NEW more \in Seq(Bytes),
           NEW presses \in Seq(Kinds), Follows(heard, rest, more, presses),
           NEW n \in 0 .. Len(presses)
    PROVE  Len(AllOf(Sent, SubSeq(presses, n + 1, Len(presses)))) = Len(more) =>
               /\ FlushPending(rest) \in Seq(Plain)
               /\ Follows(heard \o FlushPending(rest), <<>>, more, presses)
<1>0. SUFFICES ASSUME Len(AllOf(Sent, SubSeq(presses, n + 1, Len(presses)))) = Len(more)
               PROVE  /\ FlushPending(rest) \in Seq(Plain)
                      /\ Follows(heard \o FlushPending(rest), <<>>, more, presses)
  OBVIOUS
<1>1. CASE rest = <<>>
  <2>1. FlushPending(rest) = <<>>
    BY <1>1, FlushedEsc
  <2>2. heard \o <<>> = heard
    BY ConcatEmptySeq
  <2> QED
    BY <1>1, <2>1, <2>2, EmptySeq
<1>2. CASE rest # <<>>
  <2>1. PICK done \in Seq(Kinds), left \in Seq(Kinds) :
                 /\ presses = done \o left
                 /\ heard = AllOf(Meant, done)
                 /\ Waits(rest, more, left)
    BY DEF Follows
  <2>2. PICK upto \in Seq(Kinds), tail \in Seq(Kinds) :
                 /\ upto \o tail = presses
                 /\ tail = SubSeq(presses, n + 1, Len(presses))
    <3>1. PICK z \in Nat : z = Len(presses)
      BY LenProperties
    <3>2. \A i \in 1 .. z : presses[i] \in Kinds
      BY <3>1, ElementOfSeq
    <3>3. \A i \in 1 .. n : presses[i] \in Kinds
      BY <3>1, <3>2
    <3>4. \A i \in n + 1 .. z : presses[i] \in Kinds
      BY <3>1, <3>2
    <3>5. SubSeq(presses, 1, n) \in Seq(Kinds)
      BY <3>3, SubSeqProperties
    <3>6. SubSeq(presses, n + 1, z) \in Seq(Kinds)
      BY <3>4, SubSeqProperties
    <3>7. 1 \in 1 .. z + 1 /\ n \in 1 - 1 .. z /\ z \in n .. z
      BY <3>1
    <3>8. SubSeq(presses, 1, n) \o SubSeq(presses, n + 1, z) = SubSeq(presses, 1, z)
      BY <3>1, <3>7, ConcatAdjacentSubSeq
    <3>9. SubSeq(presses, 1, z) = presses
      BY <3>1, SubSeqFull
    <3> QED
      BY <3>1, <3>5, <3>6, <3>8, <3>9
  <2>3. rest = <<"ESC">> /\ more = <<>> /\ left = <<"esc">>
    <3>1. upto \o tail = done \o left /\ Len(AllOf(Sent, tail)) = Len(more)
      BY <1>0, <2>1, <2>2
    <3>2. upto \o tail = done \o left /\ Len(AllOf(Sent, tail)) = Len(more) =>
              rest = <<"ESC">> /\ more = <<>> /\ left = <<"esc">>
      BY <1>2, <2>1, AllWait
    <3> QED
      BY <3>1, <3>2
  <2>4. FlushPending(rest) = <<"Esc">>
    BY <2>3, FlushedEsc
  <2>5. <<"Esc">> \in Seq(Plain)
    <3>1. "Esc" \in Plain
      BY DEF Plain, Names
    <3> QED
      BY <3>1
  <2>6. AllOf(Meant, presses) = heard \o <<"Esc">>
    <3>1. AllOf(Meant, left) = <<"Esc">>
      <4>1. "esc" \in Kinds
        BY DEF Kinds
      <4> QED
        <5>1. AllOf(Meant, <<"esc">>) = Meant["esc"]
          BY <4>1, Tables, AllOfOne
        <5> QED
          BY <2>3, <5>1, SentIs
    <3> QED
      <4>1. AllOf(Meant, done \o left) = AllOf(Meant, done) \o AllOf(Meant, left)
        BY MeantConcat, ZenonT(30)
      <4> QED
        BY <2>1, <3>1, <4>1
  <2>7. Waits(<<>>, more, <<>>)
    <3>1. AllOf(Sent, <<>>) = <<>>
      BY Tables, AllOfNone
    <3>2. <<>> \o more = <<>>
      BY <2>3, ConcatEmptySeq
    <3>3. EscLast(<<>>)
      BY DEF EscLast
    <3> QED
      BY <3>1, <3>2, <3>3 DEF Waits
  <2>8. presses = presses \o <<>> /\ <<>> \in Seq(Kinds)
    BY ConcatEmptySeq, EmptySeq
  <2>9. Follows(heard \o <<"Esc">>, <<>>, more, presses)
    BY <2>6, <2>7, <2>8 DEF Follows
  <2> QED
    BY <2>4, <2>5, <2>9
<1> QED
  BY <1>1, <1>2

-------------------------------------------------------------------------------
(* The keys in the channel and in hand, without changes of size.               *)
LEMMA KeysOfConcat ==
    \A s, t \in Seq(Names) :
        KeysOf(s) \in Seq(Names) /\ KeysOf(s \o t) = KeysOf(s) \o KeysOf(t)
<1>1. \A s \in Seq(Names) : KeysOf(s) \in Seq(Names)
  BY Tables, AllOfType DEF KeysOf
<1>2. \A s, t \in Seq(Names) : KeysOf(s \o t) = KeysOf(s) \o KeysOf(t)
  BY Tables, AllOfConcat DEF KeysOf
<1> QED
  BY <1>1, <1>2

(* Three parts of what is heard.                                               *)
LEMMA KeysOfAssociate ==
    \A s, t, u \in Seq(Names) :
        (KeysOf(s) \o KeysOf(t)) \o KeysOf(u) = KeysOf(s) \o (KeysOf(t) \o KeysOf(u))
<1> SUFFICES ASSUME NEW s \in Seq(Names), NEW t \in Seq(Names), NEW u \in Seq(Names)
             PROVE  (KeysOf(s) \o KeysOf(t)) \o KeysOf(u) =
                        KeysOf(s) \o (KeysOf(t) \o KeysOf(u))
  OBVIOUS
<1>1. Triple(Names, KeysOf(s), KeysOf(t), KeysOf(u))
  BY KeysOfConcat DEF Triple
<1>2. Associate(KeysOf(s), KeysOf(t), KeysOf(u))
  BY <1>1, Associates
<1> QED
  BY <1>2 DEF Associate

(* A change of size is no key, anything else is one.                           *)
LEMMA KeysOfOne ==
    ASSUME NEW k \in Names
    PROVE  /\ k # "Resize" => KeysOf(<<k>>) = <<k>>
           /\ k = "Resize" => KeysOf(<<k>>) = <<>>
<1>1. KeysOf(<<k>>) = HeardAs[k]
  BY Tables, AllOfOne DEF KeysOf
<1> QED
  BY <1>1 DEF HeardAs

(* No key is heard in none.                                                    *)
LEMMA KeysOfNone == KeysOf(<<>>) = <<>>
  BY Tables, AllOfNone DEF KeysOf

(* What is decoded has no change of size: it is heard as it is.                *)
LEMMA KeysOfPlain ==
    ASSUME NEW seq \in Seq(Plain)
    PROVE  KeysOf(seq) = seq
<1> DEFINE T == {n \in Nat : \A s \in Seq(Plain) : Len(s) = n => KeysOf(s) = s}
<1>1. 0 \in T
  BY KeysOfNone, EmptySeq
<1>2. ASSUME NEW n \in T PROVE n + 1 \in T
  <2>1. ASSUME NEW s \in Seq(Plain), Len(s) = n + 1 PROVE KeysOf(s) = s
    <3>1. n \in Nat /\ s # <<>>
      BY <2>1, EmptySeq
    <3>2. PICK r \in Seq(Plain), k \in Plain : s = Append(r, k)
      BY <2>1, <3>1, SequenceEmptyOrAppend
    <3>3. Len(r) = n
      <4>1. Len(s) = Len(r) + 1 /\ Len(r) \in Nat
        BY <3>2, AppendProperties, LenProperties
      <4> QED
        BY <2>1, <3>1, <4>1
    <3>4. KeysOf(r) = r
      BY <1>2, <3>2, <3>3
    <3>5. s = r \o <<k>>
      BY <3>2, AppendIsConcat
    <3>6. r \in Seq(Names) /\ k \in Names /\ k # "Resize"
      BY <3>2, SeqMonotonic DEF Plain
    <3>7. <<k>> \in Seq(Names)
      BY <3>6
    <3>8. KeysOf(r \o <<k>>) = KeysOf(r) \o KeysOf(<<k>>)
      BY <3>6, <3>7, KeysOfConcat
    <3>9. KeysOf(<<k>>) = <<k>>
      BY <3>6, KeysOfOne
    <3> QED
      BY <3>4, <3>5, <3>8, <3>9
  <2> QED
    BY <2>1
<1> HIDE DEF T
<1>3. T = Nat
  <2>1. T \in SUBSET Nat
    BY DEF T
  <2> QED
    BY <1>1, <1>2, <2>1, Upwards
<1>4. Len(seq) \in T
  BY <1>3, LenProperties
<1> QED
  BY <1>4 DEF T

(* The key the screen takes is the first that waits in the channel.            *)
LEMMA HeadFirst ==
    ASSUME NEW seq \in Seq(Names), seq # <<>>
    PROVE  /\ Head(seq) \in Names /\ Tail(seq) \in Seq(Names)
           /\ seq = <<Head(seq)>> \o Tail(seq)
           /\ KeysOf(seq) = KeysOf(<<Head(seq)>>) \o KeysOf(Tail(seq))
<1>1. PICK n \in Nat \ {0} : n = Len(seq)
  BY EmptySeq
<1>2. Head(seq) \in Names /\ Tail(seq) \in Seq(Names)
  BY HeadTailProperties
<1>3. seq = <<Head(seq)>> \o Tail(seq)
  <2>1. 1 \in 1 .. Len(seq) /\ n \in 1 .. Len(seq)
    BY <1>1
  <2>2. SubSeq(seq, 1, n) = <<seq[1]>> \o SubSeq(seq, 1 + 1, n)
    BY <2>1, SubSeqRecursiveFirst
  <2>3. SubSeq(seq, 1, n) = seq /\ Tail(seq) = SubSeq(seq, 2, n)
    BY <1>1, SubSeqFull, TailIsSubSeq
  <2>4. Head(seq) = seq[1]
    OBVIOUS
  <2>5. 1 + 1 = 2
    OBVIOUS
  <2> QED
    BY <2>2, <2>3, <2>4, <2>5, Zenon
<1>4. <<Head(seq)>> \in Seq(Names)
  BY <1>2
<1>5. KeysOf(<<Head(seq)>> \o Tail(seq)) = KeysOf(<<Head(seq)>>) \o KeysOf(Tail(seq))
  BY <1>2, <1>4, KeysOfConcat, Zenon
<1> QED
  BY <1>2, <1>3, <1>5, Zenon

(* A key goes into the channel, and out of it: what is heard stays.            *)
LEMMA EmitHeard ==
    ASSUME NEW room \in Seq(Names), NEW hand \in Seq(Names), hand # <<>>
    PROVE  KeysOf(Append(room, Head(hand))) \o KeysOf(Tail(hand)) =
               KeysOf(room) \o KeysOf(hand)
<1>1. PICK k \in Names, one \in Seq(Names), rest \in Seq(Names) :
               /\ k = Head(hand) /\ one = <<k>> /\ rest = Tail(hand)
               /\ KeysOf(hand) = KeysOf(one) \o KeysOf(rest)
  <2>1. <<Head(hand)>> \in Seq(Names)
    BY HeadFirst
  <2> QED
    BY <2>1, HeadFirst
<1>2. Append(room, k) = room \o one
  BY <1>1, AppendIsConcat
<1>3. KeysOf(room \o one) = KeysOf(room) \o KeysOf(one)
  BY KeysOfConcat, Zenon
<1>4. (KeysOf(room) \o KeysOf(one)) \o KeysOf(rest) =
          KeysOf(room) \o (KeysOf(one) \o KeysOf(rest))
  BY KeysOfAssociate, Zenon
<1> QED
  BY <1>1, <1>2, <1>3, <1>4, Zenon

(* A key that is taken was heard already, while it waited.                     *)
LEMMA TakeHeard ==
    ASSUME NEW out \in Seq(Names), NEW room \in Seq(Names), room # <<>>
    PROVE  (IF Head(room) # "Resize" THEN Append(out, Head(room)) ELSE out)
               \o KeysOf(Tail(room)) = out \o KeysOf(room)
<1>1. PICK k \in Names, one \in Seq(Names), rest \in Seq(Names) :
               /\ k = Head(room) /\ one = <<k>> /\ rest = Tail(room)
               /\ KeysOf(room) = KeysOf(one) \o KeysOf(rest)
  <2>1. <<Head(room)>> \in Seq(Names)
    BY HeadFirst
  <2> QED
    BY <2>1, HeadFirst
<1>2. PICK z \in Seq(Names) : z = KeysOf(rest)
  BY KeysOfConcat
<1>3. CASE k # "Resize"
  <2>1. KeysOf(one) = one
    BY <1>1, <1>3, KeysOfOne
  <2>2. Append(out, k) = out \o one
    BY <1>1, AppendIsConcat
  <2>3. (out \o one) \o z = out \o (one \o z)
    <3>1. Triple(Names, out, one, z)
      BY <1>1, <1>2 DEF Triple
    <3>2. Associate(out, one, z)
      BY <3>1, Associates
    <3> QED
      BY <3>2 DEF Associate
  <2> QED
    BY <1>1, <1>2, <1>3, <2>1, <2>2, <2>3, Zenon
<1>4. CASE k = "Resize"
  <2>1. KeysOf(one) = <<>>
    BY <1>1, <1>4, KeysOfOne
  <2>2. <<>> \o z = z
    BY ConcatEmptySeq
  <2>3. KeysOf(room) = z
    BY <1>1, <1>2, <2>1, <2>2, Zenon
  <2> QED
    BY <1>1, <1>2, <1>4, <2>3
<1> QED
  BY <1>3, <1>4

-------------------------------------------------------------------------------
(* Until watchSignals there are no keys.                                       *)
Fresh ==
    pc[Main] \in {"open", "draw", "watch"} =>
        /\ line = <<>> /\ chunk = <<>> /\ pending = <<>> /\ pressed = <<>>
        /\ emitting = <<>> /\ keys = <<>> /\ taken = <<>>
        /\ ~canceled /\ ~hungUp

(* While the screen is there the reader ends only at the end of the input.     *)
ReaderEndsLast ==
    Attended /\ alive =>
        ~canceled /\ (pc[Reader] = "finished" => hungUp /\ line = <<>> /\ chunk = <<>>)

KeyTypes ==
    /\ line \in Seq(Bytes) /\ chunk \in Seq(Bytes) /\ pending \in Seq(Bytes)
    /\ emitting \in Seq(Names) /\ keys \in Seq(Names) /\ taken \in Seq(Names)
    /\ pressed \in Seq(Kinds)

(* What was pressed is what was heard, what waits, and what is on its way.     *)
Followed ==
    Attended /\ ~late /\ ~hasty =>
        KeyTypes /\ Follows(Heard, pending, chunk \o line, pressed)

KeyInv == Fresh /\ ReaderEndsLast /\ Followed

(* What is heard is a sequence of keys.                                        *)
LEMMA HeardType ==
    ASSUME KeyTypes
    PROVE  /\ Heard \in Seq(Names)
           /\ chunk \o line \in Seq(Bytes)
           /\ taken \o KeysOf(keys) \in Seq(Names)
<1>1. KeysOf(keys) \in Seq(Names) /\ KeysOf(emitting) \in Seq(Names)
  BY KeysOfConcat DEF KeyTypes
<1>2. taken \o KeysOf(keys) \in Seq(Names)
  BY <1>1, ConcatProperties DEF KeyTypes
<1> QED
  BY <1>1, <1>2, ConcatProperties DEF KeyTypes, Heard

(* Nothing was pressed, and nothing heard.                                     *)
LEMMA NothingFollows ==
    /\ Follows(<<>>, <<>>, <<>>, <<>>)
    /\ <<>> \o <<>> = <<>>
    /\ KeysOf(<<>>) = <<>>
<1>1. <<>> \o <<>> = <<>>
  BY EmptySeq, ConcatEmptySeq
<1>2. AllOf(Sent, <<>>) = <<>> /\ AllOf(Meant, <<>>) = <<>>
  BY Tables, AllOfNone
<1>3. EscLast(<<>>)
  BY DEF EscLast
<1>4. Waits(<<>>, <<>>, <<>>)
  BY <1>1, <1>2, <1>3 DEF Waits
<1>5. <<>> \in Seq(Kinds)
  BY EmptySeq
<1> QED
  BY <1>1, <1>2, <1>4, <1>5, KeysOfNone DEF Follows

(* There are no keys at all.                                                   *)
LEMMA NoKeys ==
    ASSUME line = <<>>, chunk = <<>>, pending = <<>>, pressed = <<>>,
           emitting = <<>>, keys = <<>>, taken = <<>>
    PROVE  KeyTypes /\ Follows(Heard, pending, chunk \o line, pressed)
<1>1. KeyTypes
  BY EmptySeq DEF KeyTypes
<1>2. Heard = <<>>
  BY NothingFollows DEF Heard
<1> QED
  BY <1>1, <1>2, NothingFollows

-------------------------------------------------------------------------------
(* The steps of the user.                                                      *)
LEMMA PressStep ==
    ASSUME KeyInv, alive, NEW p \in Presses, Press(p)
    PROVE  KeyInv'
<1> USE DEF Press, vars
<1>1. Attended' = Attended /\ pc' = pc /\ alive' = alive /\ pc[Main] = "loop"
  BY DEF Attended
<1>2. Fresh'
  BY <1>1 DEF Fresh
<1>3. ReaderEndsLast'
  BY <1>1 DEF KeyInv, ReaderEndsLast
<1>4. ASSUME Attended', ~late', ~hasty'
      PROVE  (KeyTypes /\ Follows(Heard, pending, chunk \o line, pressed))'
  <2>1. KeyTypes /\ Follows(Heard, pending, chunk \o line, pressed)
    BY <1>1, <1>4 DEF KeyInv, Followed
  <2>2. p \in Kinds
    BY PressesAssumption DEF Kinds
  <2>3. PICK sent \in Seq(Bytes) : sent = Sent[p]
    BY <2>2, Tables DEF Table
  <2>4. pressed # <<>> /\ Last(pressed) = "esc" => pending \o (chunk \o line) = <<>>
    <3>1. SUFFICES ASSUME pressed # <<>>, Last(pressed) = "esc"
                   PROVE  pending \o (chunk \o line) = <<>>
      OBVIOUS
    <3>2. line \o chunk \o pending = <<>>
      BY <1>4, <3>1
    <3>3. line \o chunk \in Seq(Bytes)
      BY <2>1, ConcatProperties DEF KeyTypes
    <3>4. line = <<>> /\ chunk = <<>> /\ pending = <<>>
      BY <2>1, <3>2, <3>3, ConcatSimplifications DEF KeyTypes
    <3> QED
      BY <3>4, NothingFollows
  <2>5. Follows(Heard, pending, (chunk \o line) \o Sent[p], Append(pressed, p))
    BY <2>1, <2>2, <2>4, HeardType, PressFollows DEF KeyTypes
  <2>6. (chunk \o line) \o Sent[p] = chunk \o line'
    <3>1. Triple(Bytes, chunk, line, Sent[p])
      BY <2>1, <2>3 DEF KeyTypes, Triple
    <3>2. Associate(chunk, line, Sent[p])
      BY <3>1, Associates
    <3>3. (chunk \o line) \o Sent[p] = chunk \o (line \o Sent[p])
      BY <3>2 DEF Associate
    <3>4. line' = line \o Sent[p]
      OBVIOUS
    <3> QED
      BY <3>3, <3>4, Zenon
  <2>7. Heard' = Heard
    BY DEF Heard
  <2>8. KeyTypes'
    BY <2>1, <2>2, <2>3, ConcatProperties, AppendProperties DEF KeyTypes
  <2> QED
    BY <2>5, <2>6, <2>7, <2>8
<1> QED
  BY <1>2, <1>3, <1>4 DEF KeyInv, Followed

(* The end of the input, and a change of size of the window.                   *)
LEMMA HangUpStep ==
    ASSUME KeyInv, alive, HangUp \/ Resize
    PROVE  KeyInv'
<1>1. /\ UNCHANGED <<vars, line, chunk, pending, emitting, keys, canceled, pressed,
                      taken, hasty, late>>
      /\ Attended /\ (hungUp => hungUp')
  BY DEF HangUp, Resize
<1>2. Attended' = Attended /\ pc' = pc /\ alive' = alive /\ pc[Main] = "loop"
  BY <1>1 DEF Attended, vars
<1>3. Heard' = Heard /\ KeyTypes' = KeyTypes
  BY <1>1 DEF Heard, KeyTypes
<1>4. Fresh' /\ ReaderEndsLast'
  BY <1>1, <1>2 DEF KeyInv, Fresh, ReaderEndsLast
<1>5. Followed'
  BY <1>1, <1>2, <1>3 DEF KeyInv, Followed
<1> QED
  BY <1>4, <1>5 DEF KeyInv

-------------------------------------------------------------------------------
(* The steps of the reader and of the keyer.                                   *)
LEMMA Cutting ==
    ASSUME NEW seq \in Seq(Bytes), NEW n \in 1 .. Len(seq)
    PROVE  /\ SubSeq(seq, 1, n) \in Seq(Bytes)
           /\ SubSeq(seq, n + 1, Len(seq)) \in Seq(Bytes)
           /\ SubSeq(seq, 1, n) \o SubSeq(seq, n + 1, Len(seq)) = seq
<1>1. PICK z \in Nat : z = Len(seq)
  BY LenProperties
<1>2. \A i \in 1 .. z : seq[i] \in Bytes
  BY <1>1, ElementOfSeq
<1>3. \A i \in 1 .. n : seq[i] \in Bytes
  BY <1>1, <1>2
<1>4. \A i \in n + 1 .. z : seq[i] \in Bytes
  BY <1>1, <1>2
<1>5. SubSeq(seq, 1, n) \in Seq(Bytes)
  BY <1>3, SubSeqProperties
<1>6. SubSeq(seq, n + 1, z) \in Seq(Bytes)
  BY <1>1, <1>4, SubSeqProperties
<1>7. 1 \in 1 .. z + 1 /\ n \in 1 - 1 .. z /\ z \in n .. z
  BY <1>1
<1>8. SubSeq(seq, 1, n) \o SubSeq(seq, n + 1, z) = SubSeq(seq, 1, z)
  BY <1>1, <1>7, ConcatAdjacentSubSeq
<1>9. SubSeq(seq, 1, z) = seq
  BY <1>1, SubSeqFull
<1> QED
  BY <1>1, <1>5, <1>6, <1>8, <1>9

(* The reader takes some of the bytes, as many as come at once.                *)
LEMMA ReadStep ==
    ASSUME TypeOK, Alone, KeyInv, alive, Read
    PROVE  KeyInv'
<1>1. PICK n \in 1 .. Len(line) :
               chunk' = SubSeq(line, 1, n) /\ line' = SubSeq(line, n + 1, Len(line))
  BY DEF Read
<1>2. /\ UNCHANGED <<vars, hungUp, pending, timer, emitting, keys, resize,
                     canceled, pressed, taken, resizes, hasty, late>>
      /\ pc[Reader] = "work" /\ chunk = <<>>
  BY DEF Read
<1>3. Attended' = Attended /\ pc' = pc /\ alive' = alive
  BY <1>2 DEF Attended, vars
<1>4. pc[Main] \notin {"open", "draw", "watch"}
  BY <1>2, ThreadsAssumption, PressesAssumption DEF Alone, Threads
<1>5. Fresh' /\ ReaderEndsLast'
  BY <1>2, <1>3, <1>4 DEF KeyInv, Fresh, ReaderEndsLast
<1>6. ASSUME Attended', ~late', ~hasty'
      PROVE  (KeyTypes /\ Follows(Heard, pending, chunk \o line, pressed))'
  <2>1. KeyTypes /\ Follows(Heard, pending, chunk \o line, pressed)
    BY <1>2, <1>3, <1>6 DEF KeyInv, Followed
  <2>2. line' \in Seq(Bytes) /\ chunk' \in Seq(Bytes) /\ chunk' \o line' = line
    BY <1>1, <2>1, Cutting DEF KeyTypes
  <2>3. chunk \o line = line
    BY <1>2, <2>1, ConcatEmptySeq DEF KeyTypes
  <2>4. Heard' = Heard
    BY <1>2 DEF Heard
  <2>5. KeyTypes'
    BY <1>2, <2>1, <2>2 DEF KeyTypes
  <2> QED
    BY <1>2, <2>1, <2>2, <2>3, <2>4, <2>5
<1> QED
  BY <1>5, <1>6 DEF KeyInv, Followed

(* A goroutine that ends changes nothing for the user.                         *)
LEMMA FinishAttended ==
    ASSUME TypeOK, Alone, NEW w \in Workers, Finish(w)
    PROVE  /\ Attended' = Attended /\ alive' = alive
           /\ pc[Main] \notin {"open", "draw", "watch"} /\ pc'[Main] = pc[Main]
           /\ \A t \in Threads \ {w} : pc'[t] = pc[t]
           /\ pc'[w] = "finished"
<1>1. w \in Threads /\ w # Main /\ Main \in Threads
  BY ThreadsAssumption DEF Threads
<1>2. pc[Main] \notin {"open", "draw", "watch"}
  BY <1>1 DEF Alone, Finish
<1>3. /\ \A t \in Threads \ {w} : pc'[t] = pc[t]
      /\ pc'[w] = "finished" /\ pc[w] = "work"
  BY <1>1 DEF TypeOK, Finish, Goto
<1>4. caught' = caught /\ alive' = alive
  BY DEF Finish
<1>5. (\A t \in Threads : pc'[t] # "close") <=> (\A t \in Threads : pc[t] # "close")
  BY <1>1, <1>3
<1> QED
  BY <1>1, <1>2, <1>3, <1>4, <1>5 DEF Attended

(* The reader ends at the end of the input.                                    *)
LEMMA ReaderEndsStep ==
    ASSUME TypeOK, Alone, KeyInv, alive, ReaderEnds
    PROVE  KeyInv'
<1>1. Reader \in Workers
  BY PressesAssumption
<1>2. /\ Finish(Reader) /\ chunk' = <<>>
      /\ UNCHANGED <<line, hungUp, pending, timer, emitting, keys, resize,
                     canceled, pressed, taken, resizes, hasty, late>>
      /\ IF chunk = <<>> THEN hungUp /\ line = <<>> ELSE canceled
  BY DEF ReaderEnds
<1>3. /\ Attended' = Attended /\ alive' = alive
      /\ pc[Main] \notin {"open", "draw", "watch"} /\ pc'[Main] = pc[Main]
  BY <1>1, <1>2, FinishAttended
<1>4. Fresh'
  BY <1>3 DEF Fresh
<1>5. Attended' => chunk = <<>> /\ hungUp /\ line = <<>> /\ ~canceled
  BY <1>2, <1>3 DEF KeyInv, ReaderEndsLast
<1>6. ReaderEndsLast'
  BY <1>2, <1>5 DEF ReaderEndsLast
<1>7. Followed'
  BY <1>2, <1>3, <1>5 DEF KeyInv, Followed, KeyTypes, Heard
<1> QED
  BY <1>4, <1>6, <1>7 DEF KeyInv

(* So does the keyer.                                                          *)
LEMMA KeyerEndsStep ==
    ASSUME TypeOK, Alone, KeyInv, alive, KeyerEnds
    PROVE  KeyInv'
<1>1. Keyer \in Workers /\ Reader \in Threads /\ Reader # Keyer
  BY PressesAssumption DEF Reader, Keyer, Threads
<1>2. /\ Finish(Keyer) /\ emitting' = <<>> /\ pending' = <<>>
      /\ UNCHANGED <<line, hungUp, chunk, keys, resize, canceled, pressed,
                     taken, resizes, hasty, late>>
      /\ canceled \/ (emitting = <<>> /\ pending = <<>>)
  BY DEF KeyerEnds
<1>3. /\ Attended' = Attended /\ alive' = alive
      /\ pc[Main] \notin {"open", "draw", "watch"} /\ pc'[Main] = pc[Main]
      /\ pc'[Reader] = pc[Reader]
  BY <1>1, <1>2, FinishAttended
<1>4. Fresh'
  BY <1>3 DEF Fresh
<1>5. Attended' => emitting = <<>> /\ pending = <<>>
  BY <1>2, <1>3 DEF KeyInv, ReaderEndsLast
<1>6. ReaderEndsLast'
  BY <1>2, <1>3 DEF KeyInv, ReaderEndsLast
<1>7. Followed'
  BY <1>2, <1>3, <1>5 DEF KeyInv, Followed, KeyTypes, Heard
<1> QED
  BY <1>4, <1>6, <1>7 DEF KeyInv

(* What the keyer does while it selects, for the terminal.                     *)
LEMMA KeyerWorks ==
    ASSUME TypeOK, Alone, KeyInv, pc[Keyer] = "work", UNCHANGED vars,
           UNCHANGED <<line, hungUp, canceled>>, chunk' \in {chunk, <<>>}
    PROVE  /\ Attended' = Attended
           /\ Fresh' /\ ReaderEndsLast'
<1>1. Attended' = Attended /\ pc' = pc /\ alive' = alive
  BY DEF Attended, vars
<1>2. pc[Main] \notin {"open", "draw", "watch"}
  BY ThreadsAssumption, PressesAssumption DEF Alone, Threads
<1>3. Fresh' /\ ReaderEndsLast'
  BY <1>1, <1>2 DEF KeyInv, Fresh, ReaderEndsLast
<1> QED
  BY <1>1, <1>3

(* What is decoded while nothing is in hand is what is heard next.             *)
LEMMA HeardNext ==
    ASSUME KeyTypes, emitting = <<>>, UNCHANGED <<taken, keys>>,
           emitting' \in Seq(Plain)
    PROVE  Heard' = Heard \o emitting' /\ emitting' \in Seq(Names)
<1>1. PICK base \in Seq(Names) : base = taken \o KeysOf(keys)
  BY HeardType
<1>2. Heard = base
  BY <1>1, KeysOfNone, ConcatEmptySeq DEF Heard
<1>3. KeysOf(emitting') = emitting'
  BY KeysOfPlain
<1>4. Heard' = base \o KeysOf(emitting')
  BY <1>1 DEF Heard, KeysOf
<1>5. emitting' \in Seq(Names)
  BY SeqMonotonic DEF Plain
<1> QED
  BY <1>2, <1>3, <1>4, <1>5

(* ReadKeys decodes what it has, with a chunk that comes.                      *)
LEMMA TakeChunkStep ==
    ASSUME TypeOK, Alone, KeyInv, alive, TakeChunk
    PROVE  KeyInv'
<1> DEFINE buf == pending \o chunk
           bytes == SubSeq(buf, 1, Len(buf) - Held(buf))
           held == SubSeq(buf, Len(buf) - Held(buf) + 1, Len(buf))
<1>1. /\ UNCHANGED <<vars, line, hungUp, keys, resize, canceled, pressed, taken,
                     resizes, hasty, late>>
      /\ chunk' = <<>> /\ chunk # <<>> /\ emitting = <<>> /\ pc[Keyer] = "work"
      /\ emitting' = ParseKeys(bytes).keys
      /\ pending' = ParseKeys(bytes).rest \o held
  BY DEF TakeChunk, Selecting
<1> HIDE DEF buf, bytes, held
<1>2. Attended' = Attended /\ Fresh' /\ ReaderEndsLast'
  BY <1>1, KeyerWorks
<1>3. ASSUME Attended', ~late', ~hasty'
      PROVE  (KeyTypes /\ Follows(Heard, pending, chunk \o line, pressed))'
  <2>1. KeyTypes /\ Follows(Heard, pending, chunk \o line, pressed)
    BY <1>1, <1>2, <1>3 DEF KeyInv, Followed
  <2>2. /\ ParseKeys(bytes).keys \in Seq(Plain)
        /\ ParseKeys(bytes).rest \o held \in Seq(Bytes)
        /\ Follows(Heard \o ParseKeys(bytes).keys, ParseKeys(bytes).rest \o held,
                   line, pressed)
    <3>1. Heard \in Seq(Names)
      BY <2>1, HeardType
    <3>2. /\ pending \in Seq(Bytes) /\ chunk \in Seq(Bytes) /\ line \in Seq(Bytes)
          /\ pressed \in Seq(Kinds) /\ chunk # <<>>
      BY <1>1, <2>1 DEF KeyTypes
    <3>3. PICK parsed \in Seq(Bytes), kept \in Seq(Bytes), joined \in Seq(Bytes) :
                   /\ joined = pending \o chunk
                   /\ parsed = SubSeq(joined, 1, Len(joined) - Held(joined))
                   /\ kept = SubSeq(joined, Len(joined) - Held(joined) + 1, Len(joined))
                   /\ ParseKeys(parsed).keys \in Seq(Plain)
                   /\ ParseKeys(parsed).rest \o kept \in Seq(Bytes)
                   /\ Follows(Heard \o ParseKeys(parsed).keys,
                              ParseKeys(parsed).rest \o kept, line, pressed)
      <4>1. ToTake(Heard, pending, chunk, line, pressed)
        BY <2>1, <3>2 DEF ToTake
      <4>2. TakenFrom(Heard, pending, chunk, line, pressed)
        BY <3>1, <3>2, <4>1, TakenFollows, Zenon
      <4> QED
        BY <4>2 DEF TakenFrom
    <3>4. parsed = bytes /\ kept = held
      BY <3>3 DEF buf, bytes, held
    <3> QED
      BY <3>3, <3>4
  <2>3. Heard' = Heard \o emitting' /\ emitting' \in Seq(Names)
    BY <1>1, <2>1, <2>2, HeardNext
  <2>4. KeyTypes'
    BY <1>1, <2>1, <2>2, <2>3, EmptySeq DEF KeyTypes
  <2>5. chunk' \o line' = line
    BY <1>1, <2>1, ConcatEmptySeq DEF KeyTypes
  <2> QED
    BY <1>1, <2>2, <2>3, <2>4, <2>5
<1> QED
  BY <1>2, <1>3 DEF KeyInv, Followed

(* escapeTimeout, or the end of the input: what waits is no part of a press.   *)
LEMMA FlushStep ==
    ASSUME KeyTypes, Follows(Heard, pending, chunk \o line, pressed),
           emitting = <<>>, UNCHANGED <<line, chunk, keys, pressed, taken>>,
           emitting' = FlushPending(pending), pending' = <<>>,
           NEW n \in 0 .. Len(pressed)
    PROVE  Len(AllOf(Sent, SubSeq(pressed, n + 1, Len(pressed)))) =
                   Len(chunk \o line) =>
               (KeyTypes /\ Follows(Heard, pending, chunk \o line, pressed))'
<1>0. SUFFICES ASSUME Len(AllOf(Sent, SubSeq(pressed, n + 1, Len(pressed)))) =
                          Len(chunk \o line)
               PROVE  (KeyTypes /\ Follows(Heard, pending, chunk \o line, pressed))'
  OBVIOUS
<1>1. Heard \in Seq(Names) /\ chunk \o line \in Seq(Bytes)
  BY HeardType
<1>2. /\ FlushPending(pending) \in Seq(Plain)
      /\ Follows(Heard \o FlushPending(pending), <<>>, chunk \o line, pressed)
  BY <1>0, <1>1, FlushFollows DEF KeyTypes
<1>3. Heard' = Heard \o emitting' /\ emitting' \in Seq(Names)
  BY <1>2, HeardNext
<1>4. KeyTypes'
  BY <1>3, EmptySeq DEF KeyTypes
<1> QED
  BY <1>2, <1>3, <1>4

(* escapeTimeout passes, and what waits is decoded as it is.                   *)
LEMMA FlushFiresStep ==
    ASSUME TypeOK, Alone, KeyInv, alive, FlushFires
    PROVE  KeyInv'
<1>1. /\ UNCHANGED <<vars, line, hungUp, chunk, keys, resize, canceled, pressed,
                     taken, resizes, hasty>>
      /\ emitting = <<>> /\ pc[Keyer] = "work"
      /\ emitting' = FlushPending(pending) /\ pending' = <<>>
      /\ late' = (late \/ (Attended /\ ~AtBoundary))
  BY DEF FlushFires, Selecting
<1>2. Attended' = Attended /\ Fresh' /\ ReaderEndsLast'
  BY <1>1, KeyerWorks
<1>3. ASSUME Attended', ~late', ~hasty'
      PROVE  (KeyTypes /\ Follows(Heard, pending, chunk \o line, pressed))'
  <2>1. KeyTypes /\ Follows(Heard, pending, chunk \o line, pressed) /\ AtBoundary
    BY <1>1, <1>2, <1>3 DEF KeyInv, Followed
  <2>2. Len(chunk \o line) = Len(chunk) + Len(line)
    BY <2>1, ConcatProperties DEF KeyTypes
  <2>3. PICK n \in 0 .. Len(pressed) :
                 Len(AllOf(Sent, SubSeq(pressed, n + 1, Len(pressed)))) =
                     Len(chunk) + Len(line)
    BY <2>1 DEF AtBoundary
  <2> QED
    BY <1>1, <2>1, <2>2, <2>3, FlushStep
<1> QED
  BY <1>2, <1>3 DEF KeyInv, Followed

(* The input ends, and what waits is decoded as it is.                         *)
LEMMA TakeEndStep ==
    ASSUME TypeOK, Alone, KeyInv, alive, TakeEnd
    PROVE  KeyInv'
<1>1. /\ UNCHANGED <<vars, line, hungUp, chunk, keys, resize, canceled, pressed,
                     taken, resizes, hasty, late>>
      /\ emitting = <<>> /\ pc[Keyer] = "work" /\ pc[Reader] = "finished"
      /\ emitting' = FlushPending(pending) /\ pending' = <<>>
  BY DEF TakeEnd, Selecting
<1>2. Attended' = Attended /\ Fresh' /\ ReaderEndsLast'
  BY <1>1, KeyerWorks
<1>3. ASSUME Attended', ~late', ~hasty'
      PROVE  (KeyTypes /\ Follows(Heard, pending, chunk \o line, pressed))'
  <2>1. KeyTypes /\ Follows(Heard, pending, chunk \o line, pressed)
    BY <1>1, <1>2, <1>3 DEF KeyInv, Followed
  <2>2. chunk = <<>> /\ line = <<>>
    BY <1>1, <1>2, <1>3 DEF KeyInv, ReaderEndsLast
  <2>3. Len(chunk \o line) = 0
    BY <2>2, NothingFollows, EmptySeq
  <2>4. PICK n \in Nat : n = Len(pressed)
    BY <2>1, LenProperties DEF KeyTypes
  <2>5. SubSeq(pressed, n + 1, Len(pressed)) = <<>>
    BY <2>4, SubSeqEmpty
  <2>6. Len(AllOf(Sent, <<>>)) = 0
    BY Tables, AllOfNone, EmptySeq
  <2>7. n \in 0 .. Len(pressed)
    BY <2>4
  <2> QED
    BY <1>1, <2>1, <2>3, <2>5, <2>6, <2>7, FlushStep
<1> QED
  BY <1>2, <1>3 DEF KeyInv, Followed

(* A change of size passes for a key, but none that was pressed.               *)
LEMMA TakeResizeStep ==
    ASSUME TypeOK, Alone, KeyInv, alive, TakeResize
    PROVE  KeyInv'
<1>1. /\ UNCHANGED <<vars, line, hungUp, chunk, pending, timer, keys, canceled,
                     pressed, taken, resizes, hasty, late>>
      /\ emitting = <<>> /\ pc[Keyer] = "work" /\ emitting' = <<"Resize">>
  BY DEF TakeResize, Selecting
<1>2. Attended' = Attended /\ Fresh' /\ ReaderEndsLast'
  BY <1>1, KeyerWorks
<1>3. "Resize" \in Names
  BY DEF Names
<1>4. <<"Resize">> \in Seq(Names) /\ KeysOf(<<"Resize">>) = KeysOf(<<>>)
  BY <1>3, KeysOfOne, KeysOfNone
<1>5. Heard' = Heard
  BY <1>1, <1>4 DEF Heard, KeysOf
<1>6. KeyTypes => KeyTypes'
  BY <1>1, <1>4 DEF KeyTypes
<1>7. Followed'
  BY <1>1, <1>2, <1>5, <1>6 DEF KeyInv, Followed
<1> QED
  BY <1>2, <1>7 DEF KeyInv

(* A key that is decoded goes into the channel.                                *)
LEMMA EmitStep ==
    ASSUME TypeOK, Alone, KeyInv, alive, Emit
    PROVE  KeyInv'
<1>1. /\ UNCHANGED <<vars, line, hungUp, chunk, pending, timer, resize, canceled,
                     pressed, taken, resizes, hasty, late>>
      /\ emitting # <<>> /\ pc[Keyer] = "work"
      /\ keys' = Append(keys, Head(emitting)) /\ emitting' = Tail(emitting)
  BY DEF Emit
<1>2. Attended' = Attended /\ Fresh' /\ ReaderEndsLast'
  BY <1>1, KeyerWorks
<1>3. ASSUME KeyTypes PROVE KeyTypes' /\ Heard' = Heard
  <2>1. Head(emitting) \in Names /\ Tail(emitting) \in Seq(Names)
    BY <1>1, <1>3, HeadFirst DEF KeyTypes
  <2>2. KeyTypes'
    BY <1>1, <1>3, <2>1, AppendProperties DEF KeyTypes
  <2>3. KeysOf(keys') \o KeysOf(emitting') = KeysOf(keys) \o KeysOf(emitting)
    BY <1>1, <1>3, EmitHeard DEF KeyTypes
  <2>4. /\ KeysOf(keys) \in Seq(Names) /\ KeysOf(emitting) \in Seq(Names)
        /\ KeysOf(keys') \in Seq(Names) /\ KeysOf(emitting') \in Seq(Names)
    BY <1>3, <2>2, KeysOfConcat DEF KeyTypes
  <2>5. Heard' = (taken \o KeysOf(keys')) \o KeysOf(emitting')
    BY <1>1 DEF Heard, KeysOf
  <2>6. (taken \o KeysOf(keys')) \o KeysOf(emitting') =
            taken \o (KeysOf(keys') \o KeysOf(emitting'))
    <3>1. Triple(Names, taken, KeysOf(keys'), KeysOf(emitting'))
      BY <1>3, <2>4 DEF KeyTypes, Triple
    <3>2. Associate(taken, KeysOf(keys'), KeysOf(emitting'))
      BY <3>1, Associates
    <3> QED
      BY <3>2 DEF Associate
  <2>7. (taken \o KeysOf(keys)) \o KeysOf(emitting) =
            taken \o (KeysOf(keys) \o KeysOf(emitting))
    <3>1. Triple(Names, taken, KeysOf(keys), KeysOf(emitting))
      BY <1>3, <2>4 DEF KeyTypes, Triple
    <3>2. Associate(taken, KeysOf(keys), KeysOf(emitting))
      BY <3>1, Associates
    <3> QED
      BY <3>2 DEF Associate
  <2> QED
    BY <2>2, <2>3, <2>5, <2>6, <2>7, Zenon DEF Heard
<1>4. Followed'
  BY <1>1, <1>2, <1>3 DEF KeyInv, Followed
<1> QED
  BY <1>2, <1>4 DEF KeyInv

(* The screen takes a key.                                                     *)
LEMMA TakeKeyStep ==
    ASSUME TypeOK, Alone, KeyInv, alive, TakeKey
    PROVE  KeyInv'
<1>1. /\ UNCHANGED <<vars, line, hungUp, chunk, pending, timer, emitting, resize,
                     canceled, pressed, resizes, hasty, late>>
      /\ pc[Main] = "loop" /\ keys # <<>> /\ keys' = Tail(keys)
      /\ taken' = IF Head(keys) # "Resize" /\ Attended
                  THEN Append(taken, Head(keys)) ELSE taken
  BY DEF TakeKey
<1>2. Attended' = Attended /\ pc' = pc /\ alive' = alive
  BY <1>1 DEF Attended, vars
<1>3. Fresh' /\ ReaderEndsLast'
  BY <1>1, <1>2 DEF KeyInv, Fresh, ReaderEndsLast
<1>4. ASSUME KeyTypes, Attended PROVE KeyTypes' /\ Heard' = Heard
  <2>1. Head(keys) \in Names /\ Tail(keys) \in Seq(Names)
    BY <1>1, <1>4, HeadFirst DEF KeyTypes
  <2>2. taken' = IF Head(keys) # "Resize" THEN Append(taken, Head(keys)) ELSE taken
    BY <1>1, <1>4
  <2>3. taken' \in Seq(Names)
    BY <1>4, <2>1, <2>2, AppendProperties DEF KeyTypes
  <2>4. KeyTypes'
    BY <1>1, <1>4, <2>1, <2>3 DEF KeyTypes
  <2>5. taken' \o KeysOf(keys') = taken \o KeysOf(keys)
    BY <1>1, <1>4, <2>2, TakeHeard DEF KeyTypes
  <2>6. Heard' = (taken' \o KeysOf(keys')) \o KeysOf(emitting)
    BY <1>1 DEF Heard, KeysOf
  <2> QED
    BY <2>4, <2>5, <2>6 DEF Heard
<1>5. Followed'
  BY <1>1, <1>2, <1>4 DEF KeyInv, Followed
<1> QED
  BY <1>3, <1>5 DEF KeyInv

-------------------------------------------------------------------------------
(* The steps of the terminal.  Who is not attended to is so again only when    *)
(* the screen comes up.                                                        *)
TerminalGoesOn ==
    /\ Attended' => \/ Attended
                    \/ pc[Main] = "watch" /\ pc'[Reader] = "none"
    /\ pc'[Main] \in {"open", "draw", "watch"} =>
           pc[Main] \in {"open", "draw", "watch"}
    /\ pc'[Reader] = "finished" => pc[Reader] = "finished"

(* Where the keys are left by a step of the terminal.                          *)
LEMMA FollowedByKeys ==
    ASSUME KeysFollow
    PROVE  /\ ~alive' => NothingHeld
           /\ alive' => \/ UNCHANGED keyVars
                        \/ Attended /\ ~Attended'
  BY DEF KeysFollow

(* Such a step keeps what is known of the keys.                                *)
LEMMA TerminalStep ==
    ASSUME KeyInv, alive, TerminalGoesOn, KeysFollow
    PROVE  KeyInv'
<1>1. CASE ~alive'
  <2>1. NothingHeld
    BY <1>1, FollowedByKeys
  <2>2. (KeyTypes /\ Follows(Heard, pending, chunk \o line, pressed))'
    <3>1. /\ line' = <<>> /\ chunk' = <<>> /\ pending' = <<>> /\ pressed' = <<>>
          /\ emitting' = <<>> /\ keys' = <<>> /\ taken' = <<>>
      BY <2>1 DEF NothingHeld
    <3>2. KeyTypes'
      BY <3>1, EmptySeq DEF KeyTypes
    <3>3. KeysOf(keys') = <<>> /\ KeysOf(emitting') = <<>>
      BY <3>1, KeysOfNone
    <3>4. Heard' = (taken' \o KeysOf(keys')) \o KeysOf(emitting')
      BY DEF Heard, KeysOf
    <3>5. Heard' = <<>>
      BY <3>1, <3>3, <3>4, NothingFollows
    <3> QED
      BY <3>1, <3>2, <3>5, NothingFollows
  <2> QED
    BY <1>1, <2>1, <2>2 DEF KeyInv, Fresh, ReaderEndsLast, Followed, NothingHeld
<1>2. CASE alive' /\ UNCHANGED keyVars
  <2>1. KeyTypes' = KeyTypes /\ Heard' = Heard
    BY <1>2 DEF keyVars, KeyTypes, Heard
  <2>2. Fresh'
    BY <1>2 DEF KeyInv, Fresh, TerminalGoesOn, keyVars
  <2>3. ASSUME pc[Main] = "watch"
        PROVE  KeyTypes /\ Follows(Heard, pending, chunk \o line, pressed) /\ ~canceled
    BY <2>3, NoKeys DEF KeyInv, Fresh
  <2>4. ReaderEndsLast'
    BY <1>2, <2>3 DEF KeyInv, ReaderEndsLast, TerminalGoesOn, keyVars
  <2>5. Followed'
    BY <1>2, <2>1, <2>3 DEF KeyInv, Followed, TerminalGoesOn, keyVars
  <2> QED
    BY <2>2, <2>4, <2>5 DEF KeyInv
<1>3. CASE Attended /\ ~Attended'
  <2>1. pc[Main] = "loop"
    BY <1>3 DEF Attended
  <2>2. pc'[Main] \notin {"open", "draw", "watch"}
    BY <2>1 DEF TerminalGoesOn
  <2> QED
    BY <1>3, <2>2 DEF KeyInv, Fresh, ReaderEndsLast, Followed
<1> QED
  BY <1>1, <1>2, <1>3, FollowedByKeys

(* A goroutine moves to another place.                                         *)
LEMMA PlaceStep ==
    ASSUME TypeOK, NEW t \in Threads, NEW place \in Places, Goto(t, place),
           place \notin {"open", "draw", "watch"} \/ pc[t] \in {"open", "draw", "watch"},
           place # "loop", pc[t] # "close", caught' = caught,
           t = Reader => place # "finished"
    PROVE  TerminalGoesOn
<1>1. /\ \A u \in Threads : pc'[u] = IF u = t THEN place ELSE pc[u]
      /\ Main \in Threads /\ Reader \in Threads
  BY PressesAssumption DEF TypeOK, Goto, Threads
<1>2. Attended' => Attended
  BY <1>1 DEF Attended
<1> QED
  BY <1>1, <1>2 DEF TerminalGoesOn

(* No goroutine moves.                                                         *)
LEMMA StillStep ==
    ASSUME UNCHANGED <<pc, caught>>
    PROVE  TerminalGoesOn
  BY DEF TerminalGoesOn, Attended

(* Open, and Run up to watchSignals.                                           *)
LEMMA OpenStep ==
    ASSUME TypeOK, Alone, Opening
    PROVE  TerminalGoesOn
<1> USE ThreadsAssumption, PressesAssumption
<1>1. Main \in Threads /\ Watcher \in Threads /\ Reader \in Threads
      /\ Main # Watcher /\ Reader # Main /\ Reader # Watcher
  BY DEF Threads, Main, Watcher
<1>2. CASE EnterRaw
  BY <1>1, <1>2, PlaceStep DEF EnterRaw, Places
<1>3. CASE EnterScreen
  BY <1>1, <1>3, PlaceStep DEF EnterScreen, Places
<1>4. CASE OpenFails \/ EnterScreenFails
  BY <1>4, StillStep DEF OpenFails, EnterScreenFails
<1>5. CASE WatchSignals
  <2>1. pc[Main] = "watch" /\ pc[Reader] = "none"
    BY <1>1, <1>5 DEF WatchSignals, Alone
  <2>2. pc'[Main] = "loop" /\ pc'[Reader] = "none"
    BY <1>1, <1>5, <2>1 DEF WatchSignals, TypeOK
  <2> QED
    BY <2>1, <2>2 DEF TerminalGoesOn
<1> QED
  BY <1>2, <1>3, <1>4, <1>5 DEF Opening

(* The readers of keys start, and the screen works.                            *)
LEMMA WorkStep ==
    ASSUME TypeOK, StartKeys \/ Work
    PROVE  TerminalGoesOn
<1> USE ThreadsAssumption, PressesAssumption
<1>1. Workers \subseteq Threads /\ Main \notin Workers
  BY DEF Threads
<1>2. ASSUME NEW w \in Workers, Go(w) PROVE TerminalGoesOn
  BY <1>1, <1>2, PlaceStep DEF Go, Places
<1>3. ASSUME NEW w \in Workers \ {Reader}, Finish(w) PROVE TerminalGoesOn
  BY <1>1, <1>3, PlaceStep DEF Finish, Places
<1>4. ASSUME NEW w \in Workers, Panic(w) PROVE TerminalGoesOn
  BY <1>1, <1>4, PlaceStep DEF Panic, Places
<1> QED
  BY <1>2, <1>3, <1>4 DEF StartKeys, Work

(* Close, in either goroutine, and a signal.                                   *)
LEMMA CloseStepGoesOn ==
    ASSUME TypeOK, Close \/ Signaled \/ Watch
    PROVE  TerminalGoesOn
<1>1. CASE Close
  <2>1. UNCHANGED <<pc, caught>>
    BY <1>1 DEF Close, CloseStep, EnterClose, StopSignals, RestoreInput, LeaveScreen,
                PipeBreaks, AfterClose
  <2> QED
    BY <2>1, StillStep
<1>2. CASE Signaled
  BY <1>2 DEF Signaled, Strike, TerminalGoesOn, Attended
<1>3. CASE WatcherWakes
  <2>1. Watcher \in Threads /\ Main \in Threads /\ Reader \in Threads
    BY PressesAssumption DEF Threads
  <2>2. /\ pc'[Watcher] = "close"
        /\ pc'[Main] = (IF Main = Watcher THEN "close" ELSE pc[Main])
        /\ pc'[Reader] = (IF Reader = Watcher THEN "close" ELSE pc[Reader])
    BY <1>3, <2>1 DEF WatcherWakes, Goto, TypeOK
  <2> QED
    BY <2>1, <2>2 DEF TerminalGoesOn, Attended
<1>4. CASE WatcherEnds
  <2>1. Watcher \in Threads /\ "finished" \in Places
    BY DEF Threads, Places
  <2>2. Reader # Watcher
    BY DEF Reader, Watcher
  <2> QED
    BY <1>4, <2>1, <2>2, PlaceStep DEF WatcherEnds
<1> QED
  BY <1>1, <1>2, <1>3, <1>4 DEF Watch, Watching

(* The loop of the screen ends.                                                *)
LEMMA LeaveStep ==
    ASSUME TypeOK, LeaveScreenLoop
    PROVE  KeyInv'
<1>1. pc'[Main] = "close" /\ Main \in Threads
  BY DEF LeaveScreenLoop, LeaveLoop, Goto, TypeOK, Threads
<1> QED
  BY <1>1 DEF KeyInv, Fresh, ReaderEndsLast, Followed, Attended

(* Every step of the session keeps the keys.                                   *)
LEMMA KeyStep ==
    ASSUME TypeOK, Alone, KeyInv, [SessionNext]_allVars
    PROVE  KeyInv'
<1>1. CASE UNCHANGED allVars
  <2>1. UNCHANGED <<vars, keyVars>>
    BY <1>1 DEF allVars
  <2>2. /\ Attended' = Attended /\ KeyTypes' = KeyTypes /\ Heard' = Heard
        /\ pc' = pc /\ alive' = alive
    BY <2>1 DEF vars, keyVars, Attended, KeyTypes, Heard
  <2> QED
    BY <2>1, <2>2 DEF keyVars, KeyInv, Fresh, ReaderEndsLast, Followed
<1>2. CASE SessionNext
  <2>1. alive
    BY <1>2 DEF SessionNext
  <2>2. ASSUME NEW p \in Presses, Press(p) PROVE KeyInv'
    BY <2>1, <2>2, PressStep
  <2>3. CASE HangUp \/ Resize
    BY <2>1, <2>3, HangUpStep
  <2>4. CASE ReaderStep
    BY <2>1, <2>4, ReadStep, ReaderEndsStep DEF ReaderStep
  <2>5. CASE KeyerStep
    BY <2>1, <2>5, TakeChunkStep, FlushFiresStep, TakeResizeStep, EmitStep,
       TakeEndStep, KeyerEndsStep DEF KeyerStep
  <2>6. CASE TakeKey \/ LeaveScreenLoop
    BY <2>1, <2>6, TakeKeyStep, LeaveStep
  <2>7. CASE Open
    BY <2>1, <2>7, OpenStep, TerminalStep DEF Open
  <2>8. CASE StartKeys \/ Work
    BY <2>1, <2>8, WorkStep, TerminalStep DEF StartKeys, Work
  <2>9. CASE Close \/ Signaled \/ Watch
    BY <2>1, <2>9, CloseStepGoesOn, TerminalStep DEF Close, Signaled, Watch
  <2> QED
    BY <1>2, <2>2, <2>3, <2>4, <2>5, <2>6, <2>7, <2>8, <2>9 DEF SessionNext
<1> QED
  BY <1>1, <1>2

(* At first nothing was pressed.                                               *)
LEMMA KeysAtFirst == SessionInit => KeyInv
<1> SUFFICES ASSUME SessionInit PROVE KeyInv
  OBVIOUS
<1>1. KeyTypes /\ Follows(Heard, pending, chunk \o line, pressed)
  BY NoKeys DEF SessionInit
<1>2. pc[Main] = "open"
  BY DEF SessionInit, Init, Threads
<1> QED
  BY <1>1, <1>2 DEF SessionInit, KeyInv, Fresh, ReaderEndsLast, Followed, Attended

(* The invariant gives the property.                                           *)
LEMMA HeardFollows == KeyInv => HeardAsPressed
<1> SUFFICES ASSUME KeyInv, Attended, ~late, ~hasty
             PROVE  /\ IsPrefix(Heard, AllOf(Meant, pressed))
                    /\ line \o chunk \o pending = <<>> => Heard = AllOf(Meant, pressed)
  BY DEF HeardAsPressed
<1>1. KeyTypes /\ Follows(Heard, pending, chunk \o line, pressed)
  BY DEF KeyInv, Followed
<1>2. /\ IsPrefix(Heard, AllOf(Meant, pressed))
      /\ pending \o (chunk \o line) = <<>> => Heard = AllOf(Meant, pressed)
  <2>1. /\ Heard \in Seq(Names) /\ pending \in Seq(Bytes)
        /\ chunk \o line \in Seq(Bytes) /\ pressed \in Seq(Kinds)
    BY <1>1, HeardType DEF KeyTypes
  <2>2. PICK heard \in Seq(Names), more \in Seq(Bytes) :
                 heard = Heard /\ more = chunk \o line
    BY <2>1
  <2>3. Follows(heard, pending, more, pressed)
    BY <1>1, <2>2
  <2>4. /\ IsPrefix(heard, AllOf(Meant, pressed))
        /\ pending \o more = <<>> => heard = AllOf(Meant, pressed)
    BY <2>1, <2>3, FollowedHeard
  <2> QED
    BY <2>2, <2>4
<1>3. ASSUME line \o chunk \o pending = <<>> PROVE pending \o (chunk \o line) = <<>>
  <2>1. line \o chunk \in Seq(Bytes)
    BY <1>1, ConcatProperties DEF KeyTypes
  <2>2. line = <<>> /\ chunk = <<>> /\ pending = <<>>
    BY <1>1, <1>3, <2>1, ConcatSimplifications DEF KeyTypes
  <2> QED
    BY <2>2, NothingFollows
<1> QED
  BY <1>2, <1>3

(* What is known of the terminal holds in the session too.                     *)
LEMMA SessionAlone == SessionSpec => [](TypeOK /\ Alone)
<1>1. IInv => Alone
  BY DEF IInv
<1> QED
  BY <1>1, SessionUsesTerminal, TypeCorrect, GivenBackAlways, PTL

(* ReadKeys: a screen that is attended to hears the keys that were pressed,    *)
(* each once, whole and in the order they were pressed, wherever Read cuts     *)
(* their bytes and however many keys wait in the channel, and it has heard all *)
(* of them when no byte is left.  Not so once a key took longer than           *)
(* escapeTimeout to come, or was pressed before the Esc that precedes it was   *)
(* one.                                                                        *)
THEOREM PressesHeardInOrder == SessionSpec => []HeardAsPressed
<1>1. SessionSpec => [](TypeOK /\ Alone)
  BY SessionAlone
<1>2. SessionInit => KeyInv
  BY KeysAtFirst
<1>3. (TypeOK /\ Alone) /\ KeyInv /\ [SessionNext]_allVars => KeyInv'
  BY KeyStep
<1>4. KeyInv => HeardAsPressed
  BY HeardFollows
<1> QED
  BY <1>1, <1>2, <1>3, <1>4, PTL DEF SessionSpec
===============================================================================
