----------------------------- MODULE DaemonProofs -----------------------------
(* The daemon's loop and its records, for any number of daemons: what WakeLoop *)
(* keeps of the requests that wake it, and how that implements RefreshPromise; *)
(* then what the shared record of FetchRecords tells of the fetches.           *)
EXTENDS WakeLoop, FetchRecords, TLAPS

-------------------------------------------------------------------------------
(* WakeLoop, for any set of daemons and of workspaces.                         *)

LEMMA NoPassIsNoPass ==
  /\ NoPass \notin [scope : Scopes, force : BOOLEAN]
  /\ NoPass \notin Promise!Passes
<1>1. NoPass.scope = NoScope /\ NoScope \notin Scopes
  BY NamesAssumption DEF NoPass, Scopes
<1>2. QED
  BY <1>1 DEF Promise!Passes, Scopes

LEMMA BeginPassType ==
  ASSUME TypeOK, NEW d \in Daemons, NEW scope \in Scopes, NEW isForced \in BOOLEAN,
         BeginPass(d, scope, isForced), file' \in {file, NoScope}
  PROVE  TypeOK'
<1>1. [scope |-> scope, force |-> isForced] \in [scope : Scopes, force : BOOLEAN]
  OBVIOUS
<1>2. /\ pass' \in [Daemons -> [scope : Scopes, force : BOOLEAN] \cup {NoPass}]
      /\ pass'[d] # NoPass /\ \A e \in Daemons \ {d} : pass'[e] = pass[e]
  BY <1>1, NoPassIsNoPass DEF BeginPass, TypeOK
<1>3. /\ pc'[d] = "pass" /\ \A e \in Daemons \ {d} : pc'[e] = pc[e]
      /\ pc' \in [Daemons -> {"off", "idle", "taking", "reading", "removing", "pass"}]
  BY DEF BeginPass, Goes, TypeOK
<1>4. /\ forced'[d] = FALSE /\ \A e \in Daemons \ {d} : forced'[e] = forced[e]
      /\ forced' \in [Daemons -> BOOLEAN]
  BY DEF BeginPass, TypeOK
<1>5. /\ hint'[d] = NoScope /\ \A e \in Daemons \ {d} : hint'[e] = hint[e]
      /\ hint' \in [Daemons -> Scopes \cup {NoScope}]
  BY DEF BeginPass, TypeOK
<1>6. owed' \in Scopes \cup {NoScope} /\ UNCHANGED <<force, note, exits>>
  BY DEF BeginPass, TypeOK
<1>7. QED
  BY <1>2, <1>3, <1>4, <1>5, <1>6 DEF TypeOK

LEMMA TypeStep == TypeOK /\ [Next]_vars => TypeOK'
<1> SUFFICES ASSUME TypeOK, [Next]_vars PROVE TypeOK'
  OBVIOUS
<1>1. CASE Hooks
  BY <1>1 DEF Hooks, WakeForce, WakeFocus, locals, TypeOK
<1>2. ASSUME NEW d \in Daemons, Start(d) PROVE TypeOK'
  BY <1>2, BeginPassType DEF Start, Scopes
<1>3. ASSUME NEW d \in Daemons, TakeForce(d) PROVE TypeOK'
  BY <1>3 DEF TakeForce, Goes, TypeOK
<1>4. ASSUME NEW d \in Daemons, TakeNote(d) PROVE TypeOK'
  BY <1>4 DEF TakeNote, Goes, TypeOK
<1>5. ASSUME NEW d \in Daemons, NoNoteTaken(d) PROVE TypeOK'
  <2>1. CASE BeginPass(d, All, forced[d])
    BY <1>5, <2>1, BeginPassType DEF NoNoteTaken, Scopes, TypeOK
  <2>2. CASE ~forced[d] /\ Goes(d, "idle") /\ UNCHANGED <<force, note, forced, hint, pass, owed, exits>>
    BY <1>5, <2>2 DEF NoNoteTaken, Goes, TypeOK
  <2>3. QED
    BY <1>5, <2>1, <2>2 DEF NoNoteTaken
<1>6. ASSUME NEW d \in Daemons, ReadNote(d) PROVE TypeOK'
  <2>1. PICK scope \in Scopes : HintIs(d, scope)
    BY <1>6 DEF ReadNote, Readings, Scopes, TypeOK
  <2>2. scope # NoScope
    BY NamesAssumption DEF Scopes
  <2>3. QED
    BY <1>6, <2>1, <2>2 DEF ReadNote, HintIs, Goes, TypeOK
<1>7. ASSUME NEW d \in Daemons, RemoveNote(d) PROVE TypeOK'
  <2>1. hint[d] \in Scopes /\ forced[d] \in BOOLEAN
    BY <1>7 DEF RemoveNote, TypeOK
  <2>2. QED
    BY <1>7, <2>1, BeginPassType DEF RemoveNote
<1>8. ASSUME NEW d \in Daemons, EndSweep(d) PROVE TypeOK'
  BY <1>8 DEF EndSweep, Goes, TypeOK
<1>9. ASSUME NEW d \in Daemons, Exit(d) PROVE TypeOK'
  <2>1. exits' \in 0..MaxExits
    BY <1>9, NamesAssumption DEF Exit, TypeOK
  <2>2. QED
    BY <1>9, <2>1 DEF Exit, Goes, TypeOK
<1>10. CASE UNCHANGED vars
  BY <1>10 DEF vars, locals, TypeOK
<1>11. QED
  BY <1>1, <1>2, <1>3, <1>4, <1>5, <1>6, <1>7, <1>8, <1>9, <1>10 DEF Next, Loop

(* Every variable keeps its type, and takeWake's locals outlive none of its    *)
(* calls.                                                                      *)
THEOREM TypeCorrect == Spec => []TypeOK
<1>1. Init => TypeOK
  <2> SUFFICES ASSUME Init PROVE TypeOK
    OBVIOUS
  <2>1. 0 \in 0..MaxExits
    BY NamesAssumption
  <2>2. pass \in [Daemons -> [scope : Scopes, force : BOOLEAN] \cup {NoPass}]
    BY DEF Init
  <2>3. \A d \in Daemons : pc[d] = "off" /\ ~forced[d] /\ hint[d] = NoScope /\ pass[d] = NoPass
    BY DEF Init
  <2>4. QED
    BY <2>1, <2>2, <2>3 DEF Init, TypeOK
<1>2. QED
  BY <1>1, TypeStep, PTL DEF Spec

-------------------------------------------------------------------------------
(* A daemon that holds the newest focus goes on holding it while others act,   *)
(* unless another focus is taken: who removes the file leaves none behind.     *)
LEMMA HolderUndisturbed ==
  ASSUME NEW e \in Daemons, Holds(e),
         pc'[e] = pc[e], forced'[e] = forced[e], hint'[e] = hint[e],
         owed' = owed, file' \in {file, NoScope}
  PROVE  Holds(e)'
BY DEF Holds

LEMMA BeginPassHeld ==
  ASSUME TypeOK, FocusHeld, NEW d \in Daemons, NEW scope \in Scopes, NEW isForced \in BOOLEAN,
         BeginPass(d, scope, isForced), file' \in {file, NoScope},
         Holds(d) => scope \in {All, owed}
  PROVE  FocusHeld'
<1> SUFFICES ASSUME owed' # NoScope PROVE \E e \in Daemons : Holds(e)'
  BY DEF FocusHeld
<1>1. owed' = owed /\ scope \notin {All, owed}
  BY DEF BeginPass
<1>2. PICK e \in Daemons : Holds(e)
  BY <1>1 DEF FocusHeld
<1>3. e # d
  BY <1>1, <1>2
<1>4. pc'[e] = pc[e] /\ forced'[e] = forced[e] /\ hint'[e] = hint[e]
  BY <1>3 DEF BeginPass, Goes, TypeOK
<1>5. QED
  BY <1>1, <1>2, <1>4, HolderUndisturbed

LEMMA HeldStep == TypeOK /\ FocusHeld /\ [Next]_vars => FocusHeld'
<1> SUFFICES ASSUME TypeOK, FocusHeld, [Next]_vars PROVE FocusHeld'
  OBVIOUS
<1>1. CASE Hooks \/ UNCHANGED vars
  BY <1>1 DEF Hooks, WakeForce, WakeFocus, vars, locals, FocusHeld, Holds
<1>2. ASSUME NEW d \in Daemons, Start(d) PROVE FocusHeld'
  BY <1>2, BeginPassHeld DEF Start, Scopes
<1>3. ASSUME NEW d \in Daemons, TakeForce(d) PROVE FocusHeld'
  <2>1. \A e \in Daemons : Holds(e) => Holds(e)'
    BY <1>3 DEF TakeForce, Goes, TypeOK, Holds
  <2>2. QED
    BY <1>3, <2>1 DEF TakeForce, FocusHeld
<1>4. ASSUME NEW d \in Daemons, TakeNote(d) PROVE FocusHeld'
  BY <1>4 DEF TakeNote, Goes, TypeOK, FocusHeld, Holds
<1>5. ASSUME NEW d \in Daemons, NoNoteTaken(d) PROVE FocusHeld'
  <2>1. CASE BeginPass(d, All, forced[d])
    BY <1>5, <2>1, BeginPassHeld DEF NoNoteTaken, Scopes, TypeOK
  <2>2. CASE Goes(d, "idle") /\ UNCHANGED <<force, note, forced, hint, pass, owed, exits>>
    <3>1. \A e \in Daemons : Holds(e) => Holds(e)'
      BY <1>5, <2>2 DEF NoNoteTaken, Goes, TypeOK, Holds
    <3>2. QED
      BY <2>2, <3>1 DEF FocusHeld
  <2>3. QED
    BY <1>5, <2>1, <2>2 DEF NoNoteTaken
<1>6. ASSUME NEW d \in Daemons, ReadNote(d) PROVE FocusHeld'
  <2>1. PICK scope \in Readings : HintIs(d, IF forced[d] THEN All ELSE scope)
    BY <1>6 DEF ReadNote
  <2>2. \A e \in Daemons \ {d} : Holds(e) => Holds(e)'
    BY <2>1 DEF HintIs, Goes, TypeOK, Holds
  <2>3. Holds(d) => Holds(d)'
    BY <1>6, <2>1 DEF ReadNote, HintIs, Goes, TypeOK, Holds, Readings
  <2>4. QED
    BY <2>1, <2>2, <2>3 DEF HintIs, FocusHeld
<1>7. ASSUME NEW d \in Daemons, RemoveNote(d) PROVE FocusHeld'
  <2>1. hint[d] \in Scopes /\ forced[d] \in BOOLEAN
    BY <1>7 DEF RemoveNote, TypeOK
  <2>2. Holds(d) => hint[d] \in {All, owed}
    BY <1>7 DEF RemoveNote, Holds
  <2>3. QED
    BY <1>7, <2>1, <2>2, BeginPassHeld DEF RemoveNote
<1>8. ASSUME NEW d \in Daemons, EndSweep(d) PROVE FocusHeld'
  <2>1. \A e \in Daemons : Holds(e) => Holds(e)'
    BY <1>8 DEF EndSweep, Goes, TypeOK, Holds
  <2>2. QED
    BY <1>8, <2>1 DEF EndSweep, FocusHeld
<1>9. ASSUME NEW d \in Daemons, Exit(d) PROVE FocusHeld'
  <2>1. SUFFICES ASSUME owed' # NoScope PROVE \E e \in Daemons : Holds(e)'
    BY DEF FocusHeld
  <2>2. PICK e \in Daemons \ {d} : Holds(e)
    BY <1>9, <2>1 DEF Exit
  <2>3. owed' = owed
    BY <1>9, <2>2 DEF Exit
  <2>4. QED
    BY <1>9, <2>2, <2>3, HolderUndisturbed DEF Exit, Goes, TypeOK
<1>10. QED
  BY <1>1, <1>2, <1>3, <1>4, <1>5, <1>6, <1>7, <1>8, <1>9 DEF Next, Loop

(* Although daemons rename to, read and remove one wake.json.taken, the newest *)
(* focus that any of them took is always in the hands of one that will serve   *)
(* it (daemon.go:231-239).                                                     *)
THEOREM NewestFocusHeld == Spec => []FocusHeld
<1>1. Init => FocusHeld
  BY DEF Init, FocusHeld
<1>2. QED
  BY <1>1, HeldStep, TypeCorrect, PTL DEF Spec

-------------------------------------------------------------------------------
(* A note does not narrow the forced pass it came with.                        *)
Unnarrowed == \A d \in Daemons : pc[d] = "removing" /\ forced[d] => hint[d] = All

LEMMA UnnarrowedStep == TypeOK /\ Unnarrowed /\ [Next]_vars => Unnarrowed'
<1> SUFFICES ASSUME TypeOK, Unnarrowed, [Next]_vars,
                    NEW e \in Daemons, pc'[e] = "removing", forced'[e]
             PROVE  hint'[e] = All
  BY DEF Unnarrowed
<1>1. CASE Hooks \/ UNCHANGED vars
  BY <1>1 DEF Hooks, WakeForce, WakeFocus, vars, locals, Unnarrowed
<1>2. ASSUME NEW d \in Daemons, ReadNote(d) PROVE hint'[e] = All
  BY <1>2 DEF ReadNote, HintIs, Goes, TypeOK, Unnarrowed
<1>3. ASSUME NEW d \in Daemons,
             Start(d) \/ TakeForce(d) \/ TakeNote(d) \/ NoNoteTaken(d) \/ RemoveNote(d)
               \/ EndSweep(d) \/ Exit(d)
      PROVE  hint'[e] = All
  <2>1. e # d
    BY <1>3
    DEF Start, BeginPass, TakeForce, TakeNote, NoNoteTaken, RemoveNote, EndSweep, Exit, Goes, TypeOK
  <2>2. pc'[e] = pc[e] /\ forced'[e] = forced[e] /\ hint'[e] = hint[e]
    BY <1>3, <2>1
    DEF Start, BeginPass, TakeForce, TakeNote, NoNoteTaken, RemoveNote, EndSweep, Exit, Goes, TypeOK
  <2>3. QED
    BY <2>2 DEF Unnarrowed
<1>4. QED
  BY <1>1, <1>2, <1>3 DEF Next, Loop

(* Some daemon keeps the focus before and after a step that does not settle it *)
(* and asks for no newer one.                                                  *)
LEMMA StillKept ==
  ASSUME TypeOK, TypeOK', FocusHeld', note = NoScope, note' = NoScope,
         owed' = owed, owed # NoScope,
         \A d \in Daemons : pc'[d] = "off" => ~Holds(d)'
  PROVE  Keepers' \in (SUBSET {d \in Daemons : pc'[d] # "off"}) \ {{}}
BY DEF FocusHeld, Keepers

LEMMA OffHoldsNothingAfter == \A d \in Daemons : pc'[d] = "off" => ~Holds(d)'
BY DEF Holds

(* Who keeps the newest focus when its note was taken and it is still owed.    *)
LEMMA KeptNow == TypeOK /\ FocusHeld => (Keepers = {} <=> note # NoScope \/ owed = NoScope)
BY DEF Keepers, FocusHeld

(* A pass that begins is one that the promise allows.                          *)
LEMMA BeginPassServes ==
  ASSUME TypeOK, FocusHeld, TypeOK', FocusHeld',
         NEW d \in Daemons, NEW scope \in Scopes, NEW isForced \in BOOLEAN,
         BeginPass(d, scope, isForced), pass[d] = NoPass,
         forced[d] => isForced /\ scope = All
  PROVE  Promise!Next
<1> DEFINE p == [scope |-> scope, force |-> isForced]
<1>1. p \in Promise!Passes
  BY DEF Promise!Passes, Scopes
<1>2. pass' = [pass EXCEPT ![d] = p] /\ UNCHANGED <<force, note>>
  BY DEF BeginPass
<1>3. /\ forced'[d] = FALSE /\ \A e \in Daemons \ {d} : forced'[e] = forced[e]
      /\ pc'[d] = "pass" /\ \A e \in Daemons \ {d} : pc'[e] = pc[e]
  BY DEF BeginPass, Goes, TypeOK
<1>4. {e \in Daemons : pc'[e] # "off"} = {e \in Daemons : pc[e] # "off"} \cup {d}
  BY <1>3
<1>5. {e \in Daemons : forced'[e]} = {e \in Daemons : forced[e]} \ {d}
  BY <1>3
<1>6. d \in {e \in Daemons : forced[e]} => p = [scope |-> All, force |-> TRUE]
  OBVIOUS
<1>7. CASE Keepers = {}
  <2>1. note # NoScope \/ owed = NoScope
    BY <1>7, KeptNow
  <2>2. note' # NoScope \/ owed' = NoScope
    BY <1>2, <2>1 DEF BeginPass
  <2>3. Keepers' = {} /\ (note = NoScope => owed' = owed)
    BY <2>1, <2>2 DEF Keepers, BeginPass
  <2>4. Promise!Serve(d, p)
    BY <1>2, <1>4, <1>5, <1>6, <1>7, <2>3 DEF Promise!Serve, Promise!NoPass, NoPass
  <2>5. QED
    BY <1>1, <2>4 DEF Promise!Next
<1>8. CASE Keepers # {} /\ scope \in {All, owed}
  <2>1. note = NoScope /\ note' = NoScope /\ owed' = NoScope /\ Keepers' = {}
    BY <1>2, <1>8, KeptNow DEF BeginPass, Keepers
  <2>2. Promise!Serve(d, p)
    BY <1>2, <1>4, <1>5, <1>6, <1>8, <2>1
       DEF Promise!Serve, Promise!Covers, Promise!NoPass, NoPass
  <2>3. QED
    BY <1>1, <2>2 DEF Promise!Next
<1>9. CASE Keepers # {} /\ scope \notin {All, owed}
  <2>1. note = NoScope /\ note' = NoScope /\ owed' = owed /\ owed # NoScope
    BY <1>2, <1>9, KeptNow DEF BeginPass
  <2>2. Keepers' \in (SUBSET {e \in Daemons : pc'[e] # "off"}) \ {{}}
    BY <2>1, StillKept, OffHoldsNothingAfter
  <2>3. Promise!KeepFocus
    BY <2>1, <2>2 DEF Promise!KeepFocus
  <2>4. Promise!Serve(d, p)
    BY <1>2, <1>4, <1>5, <1>6, <1>9, <2>3 DEF Promise!Serve, Promise!NoPass, NoPass
  <2>5. QED
    BY <1>1, <2>4 DEF Promise!Next
<1>10. QED
  BY <1>7, <1>8, <1>9

(* A step that neither takes a forced request nor begins or ends a pass nor    *)
(* settles a focus leaves the promise as it is, or moves the focus from hand   *)
(* to hand.                                                                    *)
LEMMA OtherwiseKept ==
  ASSUME TypeOK, FocusHeld, TypeOK', FocusHeld', UNCHANGED <<force, forced, pass>>,
         \A d \in Daemons : pc'[d] = "off" <=> pc[d] = "off",
         \/ UNCHANGED <<note, owed>>
         \/ note # NoScope /\ note' = NoScope /\ owed' = note
  PROVE  [Promise!Next]_(Promise!vars)
<1>1. {d \in Daemons : pc'[d] # "off"} = {d \in Daemons : pc[d] # "off"}
  OBVIOUS
<1>2. CASE (IF note = NoScope THEN owed ELSE note) # NoScope /\ note' = NoScope
  <2>1. owed' # NoScope /\ owed' = IF note = NoScope THEN owed ELSE note
    BY <1>2
  <2>2. Keepers' \in (SUBSET {d \in Daemons : pc'[d] # "off"}) \ {{}}
    BY <1>2, <2>1, OffHoldsNothingAfter DEF FocusHeld, Keepers
  <2>3. Promise!TakeFocus
    BY <1>1, <1>2, <2>1, <2>2 DEF Promise!TakeFocus, Promise!KeepFocus
  <2>4. QED
    BY <2>3 DEF Promise!Next
<1>3. CASE ~((IF note = NoScope THEN owed ELSE note) # NoScope /\ note' = NoScope)
  <2>1. UNCHANGED <<note, owed>>
    BY <1>3
  <2>2. Keepers' = {} /\ Keepers = {}
    BY <1>3, <2>1 DEF Keepers
  <2>3. QED
    BY <1>1, <2>1, <2>2 DEF Promise!vars
<1>4. QED
  BY <1>2, <1>3

LEMMA StepKeepsPromise ==
  TypeOK /\ FocusHeld /\ Unnarrowed /\ [Next]_vars => [Promise!Next]_(Promise!vars)
<1> SUFFICES ASSUME TypeOK, FocusHeld, Unnarrowed, [Next]_vars
             PROVE  [Promise!Next]_(Promise!vars)
  OBVIOUS
<1>0. TypeOK' /\ FocusHeld'
  BY TypeStep, HeldStep
<1>1. CASE WakeForce
  <2>1. Promise!AskAll
    BY <1>1 DEF WakeForce, locals, Keepers, Holds, Promise!AskAll
  <2>2. QED
    BY <2>1 DEF Promise!Next
<1>2. ASSUME NEW scope \in Scopes, WakeFocus(scope) PROVE Promise!Next
  <2>1. note' = scope /\ scope # NoScope
    BY <1>2, NamesAssumption DEF WakeFocus, Scopes
  <2>2. Keepers' = {}
    BY <2>1 DEF Keepers
  <2>3. Promise!AskFocus(scope)
    BY <1>2, <2>1, <2>2 DEF WakeFocus, locals, Promise!AskFocus
  <2>4. QED
    BY <2>3 DEF Promise!Next, Scopes
<1>3. ASSUME NEW d \in Daemons, Start(d) PROVE Promise!Next
  BY <1>0, <1>3, BeginPassServes DEF Start, Scopes, TypeOK
<1>4. ASSUME NEW d \in Daemons, TakeForce(d) PROVE [Promise!Next]_(Promise!vars)
  <2>1. /\ forced'[d] = force /\ ~forced[d] /\ force' = FALSE
        /\ \A e \in Daemons \ {d} : forced'[e] = forced[e]
        /\ pc[d] = "idle" /\ pc'[d] = "taking"
        /\ \A e \in Daemons \ {d} : pc'[e] = pc[e]
        /\ UNCHANGED <<note, file, hint, pass, owed>>
    BY <1>4 DEF TakeForce, Goes, TypeOK
  <2>2. {e \in Daemons : pc'[e] # "off"} = {e \in Daemons : pc[e] # "off"}
    BY <2>1
  <2>3. \A e \in Daemons : Holds(e)' <=> Holds(e)
    BY <2>1 DEF Holds
  <2>4. Keepers' = Keepers
    BY <2>1, <2>3 DEF Keepers
  <2>5. CASE force
    <3>1. {e \in Daemons : forced'[e]} = {e \in Daemons : forced[e]} \cup {d}
      BY <2>1, <2>5
    <3>2. Promise!TakeAll(d)
      BY <2>1, <2>2, <2>4, <2>5, <3>1 DEF Promise!TakeAll
    <3>3. QED
      BY <3>2 DEF Promise!Next
  <2>6. CASE ~force
    <3>1. {e \in Daemons : forced'[e]} = {e \in Daemons : forced[e]} /\ force' = force
      BY <2>1, <2>6 DEF TypeOK
    <3>2. QED
      BY <2>1, <2>2, <2>4, <3>1 DEF Promise!vars
  <2>7. QED
    BY <2>5, <2>6
<1>5. ASSUME NEW d \in Daemons, TakeNote(d) PROVE [Promise!Next]_(Promise!vars)
  BY <1>0, <1>5, OtherwiseKept DEF TakeNote, Goes, TypeOK
<1>6. ASSUME NEW d \in Daemons, NoNoteTaken(d) PROVE [Promise!Next]_(Promise!vars)
  <2>1. CASE BeginPass(d, All, forced[d])
    BY <1>0, <1>6, <2>1, BeginPassServes DEF NoNoteTaken, Scopes, TypeOK
  <2>2. CASE Goes(d, "idle") /\ UNCHANGED <<force, note, forced, hint, pass, owed, exits>>
    BY <1>0, <1>6, <2>2, OtherwiseKept DEF NoNoteTaken, Goes, TypeOK
  <2>3. QED
    BY <1>6, <2>1, <2>2 DEF NoNoteTaken
<1>7. ASSUME NEW d \in Daemons, ReadNote(d) PROVE [Promise!Next]_(Promise!vars)
  BY <1>0, <1>7, OtherwiseKept DEF ReadNote, HintIs, Goes, TypeOK
<1>8. ASSUME NEW d \in Daemons, RemoveNote(d) PROVE Promise!Next
  <2>1. hint[d] \in Scopes /\ forced[d] \in BOOLEAN /\ pass[d] = NoPass
    BY <1>8 DEF RemoveNote, TypeOK
  <2>2. forced[d] => hint[d] = All
    BY <1>8 DEF RemoveNote, Unnarrowed
  <2>3. QED
    BY <1>0, <1>8, <2>1, <2>2, BeginPassServes DEF RemoveNote
<1>9. ASSUME NEW d \in Daemons, EndSweep(d) PROVE Promise!Next
  <2>1. /\ pc[d] = "pass" /\ pc'[d] = "idle"
        /\ \A e \in Daemons \ {d} : pc'[e] = pc[e]
        /\ UNCHANGED <<force, note, file, forced, hint, owed>>
    BY <1>9 DEF EndSweep, Goes, TypeOK
  <2>2. {e \in Daemons : pc'[e] # "off"} = {e \in Daemons : pc[e] # "off"}
    BY <2>1
  <2>3. \A e \in Daemons : Holds(e)' <=> Holds(e)
    BY <2>1 DEF Holds
  <2>4. Keepers' = Keepers
    BY <2>1, <2>3 DEF Keepers
  <2>5. Promise!EndPass(d)
    BY <1>9, <2>1, <2>2, <2>4 DEF EndSweep, Promise!EndPass, Promise!NoPass, NoPass, TypeOK
  <2>6. QED
    BY <2>5 DEF Promise!Next
<1>10. ASSUME NEW d \in Daemons, Exit(d) PROVE Promise!Next
  <2>1. /\ pc[d] # "off" /\ pc'[d] = "off" /\ forced'[d] = FALSE
        /\ \A e \in Daemons \ {d} :
             pc'[e] = pc[e] /\ forced'[e] = forced[e] /\ hint'[e] = hint[e]
        /\ UNCHANGED <<force, note, file>>
    BY <1>10 DEF Exit, Goes, TypeOK
  <2>2. /\ {e \in Daemons : pc'[e] # "off"} = {e \in Daemons : pc[e] # "off"} \ {d}
        /\ {e \in Daemons : forced'[e]} = {e \in Daemons : forced[e]} \ {d}
    BY <2>1
  <2>3. pass' = [pass EXCEPT ![d] = Promise!NoPass]
    BY <1>10 DEF Exit, Promise!NoPass, NoPass
  <2>4. /\ Keepers' = Keepers \ {d}
        /\ (IF note' = NoScope THEN owed' ELSE note') =
             IF Keepers = {d} THEN NoScope ELSE IF note = NoScope THEN owed ELSE note
    <3>1. CASE \E e \in Daemons \ {d} : Holds(e)
      <4>1. owed' = owed
        BY <1>10, <3>1 DEF Exit
      <4>2. \A e \in Daemons \ {d} : Holds(e)' <=> Holds(e)
        BY <2>1, <4>1 DEF Holds
      <4>3. ~Holds(d)'
        BY <2>1 DEF Holds
      <4>4. Keepers' = Keepers \ {d} /\ Keepers # {d}
        BY <2>1, <3>1, <4>1, <4>2, <4>3 DEF Keepers
      <4>5. QED
        BY <2>1, <4>1, <4>4
    <3>2. CASE ~\E e \in Daemons \ {d} : Holds(e)
      <4>1. owed' = NoScope
        BY <1>10, <3>2 DEF Exit
      <4>2. Keepers' = {} /\ Keepers \subseteq {d}
        BY <3>2, <4>1 DEF Keepers
      <4>3. Keepers = {d} <=> note = NoScope /\ owed # NoScope
        BY <3>2, KeptNow, <4>2
      <4>4. QED
        BY <2>1, <4>1, <4>2, <4>3, NamesAssumption
    <3>3. QED
      BY <3>1, <3>2
  <2>5. Promise!Die(d)
    BY <2>1, <2>2, <2>3, <2>4 DEF Promise!Die
  <2>6. QED
    BY <2>5 DEF Promise!Next
<1>11. CASE UNCHANGED vars
  BY <1>11 DEF vars, locals, Keepers, Holds, Promise!vars
<1>12. QED
  BY <1>1, <1>2, <1>3, <1>4, <1>5, <1>6, <1>7, <1>8, <1>9, <1>10, <1>11 DEF Next, Loop, Hooks

(* The wake files and takeWake implement the promise: whatever hooks and loops *)
(* do in between, no daemon that goes on drops or narrows a forced request, a  *)
(* focus gives way to a newer focus only, and an exit loses nothing that a     *)
(* file or another daemon has.                                                 *)
THEOREM KeepsPromise == Spec => PromiseKept
<1>1. Init => Promise!Init /\ Unnarrowed
  BY DEF Init, Promise!Init, NoPass, Promise!NoPass, Unnarrowed, Keepers
<1>2. QED
  BY <1>1, UnnarrowedStep, StepKeepsPromise, TypeCorrect, NewestFocusHeld, PTL
     DEF Spec, PromiseKept, Promise!Spec

-------------------------------------------------------------------------------
(* FetchRecords, for any set of servers, any throttle and any threshold.       *)

LEMMA LaterType ==
  ASSUME tried \in Times, NEW attempt \in Times, tried <= now, attempt <= now
  PROVE  /\ Later(attempt) \in Times /\ Later(attempt) <= now
         /\ tried <= attempt => Later(attempt) = attempt
BY TimingAssumption DEF Times, Later

(* A daemon works on what it believes to be in the file, with a newer attempt  *)
(* at most.                                                                    *)
Believes ==
    \A d \in Servers :
      /\ loaded[d].error = base[d].error
      /\ loaded[d].failing = base[d].failing
      /\ base[d].attempt <= loaded[d].attempt
      /\ loaded[d].attempt <= now

(* Until a save undoes another daemon's, the record is of the latest attempt,  *)
(* and its failures are newer than the latest success.                         *)
Tells ==
    ~lost => /\ record.attempt = tried
             /\ record.failing # 0 => reached <= record.failing

Clock == 1 <= now /\ tried <= now /\ reached <= now /\ record.attempt <= now

RecordsInv == RecordsTypeOK /\ Believes /\ Tells /\ Clock

LEMMA EmptyType == Empty \in Records /\ Empty.failing = 0 /\ Empty.error = "none" /\ Empty.attempt = 0
BY TimingAssumption DEF Empty, Records, Times

LEMMA RecordType ==
  ASSUME NEW r \in Records
  PROVE  /\ r.attempt \in Nat /\ r.failing \in Nat
         /\ \A t \in Times : LET s == [r EXCEPT !.attempt = t]
                            IN  /\ s \in Records /\ s.attempt = t
                                /\ s.failing = r.failing /\ s.error = r.error
         /\ MarkSuccess(r) \in Records
         /\ now \in Times =>
              \A kind \in {"passing", "permanent"} : MarkFailure(r, kind) \in Records
<1> USE TimingAssumption DEF Records, Times
<1>1. r.attempt \in Nat /\ r.failing \in Nat
  OBVIOUS
<1>2. \A t \in Times : LET s == [r EXCEPT !.attempt = t]
                       IN  /\ s \in Records /\ s.attempt = t
                           /\ s.failing = r.failing /\ s.error = r.error
  OBVIOUS
<1>3. MarkSuccess(r) \in Records
  <2>1. \A t \in Times : [r EXCEPT !.error = "none", !.failing = t] \in Records
    OBVIOUS
  <2>2. 0 \in Times
    OBVIOUS
  <2>3. QED
    BY <2>1, <2>2 DEF MarkSuccess
<1>4. ASSUME now \in Times, NEW kind \in {"passing", "permanent"}
      PROVE  MarkFailure(r, kind) \in Records
  BY <1>4 DEF MarkFailure
<1>5. QED
  BY <1>1, <1>2, <1>3, <1>4

(* What the saved records keep of the loaded one.                              *)
LEMMA RecordFields ==
  ASSUME NEW r \in Records, now \in Times, 1 <= now
  PROVE  /\ MarkSuccess(r).attempt = r.attempt
         /\ MarkSuccess(r).failing = 0 /\ MarkSuccess(r).error = "none"
         /\ \A kind \in {"passing", "permanent"} :
              /\ MarkFailure(r, kind).attempt = r.attempt
              /\ MarkFailure(r, kind).error = kind
              /\ MarkFailure(r, kind).failing = IF r.failing = 0 THEN now ELSE r.failing
              /\ MarkFailure(r, kind).failing # 0
BY TimingAssumption DEF Records, Times, MarkSuccess, MarkFailure

LEMMA InitRecordsInv == RecordsInit => RecordsInv
<1> SUFFICES ASSUME RecordsInit PROVE RecordsInv
  OBVIOUS
<1> USE EmptyType, TimingAssumption DEF RecordsInit, Times, Consistent
<1>1. now \in Times /\ record \in Records /\ tried \in Times /\ reached \in Times
  OBVIOUS
<1>2. doing \in [Servers -> {"idle", "due", "forced", "fetching"}]
  OBVIOUS
<1>3. loaded \in [Servers -> Records] /\ base \in [Servers -> Records]
  OBVIOUS
<1>4. Consistent(record) /\ lost \in BOOLEAN
  OBVIOUS
<1>5. \A d \in Servers : loaded[d] = Empty /\ base[d] = Empty
  OBVIOUS
<1>6. Believes
  <2> SUFFICES ASSUME NEW d \in Servers
               PROVE  /\ loaded[d].error = base[d].error
                      /\ loaded[d].failing = base[d].failing
                      /\ base[d].attempt <= loaded[d].attempt
                      /\ loaded[d].attempt <= now
    BY DEF Believes
  <2>1. loaded[d] = Empty /\ base[d] = Empty
    BY <1>5
  <2>2. now = 1
    OBVIOUS
  <2>3. QED
    BY <2>1, <2>2
<1>7. Tells /\ Clock
  BY DEF Tells, Clock
<1>8. QED
  BY <1>1, <1>2, <1>3, <1>4, <1>5, <1>6, <1>7 DEF RecordsInv, RecordsTypeOK

(* What a step of d does to the memory of the daemons.                         *)
LEMMA MemoryStep ==
  ASSUME RecordsInv, NEW d \in Servers, NEW x \in Records, NEW b \in Records,
         loaded' = [loaded EXCEPT ![d] = x], base' = [base EXCEPT ![d] = b],
         UNCHANGED now, NEW step \in {"idle", "due", "forced", "fetching"}, GoTo(d, step),
         x.error = b.error, x.failing = b.failing,
         b.attempt <= x.attempt, x.attempt <= now, Consistent(x)
  PROVE  /\ loaded' \in [Servers -> Records] /\ base' \in [Servers -> Records]
         /\ doing' \in [Servers -> {"idle", "due", "forced", "fetching"}]
         /\ \A e \in Servers : Consistent(loaded'[e])
         /\ Believes'
<1>1. loaded \in [Servers -> Records] /\ base \in [Servers -> Records]
      /\ doing \in [Servers -> {"idle", "due", "forced", "fetching"}]
      /\ \A e \in Servers : Consistent(loaded[e])
  BY DEF RecordsInv, RecordsTypeOK
<1>2. loaded' \in [Servers -> Records] /\ base' \in [Servers -> Records]
  BY <1>1
<1>3. doing' \in [Servers -> {"idle", "due", "forced", "fetching"}]
  BY <1>1 DEF GoTo
<1>4. loaded'[d] = x /\ base'[d] = b
  BY <1>1
<1>5. \A e \in Servers \ {d} : loaded'[e] = loaded[e] /\ base'[e] = base[e]
  BY <1>1
<1>6. \A e \in Servers : Consistent(loaded'[e])
  BY <1>1, <1>4, <1>5
<1>7. ASSUME NEW e \in Servers
      PROVE  /\ loaded'[e].error = base'[e].error /\ loaded'[e].failing = base'[e].failing
             /\ base'[e].attempt <= loaded'[e].attempt /\ loaded'[e].attempt <= now'
  <2>1. CASE e = d
    BY <1>4, <2>1
  <2>2. CASE e # d
    BY <1>5, <2>2 DEF RecordsInv, Believes
  <2>3. QED
    BY <2>1, <2>2
<1>8. QED
  BY <1>2, <1>3, <1>6, <1>7 DEF Believes

LEMMA LeaveStep ==
  ASSUME RecordsInv, NEW d \in Servers, Leave(d), UNCHANGED now
  PROVE  /\ loaded' \in [Servers -> Records] /\ base' \in [Servers -> Records]
         /\ doing' \in [Servers -> {"idle", "due", "forced", "fetching"}]
         /\ \A e \in Servers : Consistent(loaded'[e])
         /\ Believes'
<1>1. 0 <= now
  BY DEF RecordsInv, Clock, RecordsTypeOK, Times
<1>2. Consistent(Empty)
  BY EmptyType DEF Consistent
<1>3. Empty.attempt <= Empty.attempt /\ Empty.attempt <= now
  BY <1>1, EmptyType
<1>4. /\ loaded' = [loaded EXCEPT ![d] = Empty] /\ base' = [base EXCEPT ![d] = Empty]
      /\ GoTo(d, "idle")
  BY DEF Leave
<1>5. QED
  BY <1>2, <1>3, <1>4, EmptyType, MemoryStep

LEMMA StepRecordsInv == RecordsInv /\ [RecordsNext]_recordVars => RecordsInv'
<1> SUFFICES ASSUME RecordsInv, [RecordsNext]_recordVars PROVE RecordsInv'
  OBVIOUS
<1>1. now \in Times /\ tried \in Times /\ reached \in Times /\ record \in Records
      /\ lost \in BOOLEAN /\ Consistent(record) /\ Tells /\ Clock
  BY DEF RecordsInv, RecordsTypeOK
<1>2. \A d \in Servers :
        /\ loaded[d] \in Records /\ base[d] \in Records /\ Consistent(loaded[d])
        /\ loaded[d].failing = base[d].failing /\ loaded[d].error = base[d].error
        /\ loaded[d].attempt \in Times /\ base[d].attempt \in Times
        /\ base[d].attempt <= loaded[d].attempt /\ loaded[d].attempt <= now
  BY DEF RecordsInv, RecordsTypeOK, Believes, Records
<1>3. ASSUME NEW d \in Servers, Load(d) PROVE RecordsInv'
  <2>1. PICK r \in {record, Empty}, step \in {"due", "forced"} :
          /\ loaded' = [loaded EXCEPT ![d] = r] /\ base' = [base EXCEPT ![d] = r]
          /\ GoTo(d, step)
    BY <1>3 DEF Load
  <2>2. r \in Records /\ r.attempt <= now /\ r.attempt <= r.attempt /\ Consistent(r)
    BY <1>1, <2>1, EmptyType, RecordType DEF Clock, Times, Consistent
  <2>3. UNCHANGED <<now, record, tried, reached, lost>>
    BY <1>3 DEF Load
  <2>4. QED
    BY <1>1, <2>1, <2>2, <2>3, MemoryStep DEF RecordsInv, RecordsTypeOK, Tells, Clock
<1>4. ASSUME NEW d \in Servers, BeginFetch(d) PROVE RecordsInv'
  <2> DEFINE r == [loaded[d] EXCEPT !.attempt = now]
  <2>1. r \in Records /\ r.attempt = now
        /\ r.failing = loaded[d].failing /\ r.error = loaded[d].error
    BY <1>1, <1>2, RecordType
  <2>2. loaded' = [loaded EXCEPT ![d] = r] /\ UNCHANGED <<now, reached>> /\ GoTo(d, "fetching")
    BY <1>4 DEF BeginFetch
  <2>3. Consistent(r)
    BY <1>2, <2>1 DEF Consistent
  <2>4. now <= now
    BY <1>1 DEF Times
  <2> HIDE DEF r
  <2>5. CASE Save(d, r) /\ tried' = now /\ lost' = (lost \/ record # base[d])
    <3>1. /\ loaded' \in [Servers -> Records] /\ base' \in [Servers -> Records]
          /\ doing' \in [Servers -> {"idle", "due", "forced", "fetching"}]
          /\ \A e \in Servers : Consistent(loaded'[e])
          /\ Believes'
      BY <2>1, <2>2, <2>3, <2>4, <2>5, MemoryStep DEF Save
    <3>2. record' = r /\ lost' \in BOOLEAN /\ (~lost' => ~lost /\ record = base[d])
      BY <2>5 DEF Save
    <3>3. Tells'
      BY <1>1, <1>2, <2>1, <2>2, <2>5, <3>2 DEF Tells
    <3>4. Clock'
      BY <1>1, <2>1, <2>2, <2>4, <2>5, <3>2 DEF Clock
    <3>5. RecordsTypeOK'
      BY <1>1, <2>1, <2>2, <2>3, <2>5, <3>1, <3>2 DEF RecordsTypeOK
    <3>6. QED
      BY <3>1, <3>3, <3>4, <3>5 DEF RecordsInv
  <2>6. CASE UNCHANGED <<record, base, tried, lost>>
    <3>1. base' = [base EXCEPT ![d] = base[d]]
      BY <2>6 DEF RecordsInv, RecordsTypeOK
    <3>2. base[d].attempt <= now
      BY <1>1, <1>2 DEF Times
    <3>3. QED
      BY <1>1, <1>2, <2>1, <2>2, <2>3, <2>4, <2>6, <3>1, <3>2, MemoryStep
         DEF RecordsInv, RecordsTypeOK, Tells, Clock
  <2>7. QED
    BY <1>4, <2>5, <2>6 DEF BeginFetch, r
<1>5. ASSUME NEW d \in Servers, RecordSuccess(d) PROVE RecordsInv'
  <2>1. Leave(d) /\ UNCHANGED now
    BY <1>5 DEF RecordSuccess
  <2>2. CASE UNCHANGED <<record, tried, reached, lost>>
    BY <1>1, <2>1, <2>2, LeaveStep DEF RecordsInv, RecordsTypeOK, Tells, Clock
  <2>3. CASE /\ record' = MarkSuccess(loaded[d]) /\ tried' = Later(loaded[d].attempt)
             /\ reached' = now /\ lost' = (record # base[d] \/ loaded[d].attempt < tried)
    <3>1. record' \in Records /\ record'.attempt = loaded[d].attempt
          /\ record'.failing = 0 /\ record'.error = "none"
      BY <1>1, <1>2, <2>3, RecordType, RecordFields DEF Clock
    <3>2. lost' \in BOOLEAN /\ (~lost' => ~(loaded[d].attempt < tried))
      BY <2>3
    <3>3. ~lost' => tried <= loaded[d].attempt
      BY <1>1, <1>2, <3>2 DEF Times
    <3>4. tried' \in Times /\ tried' <= now /\ (~lost' => tried' = loaded[d].attempt)
      BY <1>1, <1>2, <2>3, <3>3, LaterType DEF Clock
    <3>5. Tells' /\ Consistent(record')
      BY <3>1, <3>4 DEF Tells, Consistent
    <3>6. Clock'
      BY <1>1, <1>2, <2>1, <2>3, <3>1, <3>4 DEF Clock, Times
    <3>7. RecordsTypeOK'
      BY <1>1, <2>1, <2>3, <3>1, <3>2, <3>4, <3>5, LeaveStep DEF RecordsTypeOK
    <3>8. QED
      BY <2>1, <3>5, <3>6, <3>7, LeaveStep DEF RecordsInv
  <2>4. QED
    BY <1>5, <2>2, <2>3 DEF RecordSuccess
<1>6. ASSUME NEW d \in Servers, RecordFailure(d) PROVE RecordsInv'
  <2>1. Leave(d) /\ UNCHANGED <<now, reached>>
    BY <1>6 DEF RecordFailure
  <2>2. CASE UNCHANGED <<record, tried, lost>>
    BY <1>1, <2>1, <2>2, LeaveStep DEF RecordsInv, RecordsTypeOK, Tells, Clock
  <2>3. ASSUME NEW kind \in {"passing", "permanent"}, record' = MarkFailure(loaded[d], kind),
               tried' = Later(loaded[d].attempt), lost' = (lost \/ record # base[d])
        PROVE  RecordsInv'
    <3>1. record' \in Records /\ record'.attempt = loaded[d].attempt
          /\ record'.failing # 0 /\ record'.error = kind
          /\ record'.failing = IF loaded[d].failing = 0 THEN now ELSE loaded[d].failing
      <4>1. loaded[d] \in Records /\ now \in Times /\ 1 <= now
        BY <1>1, <1>2 DEF Clock
      <4>2. MarkFailure(loaded[d], kind) \in Records
        BY <4>1, RecordType
      <4>3. QED
        BY <2>3, <4>1, <4>2, RecordFields
    <3>2. lost' \in BOOLEAN /\ (~lost' => ~lost /\ record = base[d])
      BY <2>3
    <3>3. ~lost' => tried <= loaded[d].attempt
      BY <1>1, <1>2, <3>2 DEF Tells
    <3>4. tried' \in Times /\ tried' <= now /\ (~lost' => tried' = loaded[d].attempt)
      BY <1>1, <1>2, <2>3, <3>3, LaterType DEF Clock
    <3>5. ~lost' => reached <= record'.failing
      BY <1>1, <1>2, <3>1, <3>2 DEF Tells, Clock
    <3>6. Tells' /\ Consistent(record')
      BY <2>1, <3>1, <3>4, <3>5 DEF Tells, Consistent
    <3>7. Clock'
      BY <1>1, <1>2, <2>1, <3>1, <3>4 DEF Clock, Times
    <3>8. RecordsTypeOK'
      BY <1>1, <2>1, <3>1, <3>2, <3>4, <3>6, LeaveStep DEF RecordsTypeOK
    <3>9. QED
      BY <2>1, <3>6, <3>7, <3>8, LeaveStep DEF RecordsInv
  <2>4. QED
    BY <1>6, <2>2, <2>3 DEF RecordFailure
<1>7. ASSUME NEW d \in Servers, Crash(d) PROVE RecordsInv'
  BY <1>1, <1>7, LeaveStep DEF Crash, RecordsInv, RecordsTypeOK, Tells, Clock
<1>8. CASE Tick
  <2>1. now' \in Times /\ now <= now' /\ UNCHANGED <<record, memory, tried, reached, lost>>
    BY <1>1, <1>8, TimingAssumption DEF Tick, Times
  <2>2. record.attempt \in Nat
    BY <1>1, RecordType
  <2>3. Clock'
    BY <1>1, <2>1, <2>2 DEF Clock, Times
  <2>4. Believes'
    BY <1>1, <1>2, <2>1 DEF Believes, memory, Times
  <2>5. QED
    BY <1>1, <2>1, <2>3, <2>4 DEF RecordsInv, RecordsTypeOK, Tells, memory
<1>9. CASE UNCHANGED recordVars
  BY <1>9 DEF recordVars, memory, RecordsInv, RecordsTypeOK, Believes, Tells, Clock
<1>10. QED
  BY <1>3, <1>4, <1>5, <1>6, <1>7, <1>8, <1>9 DEF RecordsNext

LEMMA AlwaysRecordsInv == RecordsSpec => []RecordsInv
BY InitRecordsInv, StepRecordsInv, PTL DEF RecordsSpec

(* Every variable keeps its type, and a record has an error just when it has a *)
(* beginning of the failures, whatever daemons, crashes and failed saves do.   *)
THEOREM RecordsTypeCorrect == RecordsSpec => []RecordsTypeOK
<1>1. RecordsInv => RecordsTypeOK
  BY DEF RecordsInv
<1>2. QED
  BY <1>1, AlwaysRecordsInv, PTL

(* The label `stale` is never early: no success was recorded in the time it    *)
(* speaks of, unless a daemon wrote over another's record.                     *)
THEOREM StaleNeverEarly == RecordsSpec => []StaleIsEarned
<1>1. RecordsInv => StaleIsEarned
  BY TimingAssumption DEF RecordsInv, RecordsTypeOK, Consistent, Tells, StaleIsEarned, Stale, Records, Times
<1>2. QED
  BY <1>1, AlwaysRecordsInv, PTL

(* An unforced fetch keeps its distance from the latest attempt on record, its *)
(* own daemon's or another's.                                                  *)
THEOREM UnforcedFetchesThrottled == RecordsSpec => ThrottleKept
<1> DEFINE Due == \A d \in Servers :
             doing[d] = "idle" /\ doing'[d] = "due" /\ loaded'[d] = record /\ ~lost
               => tried = 0 \/ now - tried >= Throttle
<1>1. RecordsInv /\ [RecordsNext]_recordVars => [Due]_recordVars
  <2> SUFFICES ASSUME RecordsInv, RecordsNext, NEW d \in Servers,
                      doing[d] = "idle", doing'[d] = "due", loaded'[d] = record, ~lost
               PROVE  tried = 0 \/ now - tried >= Throttle
    BY DEF Due
  <2> USE DEF RecordsInv, RecordsTypeOK
  <2>1. ASSUME NEW e \in Servers, Load(e) PROVE DueAt(record)
    <3>1. d = e
      BY <2>1 DEF Load, GoTo
    <3>2. QED
      BY <2>1, <3>1 DEF Load, GoTo
  <2>2. DueAt(record)
    BY <2>1 DEF RecordsNext, BeginFetch, RecordSuccess, RecordFailure, Crash, Leave, Tick,
                GoTo, memory
  <2>3. QED
    BY <2>2 DEF DueAt, Tells
<1>2. QED
  BY <1>1, AlwaysRecordsInv, PTL DEF RecordsSpec, ThrottleKept
===============================================================================
