------------------------------- MODULE WakeLoop -------------------------------
(* How focus events and "refresh now" wake the daemon: two small files, the    *)
(* hooks that write them in processes of their own, and the main loop of Run   *)
(* that takes them.  For as long as a takeover lasts there are two daemons     *)
(* (DaemonLock: OverlapBounded), and they share the files, wake.json.taken     *)
(* too.  When a periodic pass is due is left open.                             *)
EXTENDS Naturals

CONSTANTS Daemons,     \* processes of Run
          Workspaces,  \* herdr's workspaces
          All,         \* the scope of a pass over everything
          NoScope,     \* no note; no scope
          MaxExits     \* how often a daemon ends

ASSUME NamesAssumption ==
    /\ All \notin Workspaces /\ NoScope \notin Workspaces \cup {All}
    /\ MaxExits \in Nat

VARIABLES
    force,   \* the file wake.force is there
    note,    \* the scope in wake.json, NoScope when there is no such file
    file,    \* the scope in wake.json.taken, NoScope when there is no such file
    pc,      \* each main loop: "off", "idle", "taking", "reading", "removing", "pass"
    forced,  \* takeWake's local: the force file was there
    hint,    \* takeWake's local: the scope to return
    pass,    \* the pass under way
    owed,    \* history: the newest focus that was taken, until a pass covers it
    exits    \* how many daemons have ended

locals == <<pc, forced, hint, pass>>
vars == <<force, note, file, locals, owed, exits>>

Scopes == Workspaces \cup {All}
NoPass == [scope |-> NoScope, force |-> FALSE]

Init ==
    /\ force = FALSE
    /\ note = NoScope
    /\ file = NoScope
    /\ pc = [d \in Daemons |-> "off"]
    /\ forced = [d \in Daemons |-> FALSE]
    /\ hint = [d \in Daemons |-> NoScope]
    /\ pass = [d \in Daemons |-> NoPass]
    /\ owed = NoScope
    /\ exits = 0

-------------------------------------------------------------------------------
(* The hooks: runFetch and runRefresh.  Wake comes before EnsureRunning, which *)
(* is Start.                                                                   *)

(* Two passes asked for at once are one: that wake.force exists is success.    *)
WakeForce ==
    /\ force' = TRUE
    /\ UNCHANGED <<note, file, locals, owed, exits>>

(* The note is replaced by the newer one.                                      *)
WakeFocus(scope) ==
    /\ note' = scope
    /\ UNCHANGED <<force, file, locals, owed, exits>>

-------------------------------------------------------------------------------
(* Run and takeWake.                                                           *)

Goes(d, to) == pc' = [pc EXCEPT ![d] = to]

BeginPass(d, scope, isForced) ==
    /\ pass' = [pass EXCEPT ![d] = [scope |-> scope, force |-> isForced]]
    /\ Goes(d, "pass")
    /\ forced' = [forced EXCEPT ![d] = FALSE]
    /\ hint' = [hint EXCEPT ![d] = NoScope]
    /\ owed' = IF scope \in {All, owed} THEN NoScope ELSE owed
    /\ UNCHANGED <<force, note, exits>>

(* A daemon comes up and begins with a pass over everything.                   *)
Start(d) ==
    /\ pc[d] = "off"
    /\ BeginPass(d, All, FALSE)
    /\ UNCHANGED file

(* That the removal succeeded says that there was a request.                   *)
TakeForce(d) ==
    /\ pc[d] = "idle"
    /\ forced' = [forced EXCEPT ![d] = force]
    /\ force' = FALSE
    /\ Goes(d, "taking")
    /\ UNCHANGED <<note, file, hint, pass, owed, exits>>

(* The note gets another name before it is read; a note that another daemon    *)
(* has not read yet, or left behind, is replaced.                              *)
TakeNote(d) ==
    /\ pc[d] = "taking"
    /\ note # NoScope
    /\ file' = note
    /\ note' = NoScope
    /\ owed' = note
    /\ Goes(d, "reading")
    /\ UNCHANGED <<force, forced, hint, pass, exits>>

(* A bug: without a note the force file is not looked at.                      *)
NoNoteTakenUnforced(d) ==
    /\ pc[d] = "taking"
    /\ \/ BeginPass(d, All, FALSE)
       \/ /\ Goes(d, "idle") /\ forced' = [forced EXCEPT ![d] = FALSE]
          /\ UNCHANGED <<force, note, hint, pass, owed, exits>>
    /\ UNCHANGED file

(* No note, or it cannot be renamed: a forced request alone is served, and     *)
(* otherwise the loop goes on, with a periodic pass if one is due.             *)
NoNoteTaken(d) ==
    /\ pc[d] = "taking"
    /\ \/ BeginPass(d, All, forced[d])
       \/ /\ ~forced[d] /\ Goes(d, "idle")
          /\ UNCHANGED <<force, note, forced, hint, pass, owed, exits>>
    /\ UNCHANGED file

(* What the file says; a file that is gone, or cannot be read, says All.       *)
Readings == {All} \cup ({file} \ {NoScope})

HintIs(d, scope) ==
    /\ hint' = [hint EXCEPT ![d] = scope]
    /\ Goes(d, "removing")
    /\ UNCHANGED <<force, note, file, forced, pass, owed, exits>>

(* A bug: the note's scope narrows the forced pass.                            *)
ReadNoteNarrowing(d) ==
    /\ pc[d] = "reading"
    /\ \E scope \in Readings : HintIs(d, scope)

(* A bug: what cannot be read is no request.                                   *)
ReadNoteOrNothing(d) ==
    /\ pc[d] = "reading"
    /\ \/ \E scope \in Readings \ {All} : HintIs(d, IF forced[d] THEN All ELSE scope)
       \/ forced[d] /\ HintIs(d, All)
       \/ /\ ~forced[d] /\ Goes(d, "idle")
          /\ UNCHANGED <<force, note, file, forced, hint, pass, owed, exits>>

(* The note says which workspace, unless a forced request came with it.        *)
ReadNote(d) ==
    /\ pc[d] = "reading"
    /\ \E scope \in Readings : HintIs(d, IF forced[d] THEN All ELSE scope)

(* A bug: what is removed after the reading is wake.json.                      *)
RemoveWakeJson(d) ==
    /\ pc[d] = "removing"
    /\ pass' = [pass EXCEPT ![d] = [scope |-> hint[d], force |-> forced[d]]]
    /\ Goes(d, "pass")
    /\ forced' = [forced EXCEPT ![d] = FALSE]
    /\ hint' = [hint EXCEPT ![d] = NoScope]
    /\ owed' = IF hint[d] \in {All, owed} THEN NoScope ELSE owed
    /\ note' = NoScope
    /\ UNCHANGED <<force, file, exits>>

(* wake.json.taken is removed, whosever it is by now, and the pass begins.     *)
RemoveNote(d) ==
    /\ pc[d] = "removing"
    /\ BeginPass(d, hint[d], forced[d])
    /\ file' = NoScope

EndSweep(d) ==
    /\ pc[d] = "pass"
    /\ pass' = [pass EXCEPT ![d] = NoPass]
    /\ Goes(d, "idle")
    /\ UNCHANGED <<force, note, file, forced, hint, owed, exits>>

(* The daemon will serve the newest focus that was taken: it has read it, or   *)
(* will read it, or will find nothing and serve everything.                    *)
Holds(d) ==
    \/ pc[d] = "reading" /\ (forced[d] \/ file \in {owed, NoScope})
    \/ pc[d] = "removing" /\ hint[d] \in {All, owed}

(* A stop, a signal, a lost lock or a crash.                                   *)
Exit(d) ==
    /\ pc[d] # "off"
    /\ exits < MaxExits
    /\ exits' = exits + 1
    /\ Goes(d, "off")
    /\ pass' = [pass EXCEPT ![d] = NoPass]
    /\ forced' = [forced EXCEPT ![d] = FALSE]
    /\ hint' = [hint EXCEPT ![d] = NoScope]
    /\ owed' = IF \E e \in Daemons \ {d} : Holds(e) THEN owed ELSE NoScope
    /\ UNCHANGED <<force, note, file>>

-------------------------------------------------------------------------------
Hooks == WakeForce \/ \E scope \in Scopes : WakeFocus(scope)
Loop(d) == TakeForce(d) \/ TakeNote(d) \/ NoNoteTaken(d) \/ ReadNote(d) \/ RemoveNote(d) \/ EndSweep(d)

Next == Hooks \/ \E d \in Daemons : Start(d) \/ Loop(d) \/ Exit(d)

Spec == Init /\ [][Next]_vars

(* The loop of a running daemon goes on: its ticker fires, and a pass ends; a  *)
(* note that is there can be renamed now and then.                             *)
FairSpec == Spec /\ \A d \in Daemons : WF_vars(Loop(d)) /\ SF_vars(TakeNote(d))

-------------------------------------------------------------------------------
(* Every variable has its type; what takeWake holds, it holds between its      *)
(* first and last step only.                                                   *)
TypeOK ==
    /\ force \in BOOLEAN
    /\ note \in Scopes \cup {NoScope}
    /\ file \in Scopes \cup {NoScope}
    /\ pc \in [Daemons -> {"off", "idle", "taking", "reading", "removing", "pass"}]
    /\ forced \in [Daemons -> BOOLEAN]
    /\ hint \in [Daemons -> Scopes \cup {NoScope}]
    /\ pass \in [Daemons -> [scope : Scopes, force : BOOLEAN] \cup {NoPass}]
    /\ owed \in Scopes \cup {NoScope}
    /\ exits \in 0..MaxExits
    /\ \A d \in Daemons :
         /\ forced[d] => pc[d] \in {"taking", "reading", "removing"}
         /\ hint[d] # NoScope <=> pc[d] = "removing"
         /\ pass[d] # NoPass <=> pc[d] = "pass"

(* Although two daemons rename to, read and remove one wake.json.taken, the    *)
(* newest focus that either of them took is always in the hands of one that    *)
(* will serve it (daemon.go:231-239): who finds the file gone passes over      *)
(* everything, and who reads another's note reads a newer one.                 *)
FocusHeld == owed # NoScope => \E d \in Daemons : Holds(d)

(* Who owes the pass over the newest focus.                                    *)
Keepers == IF note = NoScope /\ owed # NoScope THEN {d \in Daemons : Holds(d)} ELSE {}

(* The files and the variables of the loops keep the promise: whatever hooks   *)
(* and loops do in between, a forced request is neither narrowed nor dropped   *)
(* by a daemon that goes on, and a focus gives way to a newer one only; what   *)
(* an exit loses is what no other daemon and no file has (daemon.go:187-191    *)
(* and 223-226).                                                               *)
Promise == INSTANCE RefreshPromise
    WITH alive <- {d \in Daemons : pc[d] # "off"},
         asked <- force,
         forcing <- {d \in Daemons : forced[d]},
         newest <- IF note = NoScope THEN owed ELSE note,
         keepers <- Keepers

PromiseKept == Promise!Spec

Gone(n) == exits > n \/ \A d \in Daemons : pc[d] = "off"

(* "Refresh now" gets its forced pass over everything, or a daemon ends.       *)
ForcedPassComes ==
    \A n \in 0..MaxExits :
      force /\ exits = n ~> Gone(n) \/ \E d \in Daemons : pass[d] = [scope |-> All, force |-> TRUE]

(* The newest focus gets its pass, or a daemon ends.                           *)
FocusPassComes ==
    \A n \in 0..MaxExits : \A scope \in Scopes :
      note = scope /\ exits = n ~>
        Gone(n) \/ note \notin {scope, NoScope} \/ \E d \in Daemons : pass[d].scope \in {All, scope}
===============================================================================
