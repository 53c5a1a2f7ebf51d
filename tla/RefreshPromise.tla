---------------------------- MODULE RefreshPromise ----------------------------
(* What a request for a refresh promises, whatever files carry it and however  *)
(* many daemons take them.  "Refresh now" is followed by a forced pass over    *)
(* everything, and the newest focus by a pass over that workspace.  Who takes  *)
(* a request owes its pass, and nothing but its own death sets it free.        *)
CONSTANTS Daemons, Workspaces, All, NoScope

VARIABLES
    alive,    \* the daemons that run
    asked,    \* a forced pass was asked for, and nobody has taken the request
    forcing,  \* the daemons that took such a request and owe its pass
    newest,   \* the workspace whose focus was asked for last, until it is passed over
    keepers,  \* the daemons that owe its pass; none as long as nobody took the request
    pass      \* each daemon's pass under way: its scope, and whether it is forced

vars == <<alive, asked, forcing, newest, keepers, pass>>

NoPass == [scope |-> NoScope, force |-> FALSE]
Passes == [scope : Workspaces \cup {All}, force : BOOLEAN]

Covers(p, scope) == p.scope \in {All, scope}

Init ==
    /\ alive = {} /\ asked = FALSE /\ forcing = {}
    /\ newest = NoScope /\ keepers = {}
    /\ pass = [d \in Daemons |-> NoPass]

AskAll == asked' = TRUE /\ UNCHANGED <<alive, forcing, newest, keepers, pass>>

(* A newer focus takes the place of the older one, taken or not.               *)
AskFocus(scope) ==
    /\ newest' = scope /\ keepers' = {}
    /\ UNCHANGED <<alive, asked, forcing, pass>>

(* Two requests that nobody has taken are one, and so are those of one daemon. *)
TakeAll(d) ==
    /\ d \in alive /\ asked
    /\ asked' = FALSE /\ forcing' = forcing \cup {d}
    /\ UNCHANGED <<alive, newest, keepers, pass>>

(* The newest focus goes into the hands of daemons that run, and from hand to  *)
(* hand, but never out of all hands.                                           *)
KeepFocus ==
    /\ newest # NoScope /\ newest' = newest
    /\ keepers' \in (SUBSET alive') \ {{}}

TakeFocus == KeepFocus /\ UNCHANGED <<alive, asked, forcing, pass>>

(* A pass begins, a daemon's first one with the daemon.  Who owes a forced     *)
(* pass begins no other.  The newest focus is settled only when the pass       *)
(* covers it and it was taken: the pass may have looked before it was asked.   *)
Serve(d, p) ==
    /\ pass[d] = NoPass /\ pass' = [pass EXCEPT ![d] = p]
    /\ alive' = alive \cup {d}
    /\ d \in forcing => p = [scope |-> All, force |-> TRUE]
    /\ forcing' = forcing \ {d}
    /\ \/ keepers # {} /\ Covers(p, newest) /\ newest' = NoScope /\ keepers' = {}
       \/ keepers # {} /\ KeepFocus
       \/ keepers = {} /\ UNCHANGED <<newest, keepers>>
    /\ UNCHANGED asked

EndPass(d) ==
    /\ pass[d] # NoPass
    /\ pass' = [pass EXCEPT ![d] = NoPass]
    /\ UNCHANGED <<alive, asked, forcing, newest, keepers>>

(* A daemon dies, and with it what it had taken; a request that nobody has     *)
(* taken, or that another daemon keeps, outlives it.                           *)
Die(d) ==
    /\ d \in alive /\ alive' = alive \ {d}
    /\ pass' = [pass EXCEPT ![d] = NoPass]
    /\ forcing' = forcing \ {d}
    /\ keepers' = keepers \ {d}
    /\ newest' = IF keepers = {d} THEN NoScope ELSE newest
    /\ UNCHANGED asked

Next ==
    \/ AskAll \/ TakeFocus
    \/ \E scope \in Workspaces \cup {All} : AskFocus(scope)
    \/ \E d \in Daemons : TakeAll(d) \/ EndPass(d) \/ Die(d) \/ \E p \in Passes : Serve(d, p)

Spec == Init /\ [][Next]_vars
===============================================================================
