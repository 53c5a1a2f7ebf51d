---------------------------- MODULE TerminalModes -----------------------------
(* The terminal that a screen changes and gives back: Open, Close, Run, Go and *)
(* the goroutine of watchSignals in tui/terminal.go, on Unix.  Close may be    *)
(* called by the main goroutine, by a worker that panics, and by the watcher.  *)
CONSTANTS Workers,  \* goroutines started with Go
          Nobody    \* who is in Close when nobody is or has been

Main == "main"
Watcher == "watcher"
Threads == {Main, Watcher} \cup Workers

ASSUME ThreadsAssumption ==
    /\ Main \notin Workers /\ Watcher \notin Workers
    /\ Nobody \notin Threads

VARIABLES
    modes,      \* what is changed: the "input" is raw, the "screen" is another
    listening,  \* the termination signals go to the channel t.signals
    caught,     \* there is one in t.signals
    pc,         \* where each goroutine is
    closer,     \* who ran closeOnce, Nobody before
    step,       \* the next step of Close, "closed" after the last
    alive,      \* the process is
    refused,    \* history: what the terminal refused to take back, or broke off
    struck      \* history: a signal ended the process with nobody listening

vars == <<modes, listening, caught, pc, closer, step, alive, refused, struck>>

Init ==
    /\ modes = {}
    /\ listening = FALSE
    /\ caught = FALSE
    /\ pc = [t \in Threads |-> IF t = Main THEN "open" ELSE "none"]
    /\ closer = Nobody
    /\ step = "stop"
    /\ alive = TRUE
    /\ refused = {}
    /\ struck = FALSE

Goto(t, place) == pc' = [pc EXCEPT ![t] = place]

(* The process ends, and all its goroutines with it.                           *)
End == alive' = FALSE

-------------------------------------------------------------------------------
(* Open.                                                                       *)

EnterRaw ==
    /\ pc[Main] = "open"
    /\ modes' = {"input"}
    /\ Goto(Main, "draw")
    /\ UNCHANGED <<listening, caught, closer, step, alive, refused, struck>>

(* No terminal, or one that cannot be made raw: the process ends with 2.       *)
OpenFails ==
    /\ pc[Main] = "open"
    /\ End
    /\ UNCHANGED <<modes, listening, caught, pc, closer, step, refused,
                   struck>>

EnterScreen ==
    /\ pc[Main] = "draw"
    /\ modes' = modes \cup {"screen"}
    /\ Goto(Main, "watch")
    /\ UNCHANGED <<listening, caught, closer, step, alive, refused, struck>>

(* The sequences cannot be written, or not to their end: the input is restored *)
(* here, since there is no Terminal to close yet, and what comes of that is not*)
(* looked at.  What is left then counts as refused.                            *)
EnterScreenFails ==
    /\ pc[Main] = "draw"
    /\ \E left \in SUBSET (modes \cup {"screen"}) : modes' = left /\ refused' = left
    /\ End
    /\ UNCHANGED <<listening, caught, pc, closer, step, struck>>

WatchSignals ==
    /\ pc[Main] = "watch"
    /\ listening' = TRUE
    /\ pc' = [pc EXCEPT ![Main] = "loop", ![Watcher] = "wait"]
    /\ UNCHANGED <<modes, caught, closer, step, alive, refused, struck>>

-------------------------------------------------------------------------------
(* Go: work beside the loop.                                                   *)

Go(w) ==
    /\ pc[Main] = "loop"
    /\ pc[w] = "none"
    /\ Goto(w, "work")
    /\ UNCHANGED <<modes, listening, caught, closer, step, alive, refused,
                   struck>>

Finish(w) ==
    /\ pc[w] = "work"
    /\ Goto(w, "finished")
    /\ UNCHANGED <<modes, listening, caught, closer, step, alive, refused,
                   struck>>

(* The deferred call of guarded: the panic goes on once Close has returned.    *)
Panic(w) ==
    /\ pc[w] = "work"
    /\ Goto(w, "close")
    /\ UNCHANGED <<modes, listening, caught, closer, step, alive, refused,
                   struck>>

(* The loop returns, or panics: the deferred Close of Run runs either way.     *)
LeaveLoop ==
    /\ pc[Main] = "loop"
    /\ Goto(Main, "close")
    /\ UNCHANGED <<modes, listening, caught, closer, step, alive, refused,
                   struck>>

-------------------------------------------------------------------------------
(* Close.  Whoever comes first runs it, the others wait until it is done.      *)

EnterClose(t) ==
    /\ pc[t] = "close" /\ closer = Nobody
    /\ closer' = t
    /\ UNCHANGED <<modes, listening, caught, pc, step, alive, refused, struck>>

Closing(t, at) == pc[t] = "close" /\ closer = t /\ step = at

(* signal.Stop, and the end for the watcher: close(t.done).                    *)
StopSignals(t) ==
    /\ Closing(t, "stop")
    /\ listening' = FALSE
    /\ step' = "input"
    /\ UNCHANGED <<modes, caught, pc, closer, alive, refused, struck>>

(* A mode is given back, or the terminal refuses it.                           *)
GiveBack(mode) ==
    \/ modes' = modes \ {mode} /\ refused' = refused
    \/ modes' = modes /\ refused' = refused \cup {mode}

RestoreInput(t) ==
    /\ Closing(t, "input")
    /\ GiveBack("input")
    /\ step' = "screen"
    /\ UNCHANGED <<listening, caught, pc, closer, alive, struck>>

(* The sequences that show the cursor and the former screen.                   *)
LeaveScreen(t) ==
    /\ Closing(t, "screen")
    /\ GiveBack("screen")
    /\ step' = "closed"
    /\ UNCHANGED <<listening, caught, pc, closer, alive, struck>>

(* SIGPIPE: nobody reads the output any more, and the write is the end.        *)
PipeBreaks(t) ==
    /\ Closing(t, "screen")
    /\ refused' = refused \cup {"screen"}
    /\ End
    /\ UNCHANGED <<modes, listening, caught, pc, closer, step, struck>>

(* A bug: a flag in place of sync.Once, which does not wait for who came first. *)
AfterCloseBegun(t) ==
    /\ pc[t] = "close"
    /\ closer # Nobody /\ (closer = t => step = "closed")
    /\ End
    /\ UNCHANGED <<modes, listening, caught, pc, closer, step, refused,
                   struck>>

(* A bug: the signal is not raised again.                                      *)
AfterCloseSilent(t) ==
    /\ pc[t] = "close" /\ step = "closed"
    /\ IF t = Watcher
       THEN Goto(t, "finished") /\ alive' = alive
       ELSE End /\ pc' = pc
    /\ UNCHANGED <<modes, listening, caught, closer, step, refused, struck>>

(* What follows Close: Run returns, the panic or the signal ends the process.  *)
AfterClose(t) ==
    /\ pc[t] = "close" /\ step = "closed"
    /\ End
    /\ UNCHANGED <<modes, listening, caught, pc, closer, step, refused,
                   struck>>

-------------------------------------------------------------------------------
(* Signals.  The channel has room for one; a second one is dropped.            *)

Strike ==
    /\ IF listening
       THEN caught' = TRUE /\ alive' = alive /\ struck' = struck
       ELSE caught' = caught /\ alive' = FALSE /\ struck' = TRUE
    /\ UNCHANGED <<modes, listening, pc, closer, step, refused>>

(* The watcher's select, which may also find t.done closed.                    *)
WatcherWakes ==
    /\ pc[Watcher] = "wait" /\ caught
    /\ caught' = FALSE
    /\ Goto(Watcher, "close")
    /\ UNCHANGED <<modes, listening, closer, step, alive, refused, struck>>

WatcherEnds ==
    /\ pc[Watcher] = "wait" /\ step # "stop"
    /\ Goto(Watcher, "finished")
    /\ UNCHANGED <<modes, listening, caught, closer, step, alive, refused,
                   struck>>

-------------------------------------------------------------------------------
Opening ==
    EnterRaw \/ OpenFails \/ EnterScreen \/ EnterScreenFails \/ WatchSignals

CloseStep(t) ==
    \/ EnterClose(t) \/ StopSignals(t) \/ RestoreInput(t) \/ LeaveScreen(t)
    \/ PipeBreaks(t) \/ AfterClose(t)

Watching == WatcherWakes \/ WatcherEnds

Next ==
    /\ alive
    /\ \/ Opening
       \/ \E w \in Workers : Go(w) \/ Finish(w) \/ Panic(w)
       \/ LeaveLoop
       \/ \E t \in Threads : CloseStep(t)
       \/ Strike
       \/ Watching

Spec == Init /\ [][Next]_vars

-------------------------------------------------------------------------------
Modes == {"input", "screen"}
Places == {"none", "open", "draw", "watch", "loop", "work", "wait", "close",
           "finished"}

(* Types, and that Close goes on only once somebody has entered it.            *)
TypeOK ==
    /\ modes \subseteq Modes /\ refused \subseteq Modes
    /\ listening \in BOOLEAN /\ caught \in BOOLEAN
    /\ alive \in BOOLEAN /\ struck \in BOOLEAN
    /\ pc \in [Threads -> Places]
    /\ closer \in Threads \cup {Nobody}
    /\ step \in {"stop", "input", "screen", "closed"}
    /\ closer = Nobody => step = "stop"

(* Run and Go (terminal.go:124-132, 147-152): however the process ends, by     *)
(* return, by a panic in any goroutine while another one closes, or by a       *)
(* signal that comes while the screen listens, the user gets the terminal back *)
(* as it was, save what the terminal itself refused to take back.              *)
RestoredAtEnd == ~alive /\ ~struck => modes \subseteq refused
===============================================================================
