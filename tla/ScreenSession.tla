---------------------------- MODULE ScreenSession -----------------------------
(* A screen from Open to the end of its process: the goroutines that read the  *)
(* keys (readKeys of tui/key.go) as workers of the terminal that must be given *)
(* back (TerminalModes).  What the screen does with the keys is in             *)
(* CleanupScreen and CreateScreen; here it takes them and may leave.           *)
EXTENDS TerminalModes, KeyDecoding, SequencesExt

CONSTANTS Faulty,      \* workers that may panic
          Presses,     \* what users may press
          MaxPresses,  \* how often they do
          KeyRoom,     \* the room in the channel of keys, 16 in the code
          MaxResizes   \* how often the window changes its size

Reader == "reader"
Keyer == "keyer"

ASSUME PressesAssumption ==
    /\ {Reader, Keyer} \subseteq Workers /\ Faulty \subseteq Workers
    /\ Presses \subseteq {"esc", "up", "home", "f1", "alt", "letter", "wide", "enter"}
    /\ MaxPresses \in Nat /\ MaxResizes \in Nat
    /\ KeyRoom \in Nat \ {0}

VARIABLES
    line,      \* bytes on their way, over a slow connection perhaps
    hungUp,    \* nothing will follow them
    chunk,     \* what the reader has read and not handed over
    pending,   \* the keyer's bytes that wait for more
    timer,     \* escapeTimeout runs
    emitting,  \* keys that the keyer puts into the channel
    keys,      \* the channel of keys
    resize,    \* a change of size waits in its channel
    canceled,  \* the context of the screen
    pressed,   \* history: what the user pressed
    taken,     \* history: what the loop took, without changes of size
    resizes,   \* how often the window has changed
    hasty,     \* history: a key came before the ESC pressed before it was one
    late       \* history: the timer was taken in the middle of a press

keyVars == <<line, hungUp, chunk, pending, timer, emitting, keys, resize,
             canceled, pressed, taken, resizes, hasty, late>>
allVars == <<vars, keyVars>>

SessionInit ==
    /\ Init
    /\ line = <<>> /\ hungUp = FALSE /\ chunk = <<>>
    /\ pending = <<>> /\ timer = FALSE /\ emitting = <<>> /\ keys = <<>>
    /\ resize = FALSE /\ canceled = FALSE
    /\ pressed = <<>> /\ taken = <<>> /\ resizes = 0
    /\ hasty = FALSE /\ late = FALSE

(* The bytes of a press, and what the screen should hear of it.                *)
Sent == [esc |-> <<"ESC">>, up |-> <<"ESC", "[", "A">>,
         home |-> <<"ESC", "[", "1", "H">>, f1 |-> <<"ESC", "[", "1", "1", "~">>,
         alt |-> <<"ESC", "j">>, letter |-> <<"A">>, wide |-> <<"LEAD", "TAIL">>,
         enter |-> <<"CR">>]
Meant == [esc |-> <<"Esc">>, up |-> <<"Up">>, home |-> <<>>, f1 |-> <<"F1">>,
          alt |-> <<"j">>, letter |-> <<"A">>, wide |-> <<"wide">>,
          enter |-> <<"Enter">>]

AllOf(table, presses) == FlattenSeq([i \in DOMAIN presses |-> table[presses[i]]])

(* The keyer has consumed all bytes of some presses, and none of the next.     *)
AtBoundary ==
    \E n \in 0 .. Len(pressed) :
        Len(AllOf(Sent, SubSeq(pressed, n + 1, Len(pressed)))) =
            Len(chunk) + Len(line)

-------------------------------------------------------------------------------
(* The user, until the first signal or until the terminal is being given back. *)

Attended ==
    pc[Main] = "loop" /\ ~caught /\ \A t \in Threads : pc[t] # "close"

(* From then on it is not followed what was pressed and what is heard.         *)
Unheard ==
    /\ line' = <<>> /\ pressed' = <<>> /\ taken' = <<>>
    /\ pending' = <<>> /\ timer' = FALSE /\ resize' = FALSE
    /\ resizes' = MaxResizes /\ hasty' = FALSE /\ late' = FALSE

Press(p) ==
    /\ Attended /\ ~hungUp /\ Len(pressed) < MaxPresses
    /\ line' = line \o Sent[p]
    /\ pressed' = Append(pressed, p)
    /\ hasty' = (hasty \/ (/\ pressed # <<>> /\ Last(pressed) = "esc"
                           /\ line \o chunk \o pending # <<>>))
    /\ UNCHANGED <<vars, hungUp, chunk, pending, timer, emitting, keys, resize,
                   canceled, taken, resizes, late>>

HangUp ==
    /\ Attended /\ ~hungUp
    /\ hungUp' = TRUE
    /\ UNCHANGED <<vars, line, chunk, pending, timer, emitting, keys, resize,
                   canceled, pressed, taken, resizes, hasty, late>>

(* The channel of the signal has room for one: more say nothing new.           *)
Resize ==
    /\ Attended /\ resizes < MaxResizes
    /\ resize' = TRUE
    /\ resizes' = resizes + 1
    /\ UNCHANGED <<vars, line, hungUp, chunk, pending, timer, emitting, keys,
                   canceled, pressed, taken, hasty, late>>

-------------------------------------------------------------------------------
(* The reader.  A read brings some of the bytes, in pieces that need not be    *)
(* those of the keys.                                                          *)

Read ==
    /\ pc[Reader] = "work" /\ chunk = <<>>
    /\ \E n \in 1 .. Len(line) :
           /\ chunk' = SubSeq(line, 1, n)
           /\ line' = SubSeq(line, n + 1, Len(line))
    /\ UNCHANGED <<vars, hungUp, pending, timer, emitting, keys, resize,
                   canceled, pressed, taken, resizes, hasty, late>>

(* The end of the input, or nobody takes the chunk any more: the reader closes *)
(* its channel.                                                                *)
ReaderEnds ==
    /\ IF chunk = <<>> THEN hungUp /\ line = <<>> ELSE canceled
    /\ Finish(Reader)
    /\ chunk' = <<>>
    /\ UNCHANGED <<line, hungUp, pending, timer, emitting, keys, resize,
                   canceled, pressed, taken, resizes, hasty, late>>

-------------------------------------------------------------------------------
(* The keyer.                                                                  *)

Selecting == pc[Keyer] = "work" /\ emitting = <<>>

(* A bug: an ESC at the end of a chunk is parsed with what came with it.       *)
HeldNothing(buf) == 0

(* An ESC at the end of a chunk is held back: more may follow it.              *)
Held(buf) == IF Last(buf) = "ESC" THEN 1 ELSE 0

(* A bug: the timer is not set for what waits.                                 *)
TakeChunkTimerKept ==
    /\ Selecting /\ chunk # <<>> /\ pc[Reader] = "work"
    /\ LET buf == pending \o chunk
           parsed == ParseKeys(SubSeq(buf, 1, Len(buf) - Held(buf)))
       IN  /\ emitting' = parsed.keys
           /\ pending' = parsed.rest \o
                             SubSeq(buf, Len(buf) - Held(buf) + 1, Len(buf))
           /\ timer' = (timer /\ pending' # <<>>)
    /\ chunk' = <<>>
    /\ UNCHANGED <<vars, line, hungUp, keys, resize, canceled, pressed, taken,
                   resizes, hasty, late>>

(* A chunk is joined to what waits; what stays unfinished waits anew.          *)
TakeChunk ==
    /\ Selecting /\ chunk # <<>> /\ pc[Reader] = "work"
    /\ LET buf == pending \o chunk
           parsed == ParseKeys(SubSeq(buf, 1, Len(buf) - Held(buf)))
           kept == parsed.rest \o SubSeq(buf, Len(buf) - Held(buf) + 1, Len(buf))
       IN  /\ emitting' = parsed.keys
           /\ pending' = kept
           /\ timer' = (kept # <<>>)
    /\ chunk' = <<>>
    /\ UNCHANGED <<vars, line, hungUp, keys, resize, canceled, pressed, taken,
                   resizes, hasty, late>>

(* escapeTimeout is over.                                                      *)
FlushFires ==
    /\ Selecting /\ timer
    /\ emitting' = FlushPending(pending)
    /\ pending' = <<>> /\ timer' = FALSE
    /\ late' = (late \/ (Attended /\ ~AtBoundary))
    /\ UNCHANGED <<vars, line, hungUp, chunk, keys, resize, canceled, pressed,
                   taken, resizes, hasty>>

TakeResize ==
    /\ Selecting /\ resize
    /\ emitting' = <<"Resize">>
    /\ resize' = FALSE
    /\ UNCHANGED <<vars, line, hungUp, chunk, pending, timer, keys, canceled,
                   pressed, taken, resizes, hasty, late>>

Emit ==
    /\ pc[Keyer] = "work" /\ emitting # <<>> /\ Len(keys) < KeyRoom
    /\ keys' = Append(keys, Head(emitting))
    /\ emitting' = Tail(emitting)
    /\ UNCHANGED <<vars, line, hungUp, chunk, pending, timer, resize, canceled,
                   pressed, taken, resizes, hasty, late>>

(* The reader has ended: what is unfinished is flushed, and that was all.      *)
TakeEnd ==
    /\ Selecting /\ pc[Reader] = "finished" /\ pending # <<>>
    /\ emitting' = FlushPending(pending)
    /\ pending' = <<>> /\ timer' = FALSE
    /\ UNCHANGED <<vars, line, hungUp, chunk, keys, resize, canceled, pressed,
                   taken, resizes, hasty, late>>

(* The keyer closes the channel of keys.  Canceled, it leaves with keys in     *)
(* hand and bytes that wait, even when the channel is full.                    *)
KeyerEnds ==
    /\ \/ canceled
       \/ emitting = <<>> /\ pending = <<>> /\ pc[Reader] = "finished"
    /\ Finish(Keyer)
    /\ emitting' = <<>> /\ pending' = <<>> /\ timer' = FALSE
    /\ UNCHANGED <<line, hungUp, chunk, keys, resize, canceled, pressed, taken,
                   resizes, hasty, late>>

-------------------------------------------------------------------------------
(* The screen.                                                                 *)

TakeKey ==
    /\ pc[Main] = "loop" /\ keys # <<>>
    /\ taken' = IF Head(keys) # "Resize" /\ Attended
                THEN Append(taken, Head(keys))
                ELSE taken
    /\ keys' = Tail(keys)
    /\ UNCHANGED <<vars, line, hungUp, chunk, pending, timer, emitting, resize,
                   canceled, pressed, resizes, hasty, late>>

(* Of what is under way only this is kept: that it is.                         *)
Reduced(seq, item) == IF seq = <<>> THEN <<>> ELSE <<item>>

(* The screen closes for a key, for the end of the keys, or with a panic: its  *)
(* context is canceled before the terminal is closed.                          *)
LeaveScreenLoop ==
    /\ LeaveLoop
    /\ canceled' = TRUE
    /\ chunk' = Reduced(chunk, "ESC")
    /\ emitting' = Reduced(emitting, "Esc") /\ keys' = Reduced(keys, "Esc")
    /\ UNCHANGED hungUp
    /\ Unheard

(* The end of the process is the end of all that it held.                      *)
NothingHeld ==
    /\ line' = <<>> /\ hungUp' = FALSE /\ chunk' = <<>>
    /\ pending' = <<>> /\ timer' = FALSE /\ emitting' = <<>> /\ keys' = <<>>
    /\ resize' = FALSE /\ canceled' = FALSE
    /\ pressed' = <<>> /\ taken' = <<>> /\ resizes' = 0
    /\ hasty' = FALSE /\ late' = FALSE

(* What a step of the terminal is for the keys.                                *)
KeysFollow ==
    CASE ~alive' -> NothingHeld
      [] alive' /\ Attended /\ ~Attended' ->
             /\ Unheard
             /\ chunk' = <<>> /\ emitting' = <<>> /\ keys' = <<>>
             /\ UNCHANGED <<hungUp, canceled>>
      [] OTHER -> UNCHANGED keyVars

StartKeys == \E w \in {Reader, Keyer} : Go(w) /\ KeysFollow
Work ==
    /\ \/ \E w \in Workers \ {Reader, Keyer} : Go(w) \/ Finish(w)
       \/ \E w \in Faulty : Panic(w)
    /\ KeysFollow
Open == Opening /\ KeysFollow
Close == (\E t \in Threads : CloseStep(t)) /\ KeysFollow
Signaled == Strike /\ KeysFollow
Watch == Watching /\ KeysFollow

ReaderStep == Read \/ ReaderEnds
KeyerStep ==
    TakeChunk \/ FlushFires \/ TakeResize \/ Emit \/ TakeEnd \/ KeyerEnds

SessionNext ==
    /\ alive
    /\ \/ \E p \in Presses : Press(p)
       \/ HangUp \/ Resize
       \/ ReaderStep \/ KeyerStep
       \/ TakeKey \/ LeaveScreenLoop
       \/ Open \/ StartKeys \/ Work \/ Close \/ Signaled \/ Watch

SessionSpec == SessionInit /\ [][SessionNext]_allVars

(* Goroutines that are started are scheduled, and the loop comes back to its   *)
(* select.  Nothing is assumed of users, signals and panics.                   *)
Fairness ==
    /\ WF_allVars(alive /\ ReaderStep)
    /\ WF_allVars(alive /\ KeyerStep)
    /\ WF_allVars(alive /\ TakeKey)
    /\ WF_allVars(alive /\ StartKeys)
    /\ WF_allVars(alive /\ Close)
    /\ WF_allVars(alive /\ Watch)

FairSpec == SessionSpec /\ Fairness

-------------------------------------------------------------------------------
(* A change of size is taken from the channel of keys too, and is none.        *)
HeardAs == [k \in Names |-> IF k = "Resize" THEN <<>> ELSE <<k>>]
KeysOf(seq) == AllOf(HeardAs, seq)
Heard == taken \o KeysOf(keys) \o KeysOf(emitting)

(* ReadKeys (key.go:156-175): in whatever pieces the bytes arrive, and whatever*)
(* comes between them, the screen hears the keys that were pressed, in order;  *)
(* an arrow never becomes an Esc that closes the screen.  Not so when a key    *)
(* takes longer than escapeTimeout, or is pressed right after Esc; and once    *)
(* the screen has left nobody hears what is still read.                        *)
HeardAsPressed ==
    Attended /\ ~late /\ ~hasty =>
        /\ IsPrefix(Heard, AllOf(Meant, pressed))
        /\ line \o chunk \o pending = <<>> => Heard = AllOf(Meant, pressed)

(* The comment of escapeTimeout (key.go:160-161): nothing is held back for     *)
(* good.  While the screen is there, every press is heard in the end, and an   *)
(* ESC alone too.                                                              *)
PressesHeard ==
    line \o chunk \o pending # <<>> ~>
        \/ line \o chunk \o pending \o emitting \o keys = <<>>
        \/ ~Attended \/ ~alive

(* watchSignals (terminal.go:39-40): a signal that the screen has caught keeps *)
(* its meaning: the process ends, whoever else is closing the terminal.        *)
SignalEnds == caught ~> ~alive
===============================================================================
