----------------------------- MODULE KeyDecoding ------------------------------
(* What bytes from the terminal say: ParseKeys and flushPending of tui/key.go. *)
(* A byte is a member of a class that the code tells apart; a letter stands    *)
(* for itself.  A key is its name, and a rune the letter it is.                *)
EXTENDS Naturals, Sequences

Letters == {"[", "O", "A", "B", "P", "H", "j", "~"}  \* 0x40 to 0x7e
Parameters == {"1", ";"}                             \* 0x20 to 0x3f
Controls == {"CR", "LF", "DEL", "TAB", "ETX", "NUL"}
Bytes == Letters \cup Parameters \cup Controls \cup {"ESC", "LEAD", "TAIL"}

(* The names of the keys, and what passes for one when the window changes.     *)
Names == Letters \cup Parameters \cup
         {"Up", "Down", "F1", "Esc", "Enter", "Backspace", "Tab", "CtrlC",
          "wide", "Resize"}

(* What was decoded: the keys, and how many bytes they took.  No byte taken    *)
(* means that more of them are needed.                                         *)
Decoded(keys, length) == [keys |-> keys, length |-> length]
Incomplete == Decoded(<<>>, 0)

(* The keys of a sequence that ends in this byte: other sequences, such as     *)
(* Home, are dropped.                                                          *)
ArrowKey(final) ==
    CASE final = "A" -> <<"Up">>
      [] final = "B" -> <<"Down">>
      [] final = "P" -> <<"F1">>
      [] OTHER -> <<>>

(* ESC [ up to its last byte; some terminals send 11~ for F1.                  *)
SequenceKey(seq, final) ==
    IF final = 5 /\ seq[3] = "1" /\ seq[4] = "1" /\ seq[5] = "~"
    THEN <<"F1">>
    ELSE ArrowKey(seq[final])

(* A sequence of ESC and [ or O.  A byte that no sequence has ends it, and is  *)
(* left for what follows.                                                      *)
ParseEscape(seq) ==
    LET ends == {j \in 3 .. Len(seq) : seq[j] \notin Parameters}
        final == CHOOSE j \in ends : \A other \in ends : j <= other
    IN  CASE seq[2] = "O" /\ Len(seq) < 3 -> Incomplete
          [] seq[2] = "O" /\ Len(seq) >= 3 -> Decoded(ArrowKey(seq[3]), 3)
          [] seq[2] = "[" /\ ends = {} -> Incomplete
          [] OTHER -> IF seq[final] \in Letters
                      THEN Decoded(SequenceKey(seq, final), final)
                      ELSE Decoded(<<>>, final - 1)

(* What the buffer begins with.  ESC before any other byte is Alt, which is    *)
(* dropped; LEAD and TAIL are the halves of a rune of two bytes.               *)
FirstKey(buf) ==
    LET follows(classes) == Len(buf) > 1 /\ buf[2] \in classes
    IN  CASE buf[1] = "ESC" /\ Len(buf) = 1 -> Decoded(<<"Esc">>, 1)
          [] buf[1] = "ESC" /\ follows({"[", "O"}) -> ParseEscape(buf)
          [] buf[1] = "CR" ->
                 Decoded(<<"Enter">>, IF follows({"LF"}) THEN 2 ELSE 1)
          [] buf[1] = "LF" -> Decoded(<<"Enter">>, 1)
          [] buf[1] = "DEL" -> Decoded(<<"Backspace">>, 1)
          [] buf[1] = "TAB" -> Decoded(<<"Tab">>, 1)
          [] buf[1] = "ETX" -> Decoded(<<"CtrlC">>, 1)
          [] buf[1] \in Letters \cup Parameters -> Decoded(<<buf[1]>>, 1)
          [] buf[1] = "LEAD" /\ Len(buf) = 1 -> Incomplete
          [] buf[1] = "LEAD" /\ follows({"TAIL"}) -> Decoded(<<"wide">>, 2)
          [] OTHER -> Decoded(<<>>, 1)

(* The keys of a buffer, and the rest that waits for more bytes.               *)
ParseKeys(buf) ==
    LET parse[from \in 1 .. Len(buf) + 1] ==
            LET rest == SubSeq(buf, from, Len(buf))
                first == FirstKey(rest)
                after == parse[from + first.length]
            IN  IF rest = <<>> \/ first.length = 0
                THEN [keys |-> <<>>, rest |-> rest]
                ELSE [keys |-> first.keys \o after.keys, rest |-> after.rest]
    IN  parse[1]

(* What becomes of bytes that stayed unfinished for escapeTimeout: their ESC   *)
(* was the key, and half a rune is dropped.                                    *)
FlushPending(pending) ==
    IF pending = <<>> \/ pending[1] # "ESC"
    THEN <<>>
    ELSE <<"Esc">> \o ParseKeys(Tail(pending)).keys
===============================================================================
