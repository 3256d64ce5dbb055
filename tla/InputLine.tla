----------------------------- MODULE InputLine ------------------------------
(***************************************************************************)
(* The line editor of the kernel's console (kernel/input_line.c) under the  *)
(* loop of kernel_main that feeds it: a buffer with a cursor, a selection,  *)
(* a clipboard that kills fill and yanks paste, and the history.            *)
(*                                                                         *)
(* A key is handled to its end before the next is read.  What is drawn is   *)
(* not modelled, nor what shell_exec does with a line.                      *)
(***************************************************************************)
EXTENDS Integers, Sequences, FiniteSets, FiniteSetsExt

CONSTANTS Chars,               \* printable characters, the space among them
          SPACE, NUL,
          INPUT_LINE_MAX, INPUT_CLIPBOARD_MAX, INPUT_HISTORY_MAX,
          OverSelection        \* whether ^K ^U ^W ^Y are typed while text is selected

VARIABLES line,                \* [buffer, length, cursor, sel_start, sel_end]
          input_clipboard,
          hist,                \* [entries, current]
          key                  \* history: the key handled last

line_vars == <<line, input_clipboard, hist, key>>

Slots == 0..(INPUT_LINE_MAX - 1)

input_line_init ==
    [buffer |-> [i \in Slots |-> NUL], length |-> 0, cursor |-> 0, sel_start |-> -1, sel_end |-> -1]

\* The buffer as a C string.
CString(l) ==
    LET end == Min({INPUT_LINE_MAX} \cup {i \in Slots : l.buffer[i] = NUL})
    IN  [i \in 1..end |-> l.buffer[i - 1]]

-----------------------------------------------------------------------------
(* The operations; e = [line, clip]. *)

Selected(l) == l.sel_start # -1
sel_clear(l) == [l EXCEPT !.sel_start = -1, !.sel_end = -1]

\* n characters leave the line; what follows moves up.  A slot below 0 is no part of the buffer.
Shift(l, from, n) ==
    [l EXCEPT !.length = @ - n,
              !.buffer = [i \in Slots |-> IF i = l.length - n THEN NUL
                                          ELSE IF i \in from..(l.length - n - 1) THEN l.buffer[i + n]
                                          ELSE l.buffer[i]]]

\* Mutant: the clipboard is filled from the line after the cut.
KillAfter(e, from, n) ==
    LET l == [Shift(e.line, from, n) EXCEPT !.cursor = from]
    IN  [line |-> l, clip |-> [j \in 1..Min({n, INPUT_CLIPBOARD_MAX - 1}) |-> l.buffer[from + j - 1]]]

\* They go to the clipboard, and the cursor to where they were.
Kill(e, from, n) ==
    [line |-> [Shift(e.line, from, n) EXCEPT !.cursor = from],
     clip |-> [j \in 1..Min({n, INPUT_CLIPBOARD_MAX - 1}) |-> e.line.buffer[from + j - 1]]]

sel_delete(e) ==
    LET lo == Min({e.line.sel_start, e.line.sel_end})
        hi == Max({e.line.sel_start, e.line.sel_end})
        k == Kill(e, lo, hi - lo)
    IN  [k EXCEPT !.line = sel_clear(k.line)]

insert(e, c) ==
    LET d == IF Selected(e.line) THEN sel_delete(e) ELSE e
        l == d.line
    IN  IF l.length >= INPUT_LINE_MAX - 1 THEN d
        ELSE [d EXCEPT !.line.buffer = [i \in Slots |-> IF i = l.cursor THEN c
                                                        ELSE IF i = l.length + 1 THEN NUL
                                                        ELSE IF i > l.cursor /\ i <= l.length THEN l.buffer[i - 1]
                                                        ELSE l.buffer[i]],
                       !.line.cursor = @ + 1, !.line.length = @ + 1]

backspace(e) ==
    LET l == e.line IN
    IF Selected(l) THEN sel_delete(e)
    ELSE IF l.cursor <= 0 THEN e
    ELSE [e EXCEPT !.line = [Shift(l, l.cursor - 1, 1) EXCEPT !.cursor = @ - 1]]

delete(e) ==
    LET l == e.line IN
    IF Selected(l) THEN sel_delete(e)
    ELSE IF l.cursor >= l.length THEN e
    ELSE [e EXCEPT !.line = Shift(l, l.cursor, 1)]

MoveTo(e, cursor) == [e EXCEPT !.line = [sel_clear(e.line) EXCEPT !.cursor = cursor]]
move_left(e) == MoveTo(e, Max({e.line.cursor - 1, 0}))
move_right(e) == MoveTo(e, Min({e.line.cursor + 1, e.line.length}))

\* The selection starts at the cursor, and its end goes with it.
Extend(e, cursor) ==
    LET l == e.line IN
    [e EXCEPT !.line.sel_start = IF Selected(l) THEN @ ELSE l.cursor,
              !.line.sel_end = IF cursor = l.cursor /\ Selected(l) THEN @ ELSE cursor,
              !.line.cursor = cursor]
sel_extend_left(e) == Extend(e, Max({e.line.cursor - 1, 0}))
sel_extend_right(e) == Extend(e, Min({e.line.cursor + 1, e.line.length}))

\* The start of the word before the cursor: back over spaces, then over the word.
WordStart(l) ==
    LET last == Max({0} \cup {i \in 0..(l.cursor - 1) : l.buffer[i] # SPACE})
    IN  Min({i \in 0..last : \A k \in i..(last - 1) : l.buffer[k] # SPACE})

kill_to_end(e) ==
    IF e.line.cursor >= e.line.length THEN e ELSE Kill(e, e.line.cursor, e.line.length - e.line.cursor)
kill_to_start(e) == IF e.line.cursor = 0 THEN e ELSE Kill(e, 0, e.line.cursor)
kill_word_back(e) ==
    IF e.line.cursor = 0 THEN e ELSE Kill(e, WordStart(e.line), e.line.cursor - WordStart(e.line))

\* The loop of input_line_yank, which reads the clipboard and its length each time round.
RECURSIVE YankFrom(_, _)
YankFrom(e, i) == IF i > Len(e.clip) THEN e ELSE YankFrom(insert(e, e.clip[i]), i + 1)
yank(e) == YankFrom(e, 1)

-----------------------------------------------------------------------------
(* The history *)

input_history_push(h, text) ==
    LET kept == IF Len(h.entries) >= INPUT_HISTORY_MAX THEN Tail(h.entries) ELSE h.entries
    IN  [entries |-> Append(kept, text), current |-> Len(kept) + 1]

input_history_load(text) ==
    [input_line_init EXCEPT !.buffer = [i \in Slots |-> IF i < Len(text) THEN text[i + 1] ELSE NUL],
                            !.length = Len(text), !.cursor = Len(text)]

\* Up: the entry before, if there is one.
HistoryPrev ==
    /\ hist.current > 0
    /\ hist' = [hist EXCEPT !.current = @ - 1]
    /\ line' = input_history_load(hist.entries[hist.current])

\* Down: the entry after, or an empty line.
HistoryNext ==
    IF hist.current < Len(hist.entries) - 1
    THEN /\ hist' = [hist EXCEPT !.current = @ + 1]
         /\ line' = input_history_load(hist.entries[hist.current + 2])
    ELSE /\ hist' = [hist EXCEPT !.current = Len(hist.entries)]
         /\ line' = input_line_init

-----------------------------------------------------------------------------
(* The loop of kernel_main *)

Apply(k, e) ==
    /\ key' = k /\ line' = e.line /\ input_clipboard' = e.clip /\ UNCHANGED hist

\* A line that is not empty goes to the history and to shell_exec.
Enter ==
    /\ key' = "enter" /\ line' = input_line_init /\ UNCHANGED input_clipboard
    /\ hist' = IF line.length > 0 THEN input_history_push(hist, CString(line)) ELSE hist

Press ==
    LET e == [line |-> line, clip |-> input_clipboard] IN
    \/ Enter
    \/ \E c \in Chars : Apply("char", insert(e, c))
    \/ Apply("backspace", backspace(e))
    \/ Apply("delete", delete(e))
    \/ Apply("left", move_left(e))
    \/ Apply("right", move_right(e))
    \/ Apply("^A", MoveTo(e, 0))
    \/ Apply("^E", MoveTo(e, line.length))
    \/ Apply("select", sel_extend_left(e))
    \/ Apply("select", sel_extend_right(e))
    \/ key' = "up" /\ HistoryPrev /\ UNCHANGED input_clipboard
    \/ key' = "down" /\ HistoryNext /\ UNCHANGED input_clipboard
    \/ /\ OverSelection \/ ~Selected(line)
       /\ \/ Apply("kill", kill_to_end(e))
          \/ Apply("kill", kill_to_start(e))
          \/ Apply("kill", kill_word_back(e))
          \/ Apply("yank", yank(e))

LineInit ==
    /\ line = input_line_init /\ input_clipboard = <<>>
    /\ hist = [entries |-> <<>>, current |-> 0] /\ key = "none"

LineSpec == LineInit /\ [][Press]_line_vars

-----------------------------------------------------------------------------

\* The cursor and the selection stay in the line, and the line in its buffer, which ends it with
\* a NUL and holds none before: what shell_exec and the history get is what the length says,
\* after any keys (input_line.c, the loop of kernel_main).
LineSound ==
    /\ line.length \in Slots /\ line.cursor \in 0..line.length
    /\ \A i \in 0..line.length : line.buffer[i] = NUL <=> i = line.length
    /\ Selected(line) => {line.sel_start, line.sel_end} \subseteq 0..line.length
    /\ Selected(line) => line.sel_end = line.cursor
    /\ hist.current \in 0..Len(hist.entries) /\ Len(hist.entries) <= INPUT_HISTORY_MAX

\* text with some more put in at a place.
Inserted(text, at, more) == SubSeq(text, 1, at) \o more \o SubSeq(text, at + 1, Len(text))

\* What a kill, or the deletion of a selection, takes from the line is what a yank would put
\* back; and a yank puts in the clipboard, as far as there is room (input_line_yank, Kill).
EditsExact ==
    [][LET old == CString(line)
           new == CString(line')
           cut == key' = "kill" \/ (Selected(line) /\ key' \in {"backspace", "delete"})
           room == INPUT_LINE_MAX - 1 - line.length
           taken == SubSeq(input_clipboard, 1, Min({room, Len(input_clipboard)}))
       IN  /\ cut /\ Len(new) < Len(old) => old = Inserted(new, line'.cursor, input_clipboard')
           /\ key' = "yank" => new = Inserted(old, line.cursor, taken)
      ]_line_vars
=============================================================================
