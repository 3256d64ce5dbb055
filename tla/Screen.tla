------------------------------- MODULE Screen -------------------------------
(***************************************************************************)
(* The text console of kernel/vga.c and, drawn into pixels, of              *)
(* kernel/drivers/fb.c: characters, control characters and ANSI sequences   *)
(* become cells.  Both consoles are fed the same bytes here; a kernel has   *)
(* one of them.  Colours and glyphs are not modelled.                       *)
(*                                                                         *)
(* terminal_putchar takes no lock and leaves interrupts on.  A kernel       *)
(* thread may be interrupted within terminal_newline, and the handler of    *)
(* the keyboard echoes with terminal_putchar.                               *)
(***************************************************************************)
EXTENDS Integers, Sequences, FiniteSets, FiniteSetsExt, SequencesExt

CONSTANTS W, H,           \* VGA_WIDTH and VGA_HEIGHT, fb.cols and fb.rows
          TAB,            \* 8
          PARAMS,         \* 8: the parameters of a sequence
          Chars, Digits, BLANK,
          MAXTEXT,        \* the longest text compared with its layout
          MAXPARAM        \* the largest number in a sequence

VARIABLES vga, fb,        \* [cell, row, col]
          ansi,           \* [state, params, curparam]
          busy,           \* a thread in terminal_newline: "no", "scroll"
          text            \* history: the plain text since the screen was cleared, or <<"moved">>

screen_vars == <<vga, fb, ansi, busy, text>>

Cells == (0..(H - 1)) \X (0..(W - 1))
Clear == [cell |-> [p \in Cells |-> BLANK], row |-> 0, col |-> 0]

\* Row r of s with the cells F; a row that is not on the screen has none.
SetRow(s, r, F(_)) ==
    [s EXCEPT !.cell = [p \in Cells |-> IF p[1] = r THEN F(p[2]) ELSE @[p]]]

Scrolled(s) ==
    [s EXCEPT !.cell = [p \in Cells |-> IF p[1] = H - 1 THEN BLANK ELSE @[<<p[1] + 1, p[2]>>]],
              !.row = H - 1]

-----------------------------------------------------------------------------
(* The VGA text buffer *)

terminal_newline(s) ==
    LET t == [s EXCEPT !.row = @ + 1, !.col = 0] IN IF t.row = H THEN Scrolled(t) ELSE t

\* Insert mode: what stood from the cursor on moves right, then the cursor moves.
vga_put(s, c) ==
    LET t == [SetRow(s, s.row, LAMBDA x : IF x = s.col THEN c
                                          ELSE IF x > s.col THEN s.cell[<<s.row, x - 1>>]
                                          ELSE s.cell[<<s.row, x>>]) EXCEPT !.col = @ + 1]
    IN  IF t.col = W THEN terminal_newline(t) ELSE t

\* What stands after the cursor moves left with it.
vga_backspace(s) ==
    IF s.col = 0 THEN s
    ELSE [SetRow(s, s.row, LAMBDA x : IF x = W - 1 THEN BLANK
                                      ELSE IF x >= s.col - 1 THEN s.cell[<<s.row, x + 1>>]
                                      ELSE s.cell[<<s.row, x>>]) EXCEPT !.col = @ - 1]

RECURSIVE vga_tab(_)
vga_tab(s) == LET t == vga_put(s, BLANK) IN IF t.col % TAB = 0 THEN t ELSE vga_tab(t)

-----------------------------------------------------------------------------
(* The pixel console *)

fb_console_newline(s) ==
    LET t == [s EXCEPT !.row = @ + 1, !.col = 0] IN IF t.row >= H THEN Scrolled(t) ELSE t

draw_glyph(s, row, col, c) == [s EXCEPT !.cell[<<row, col>>] = c]

fb_put(s, c) ==
    LET t == [draw_glyph(s, s.row, s.col, c) EXCEPT !.col = @ + 1]
    IN  IF t.col >= W THEN fb_console_newline(t) ELSE t

fb_backspace(s) ==
    IF s.col = 0 THEN s ELSE [draw_glyph(s, s.row, s.col - 1, BLANK) EXCEPT !.col = @ - 1]

RECURSIVE fb_tab(_)
fb_tab(s) ==
    LET t == [draw_glyph(s, s.row, s.col, BLANK) EXCEPT !.col = @ + 1]
    IN  IF t.col >= W THEN fb_console_newline(t) ELSE IF t.col % TAB = 0 THEN t ELSE fb_tab(t)

\* A place outside the screen is refused by one console and clamped by the other.
terminal_setcursor(s, row, col) == IF row < H /\ col < W THEN [s EXCEPT !.row = row, !.col = col] ELSE s
fb_console_set_cursor(s, row, col) == [s EXCEPT !.row = Min({row, H - 1}), !.col = Min({col, W - 1})]

clear_to_eol(s) == SetRow(s, s.row, LAMBDA x : IF x >= s.col THEN BLANK ELSE s.cell[<<s.row, x>>])

-----------------------------------------------------------------------------
(* ANSI sequences *)

NoSequence == [state |-> "NORM", params |-> [i \in 0..(PARAMS - 1) |-> 0], curparam |-> 0]

NextParam(a) == IF a.curparam < PARAMS - 1 THEN [a EXCEPT !.curparam = @ + 1] ELSE a

Moved == text' = <<"moved">>

ansi_dispatch(f) ==
    LET row == Max({ansi.params[0] - 1, 0})
        col == IF ansi.curparam > 0 THEN Max({ansi.params[1] - 1, 0}) ELSE 0
    IN  CASE f = "J" -> vga' = Clear /\ fb' = Clear /\ text' = <<>>
          [] f = "K" -> vga' = clear_to_eol(vga) /\ fb' = clear_to_eol(fb) /\ Moved
          [] f = "H" -> /\ vga' = terminal_setcursor(vga, row, col)
                        /\ fb' = fb_console_set_cursor(fb, row, col) /\ Moved
          [] OTHER -> UNCHANGED <<vga, fb, text>>

\* ansi_consume within a sequence: a digit of a parameter, or another byte.
Digit(d) ==
    /\ ansi.state = "CSI" /\ ansi.params[ansi.curparam] * 10 + d <= MAXPARAM
    /\ ansi' = [ansi EXCEPT !.params[ansi.curparam] = @ * 10 + d] /\ UNCHANGED <<vga, fb, busy, text>>

InSequence(c) ==
    /\ UNCHANGED busy
    /\ \/ /\ ansi.state = "ESC"
          /\ ansi' = [NoSequence EXCEPT !.state = IF c = "[" THEN "CSI" ELSE "NORM"] /\ UNCHANGED <<vga, fb, text>>
       \/ ansi.state = "CSI" /\ c = ";" /\ ansi' = NextParam(ansi) /\ UNCHANGED <<vga, fb, text>>
       \/ ansi.state = "CSI" /\ c # ";" /\ ansi' = NoSequence /\ ansi_dispatch(c)

-----------------------------------------------------------------------------
(* terminal_putchar *)

Put(c) ==
    CASE c = "nl" -> [v |-> terminal_newline(vga), f |-> fb_console_newline(fb)]
      [] c = "bs" -> [v |-> vga_backspace(vga), f |-> fb_backspace(fb)]
      [] c = "tab" -> [v |-> vga_tab(vga), f |-> fb_tab(fb)]
      [] OTHER -> [v |-> vga_put(vga, c), f |-> fb_put(fb, c)]

\* The text, if it is still plain, and compared as long as it is short.
Typed(c) == IF text = <<"moved">> \/ Len(text) = MAXTEXT THEN <<"moved">> ELSE Append(text, c)

\* (vga.row <= H bounds how many lines are echoed while a thread is interrupted.)
Plain(c) ==
    /\ ansi.state = "NORM" /\ vga.row <= H
    /\ vga' = Put(c).v /\ fb' = Put(c).f /\ text' = Typed(c) /\ UNCHANGED <<ansi, busy>>

CarriageReturn ==
    /\ ansi.state = "NORM"
    /\ vga' = [vga EXCEPT !.col = 0] /\ fb' = [fb EXCEPT !.col = 0] /\ Moved /\ UNCHANGED <<ansi, busy>>

Escape == ansi.state = "NORM" /\ ansi' = [ansi EXCEPT !.state = "ESC"] /\ UNCHANGED <<vga, fb, text, busy>>

\* A kernel thread's newline, interrupted once the row has been counted up; and its rest.
NewlineCounts ==
    /\ ansi.state = "NORM" /\ busy = "no" /\ vga.row = H - 1
    /\ vga' = [vga EXCEPT !.row = @ + 1, !.col = 0] /\ busy' = "scroll" /\ Moved /\ UNCHANGED <<fb, ansi>>

NewlineScrolls ==
    /\ busy = "scroll" /\ vga' = Scrolled(vga) /\ busy' = "no" /\ Moved /\ UNCHANGED <<fb, ansi>>

ScreenInit == vga = Clear /\ fb = Clear /\ ansi = NoSequence /\ busy = "no" /\ text = <<>>

ScreenNext ==
    \/ \E c \in Chars \cup {"nl", "bs", "tab"} : Plain(c)
    \/ CarriageReturn \/ Escape
    \/ \E d \in Digits : Digit(d)
    \/ \E c \in {"[", ";", "J", "K", "H", "m"} : InSequence(c)
    \/ NewlineCounts \/ NewlineScrolls

ScreenSpec == ScreenInit /\ [][ScreenNext]_screen_vars

-----------------------------------------------------------------------------

\* The rows of a text: the last one is being written, and a full row is ended at once.
RECURSIVE Filled(_, _)
Filled(rows, n) ==
    LET more == [rows EXCEPT ![Len(rows)] = Append(@, BLANK)]
    IN  IF Len(Last(more)) = W THEN Append(more, <<>>)
        ELSE IF Len(Last(more)) % TAB = 0 THEN more ELSE Filled(more, n)

Laid(rows, c) ==
    LET last == Last(rows)
        more == [rows EXCEPT ![Len(rows)] = Append(@, c)]
    IN  CASE c = "nl" -> Append(rows, <<>>)
          [] c = "bs" -> IF last = <<>> THEN rows ELSE [rows EXCEPT ![Len(rows)] = Front(@)]
          [] c = "tab" -> Filled(rows, TAB)
          [] OTHER -> IF Len(last) + 1 = W THEN Append(more, <<>>) ELSE more

Layout(t) == FoldLeft(Laid, <<<<>>>>, t)

\* The screen that shows the end of the rows.
Shown(rows) ==
    LET top == Max({Len(rows) - H, 0})
        at(p) == IF top + p[1] + 1 > Len(rows) THEN <<>> ELSE rows[top + p[1] + 1]
    IN  [cell |-> [p \in Cells |-> IF p[2] < Len(at(p)) THEN at(p)[p[2] + 1] ELSE BLANK],
         row |-> Len(rows) - top - 1, col |-> Len(Last(rows))]

\* Plain text is wrapped at the width and scrolled at the bottom, so that either console shows
\* the end of it with the cursor behind (terminal_putchar, fb_console_putchar).
TextShown == text = <<"moved">> \/ (vga = Shown(Layout(text)) /\ fb = Shown(Layout(text)))

\* The cursor is on the screen, so that what is written is too, and a parameter in the array,
\* whatever was written, and again once an interrupted newline is over; within it what is
\* echoed is lost (terminal_setcursor, terminal_newline, ansi_consume).
CursorOnScreen ==
    /\ busy = "no" => <<vga.row, vga.col>> \in Cells
    /\ <<fb.row, fb.col>> \in Cells
    /\ ansi.curparam \in 0..(PARAMS - 1)
=============================================================================
