---------------------------- MODULE MCConsole -------------------------------
(***************************************************************************)
(* The parts of the console, one at a time: the line discipline and its     *)
(* readers, the keyboard driver, the line editor of the kernel's own prompt *)
(* and the screens.  They meet only in the characters they hand on.         *)
(***************************************************************************)
EXTENDS InputLine, TLC

CONSTANTS
    Parts,
    Readers, TTY_LINE_MAX, TTY_RAW_Q, Sizes,
    KEYBOARD_BUFFER_SIZE, PORT, KeySets, Overlap, NONE,
    W, H, TAB, PARAMS, Glyphs, Digits, MAXTEXT, MAXPARAM

VARIABLES
    part,
    ICANON, ISIG, fg_pgid, line_len, ready_len, ready_has, ready_eof, raw_head, raw_tail,
    reading, tty_wq, blocked, sig_interrupt,
    keys, port, down, caps, keyboard_buffer, buffer_head, buffer_tail, shift_pressed, ctrl_pressed,
    caps_on, led_state, extended_scancode, tty_active, reader, c, due,
    vga, fb, ansi, busy, text

Terminal == INSTANCE Tty
Driver == INSTANCE Keyboard
Display == INSTANCE Screen WITH Chars <- Glyphs, BLANK <- SPACE

tty_vars == <<ICANON, ISIG, fg_pgid, line_len, ready_len, ready_has, ready_eof, raw_head, raw_tail,
              reading, tty_wq, blocked, sig_interrupt>>
keyboard_vars == <<keys, port, down, caps, keyboard_buffer, buffer_head, buffer_tail, shift_pressed,
                   ctrl_pressed, caps_on, led_state, extended_scancode, tty_active, reader, c, due>>
screen_vars == <<vga, fb, ansi, busy, text>>
console_vars == <<part, line_vars, tty_vars, keyboard_vars, screen_vars>>

ConsoleInit ==
    /\ part \in Parts
    /\ LineInit /\ Terminal!Init /\ Driver!KbInit /\ Display!ScreenInit
    /\ part # "keys" => keys = CHOOSE k \in KeySets : TRUE

ConsoleNext ==
    /\ UNCHANGED part
    /\ \/ part = "line" /\ Press /\ UNCHANGED <<tty_vars, keyboard_vars, screen_vars>>
       \/ part = "tty" /\ Terminal!Next /\ UNCHANGED <<line_vars, keyboard_vars, screen_vars>>
       \/ part = "keys" /\ Driver!KbNext /\ UNCHANGED <<line_vars, tty_vars, screen_vars>>
       \/ part = "screen" /\ Display!ScreenNext /\ UNCHANGED <<line_vars, tty_vars, keyboard_vars>>

ConsoleSpec == ConsoleInit /\ [][ConsoleNext]_console_vars

-----------------------------------------------------------------------------
(* The properties of the components; each has its comment in its module.     *)

\* A process sleeps in a read of the terminal only while there is nothing to read, whatever
\* keys come and whoever reads first (tty_input, line_complete, tty_read_blocking).
ReadersAwake == part = "tty" => Terminal!TypeOK /\ Terminal!ReadersAwake

\* The keyboard's ring hands on what the keys meant, in the order they were struck, and the
\* driver follows the modifiers (keyboard_handle_scancode, keyboard_buffer_read); the edited
\* line keeps its cursor and selection within it (input_line.c); the screens show the end of
\* the text, with the cursor on the screen (terminal_putchar, fb_console_putchar).
ConsoleExact ==
    CASE part = "keys" -> Driver!KeysInOrder /\ Driver!ModifiersFollow
      [] part = "line" -> LineSound
      [] part = "screen" -> Display!TextShown /\ Display!CursorOnScreen
      [] OTHER -> TRUE

\* The terminal's raw ring is not lapped (tty_input); a key changes the edited line by what
\* it inserts or kills and by nothing else (input_line_insert, sel_delete, yank).
StepsExact == Terminal!RawNotLapped /\ EditsExact

-----------------------------------------------------------------------------
(* The instance for TLC. *)
AllParts == {"line", "tty", "keys", "screen"}
Perms == Permutations(Readers)
MC_KeySets == {{"a", "shift", "caps"}, {"left", "shift", "caps"}, {"a", "1", "ctrl"}}
=============================================================================
