------------------------------ MODULE Keyboard ------------------------------
(***************************************************************************)
(* The PS/2 keyboard of kernel/drivers/keyboard.c: the interrupt handler    *)
(* that follows the modifiers through the stream of scancodes and puts      *)
(* characters into a ring, and the console loop that takes them out.        *)
(*                                                                         *)
(* The handler runs with interrupts off.  The reader does not disable them, *)
(* so a key may come between any two of its steps; while it halts, the      *)
(* timer ends each halt, and it looks again.                                *)
(***************************************************************************)
EXTENDS Integers, Sequences, FiniteSets

CONSTANTS KEYBOARD_BUFFER_SIZE,
          PORT,           \* bytes the controller holds
          KeySets,        \* the keys a typist uses: of "a", "1", "left", "up", "shift", "ctrl", "caps"
          Overlap,        \* whether keys are hit while the handler talks to the keyboard
          NONE

VARIABLES keys,           \* the ones used
          port,           \* the controller's output: bytes, each with the character due for it
          down, caps,     \* the keys held down, and caps lock as the typist means it
          keyboard_buffer, buffer_head, buffer_tail,
          shift_pressed, ctrl_pressed, caps_on, led_state, extended_scancode,
          tty_active,     \* a user shell is running: keys go to the line discipline
          reader,         \* keyboard_buffer_read: "test", "move"
          c,              \* the reader's local
          due             \* history: the characters accepted and not yet returned

kb_vars == <<keys, port, down, caps, keyboard_buffer, buffer_head, buffer_tail, shift_pressed, ctrl_pressed,
             caps_on, led_state, extended_scancode, tty_active, reader, c, due>>

Arrows == {"left", "up"}
Modifiers == {"shift", "ctrl", "caps"}

\* What a key means, from the keys held down.
Meaning(k) ==
    CASE k = "a" -> IF "ctrl" \in down THEN "^A" ELSE IF ("shift" \in down) # caps THEN "A" ELSE "a"
      [] k = "1" -> IF "shift" \in down THEN "!" ELSE "1"
      [] k = "left" -> IF "shift" \in down THEN "SELECT_LEFT" ELSE "LEFT"
      [] k = "up" -> "UP"
      [] OTHER -> NONE

Byte(code, release, char) == [code |-> code, release |-> release, char |-> char]
E0 == Byte("E0", FALSE, NONE)
ACK == Byte("ACK", TRUE, NONE)     \* 0xFA: as a scancode, the release of a key there is not

\* The bytes of a key event; navigation keys have a prefix.
Codes(k, release) ==
    (IF k \in Arrows THEN <<E0>> ELSE <<>>) \o <<Byte(k, release, IF release THEN NONE ELSE Meaning(k))>>

-----------------------------------------------------------------------------
(* The handler *)

Full(head, tail) == (head + 1) % KEYBOARD_BUFFER_SIZE = tail

\* keyboard_buffer_write; what is due counts for itself how many there are.
keyboard_buffer_write(char, expected) ==
    /\ IF Full(buffer_head, buffer_tail)
       THEN UNCHANGED <<keyboard_buffer, buffer_head>>
       ELSE /\ keyboard_buffer' = [keyboard_buffer EXCEPT ![buffer_head] = char]
            /\ buffer_head' = (buffer_head + 1) % KEYBOARD_BUFFER_SIZE
    /\ due' = IF Len(due) = KEYBOARD_BUFFER_SIZE - 1 THEN due ELSE Append(due, expected)

\* A character of the console, or of the line discipline, which is not this module's.
Deliver(char, expected) ==
    IF tty_active THEN UNCHANGED <<keyboard_buffer, buffer_head, due>>
    ELSE keyboard_buffer_write(char, expected)

\* The keymaps, Ctrl shortcuts and caps lock, from what the driver knows.
CharOf(k) ==
    CASE k = "left" -> IF shift_pressed THEN "SELECT_LEFT" ELSE "LEFT"
      [] k = "up" -> "UP"
      [] k = "a" /\ ctrl_pressed -> "^A"
      [] k = "a" /\ ~ctrl_pressed -> IF shift_pressed # caps_on THEN "A" ELSE "a"
      [] k = "1" -> IF shift_pressed THEN "!" ELSE "1"

\* keyboard_set_leds: a command and its argument; any byte but an acknowledgement ends it.
AfterSetLeds(rest) ==
    LET first == Append(rest, ACK)
    IN  IF Head(first) # ACK THEN Tail(first)
        ELSE Tail(Append(Tail(first), ACK))

\* Mutant: a modifier is left as it is on release.
ModifierSticks(k, release) ==
    /\ shift_pressed' = IF k = "shift" /\ ~release THEN TRUE ELSE shift_pressed
    /\ ctrl_pressed' = IF k = "ctrl" THEN ~release ELSE ctrl_pressed
    /\ IF k = "caps" /\ ~release
       THEN caps_on' = ~caps_on /\ led_state' = ~caps_on /\ port' = AfterSetLeds(Tail(port))
       ELSE port' = Tail(port) /\ UNCHANGED <<caps_on, led_state>>

Modifier(k, release) ==
    /\ shift_pressed' = IF k = "shift" THEN ~release ELSE shift_pressed
    /\ ctrl_pressed' = IF k = "ctrl" THEN ~release ELSE ctrl_pressed
    /\ IF k = "caps" /\ ~release
       THEN caps_on' = ~caps_on /\ led_state' = ~caps_on /\ port' = AfterSetLeds(Tail(port))
       ELSE port' = Tail(port) /\ UNCHANGED <<caps_on, led_state>>

\* keyboard_handler: one byte.
keyboard_handler ==
    /\ port # <<>>
    /\ LET b == Head(port) IN
       IF b.code = "E0"
       THEN /\ extended_scancode' = TRUE /\ port' = Tail(port)
            /\ UNCHANGED <<shift_pressed, ctrl_pressed, caps_on, led_state, keyboard_buffer, buffer_head, due>>
       ELSE /\ extended_scancode' = FALSE
            /\ IF b.code \in Modifiers
               THEN Modifier(b.code, b.release) /\ UNCHANGED <<keyboard_buffer, buffer_head, due>>
               ELSE /\ port' = Tail(port)
                    /\ UNCHANGED <<shift_pressed, ctrl_pressed, caps_on, led_state>>
                    /\ IF b.release THEN UNCHANGED <<keyboard_buffer, buffer_head, due>>
                       ELSE Deliver(CharOf(b.code), b.char)
    /\ UNCHANGED <<keys, down, caps, buffer_tail, tty_active, reader, c>>

-----------------------------------------------------------------------------
(* keyboard_get_char, in the loop of kernel_main: keyboard_buffer_read until there is something *)

\* (Between the test and the read only the handler can run, which leaves that slot alone.)
ReadTakes ==
    /\ reader = "test" /\ buffer_head # buffer_tail
    /\ c' = keyboard_buffer[buffer_tail] /\ reader' = "move"
    /\ UNCHANGED <<keys, port, down, caps, keyboard_buffer, buffer_head, buffer_tail, shift_pressed, ctrl_pressed,
                   caps_on, led_state, extended_scancode, tty_active, due>>

ReadMoves ==
    /\ reader = "move" /\ buffer_tail' = (buffer_tail + 1) % KEYBOARD_BUFFER_SIZE
    /\ reader' = "test" /\ c' = NONE /\ due' = Tail(due)
    /\ UNCHANGED <<keys, port, down, caps, keyboard_buffer, buffer_head, shift_pressed, ctrl_pressed,
                   caps_on, led_state, extended_scancode, tty_active>>

-----------------------------------------------------------------------------
(* The typist (external) *)

Strike(k, release) ==
    /\ Len(port) + Len(Codes(k, release)) <= PORT
    /\ ~Overlap => \A i \in DOMAIN port : port[i].code # "caps"
    /\ port' = port \o Codes(k, release)
    /\ down' = IF release THEN down \ {k} ELSE down \cup {k}
    /\ caps' = IF k = "caps" /\ ~release THEN ~caps ELSE caps
    /\ UNCHANGED <<keys, keyboard_buffer, buffer_head, buffer_tail, shift_pressed, ctrl_pressed,
                   caps_on, led_state, extended_scancode, tty_active, reader, c, due>>

KbInit ==
    /\ keys \in KeySets
    /\ port = <<>> /\ down = {} /\ caps = FALSE
    /\ keyboard_buffer = [i \in 0..(KEYBOARD_BUFFER_SIZE - 1) |-> NONE]
    /\ buffer_head = 0 /\ buffer_tail = 0
    /\ shift_pressed = FALSE /\ ctrl_pressed = FALSE /\ caps_on = FALSE /\ led_state = FALSE
    /\ extended_scancode = FALSE /\ tty_active \in BOOLEAN
    /\ reader = "test" /\ c = NONE /\ due = <<>>

KbNext ==
    \/ keyboard_handler
    \/ ReadTakes \/ ReadMoves
    \/ \E k \in keys : IF k \in down THEN Strike(k, TRUE) ELSE Strike(k, FALSE)

KbSpec == KbInit /\ [][KbNext]_kb_vars

-----------------------------------------------------------------------------

Waiting == (buffer_head - buffer_tail + KEYBOARD_BUFFER_SIZE) % KEYBOARD_BUFFER_SIZE

\* The ring holds, in order, what the keys meant when they were hit, and the reader gets the
\* oldest of them whenever the handler interrupts it (keyboard_buffer_write, _read).
KeysInOrder ==
    /\ Waiting = Len(due)
    /\ \A i \in 1..Waiting : keyboard_buffer[(buffer_tail + i - 1) % KEYBOARD_BUFFER_SIZE] = due[i]
    /\ reader = "move" => c = due[1]

\* Once the stream is read, the driver knows which modifiers are held (keyboard_handle_scancode).
ModifiersFollow ==
    port = <<>> => /\ shift_pressed = ("shift" \in down) /\ ctrl_pressed = ("ctrl" \in down)
                   /\ caps_on = caps /\ led_state = caps
=============================================================================
