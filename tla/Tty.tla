-------------------------------- MODULE Tty ---------------------------------
(***************************************************************************)
(* The terminal line discipline (kernel/tty/tty.c): the keyboard interrupt  *)
(* feeds characters in, processes read them, asleep on tty_wq until there   *)
(* is something to read.  A character is its class and a line its length;   *)
(* echo is left out.                                                        *)
(***************************************************************************)
EXTENDS Integers, FiniteSets

CONSTANTS
    Readers,        \* processes that read from the terminal
    TTY_LINE_MAX, TTY_RAW_Q,
    Sizes           \* the sizes of the reads

\* An ordinary character, newline, and those of c_cc: VEOF, VERASE and, for all that
\* raise a signal, VINTR.
Inputs == {"char", "nl", "eof", "erase", "intr"}

VARIABLES
    ICANON, ISIG,           \* of termios.c_lflag
    fg_pgid,                \* the foreground process group, as the set of its readers
    line_len,
    ready_len, ready_has, ready_eof,
    raw_head, raw_tail,
    reading,                \* per process, the size of the read it is in; 0 for none
    tty_wq, blocked, sig_interrupt

ttyVars == <<ICANON, ISIG, fg_pgid, line_len, ready_len, ready_has, ready_eof, raw_head, raw_tail,
             reading, tty_wq, blocked, sig_interrupt>>
ready == <<ready_len, ready_has, ready_eof>>
raw == <<raw_head, raw_tail>>
modes == <<ICANON, ISIG, fg_pgid>>
readers == <<reading, tty_wq, blocked, sig_interrupt>>

TypeOK ==
    /\ {ICANON, ISIG, ready_has, ready_eof} \subseteq BOOLEAN /\ fg_pgid \subseteq Readers
    /\ line_len \in 0..(TTY_LINE_MAX - 1) /\ ready_len \in 0..TTY_LINE_MAX
    /\ raw_head \in 0..(TTY_RAW_Q - 1) /\ raw_tail \in 0..(TTY_RAW_Q - 1)
    /\ reading \in [Readers -> Sizes \cup {0}]
    /\ tty_wq \subseteq Readers /\ blocked \subseteq Readers /\ sig_interrupt \subseteq Readers

Init ==
    /\ ICANON = TRUE /\ ISIG = TRUE /\ fg_pgid = {}
    /\ line_len = 0 /\ ready_len = 0 /\ ready_has = FALSE /\ ready_eof = FALSE
    /\ raw_head = 0 /\ raw_tail = 0
    /\ reading = [p \in Readers |-> 0] /\ tty_wq = {} /\ blocked = {} /\ sig_interrupt = {}

-----------------------------------------------------------------------------
WakeReaders == tty_wq' = {} /\ blocked' = blocked \ tty_wq /\ UNCHANGED <<reading, sig_interrupt>>

\* Mutant: the readers are not told.
line_complete_silent(len) ==
    /\ ready_len' = len /\ ready_has' = TRUE /\ line_len' = 0
    /\ UNCHANGED readers

\* The line, of length len, is handed over, over a line nobody has read yet.
line_complete(len) ==
    /\ ready_len' = len /\ ready_has' = TRUE /\ line_len' = 0
    /\ WakeReaders

\* signal_send_pgrp: the readers of the foreground group that sleep are interrupted.
signal_send_pgrp ==
    /\ blocked' = blocked \ fg_pgid /\ sig_interrupt' = sig_interrupt \cup (blocked \cap fg_pgid)
    /\ UNCHANGED <<tty_wq, reading>>

\* A character typed in raw mode; it is dropped when the ring is full.
raw_input ==
    /\ raw_head' = IF (raw_head + 1) % TTY_RAW_Q = raw_tail THEN raw_head ELSE (raw_head + 1) % TTY_RAW_Q
    /\ WakeReaders /\ UNCHANGED <<raw_tail, line_len, ready>>

\* A character typed in canonical mode.
canonical_input(c) ==
    /\ \/ c = "eof" /\ line_complete(line_len)
          /\ ready_eof' = (ready_eof \/ line_len = 0)
       \/ c = "erase" /\ line_len' = (IF line_len > 0 THEN line_len - 1 ELSE 0)
          /\ UNCHANGED <<ready, readers>>
       \/ c = "nl" /\ line_complete(IF line_len < TTY_LINE_MAX THEN line_len + 1 ELSE line_len)
          /\ UNCHANGED ready_eof
       \/ c \in {"char", "intr"} /\ line_len' = (IF line_len < TTY_LINE_MAX - 1 THEN line_len + 1 ELSE line_len)
          /\ UNCHANGED <<ready, readers>>
    /\ UNCHANGED raw

tty_input(c) ==
    /\ \/ ISIG /\ c = "intr" /\ signal_send_pgrp /\ UNCHANGED <<line_len, ready, raw>>
       \/ ~(ISIG /\ c = "intr") /\ ~ICANON /\ raw_input
       \/ ~(ISIG /\ c = "intr") /\ ICANON /\ canonical_input(c)
    /\ UNCHANGED modes

-----------------------------------------------------------------------------
Unread == (raw_head - raw_tail) % TTY_RAW_Q
Smaller(a, b) == IF a < b THEN a ELSE b

tty_line_ready ==
    IF ICANON THEN ready_has \/ ready_eof
    ELSE raw_head # raw_tail \/ (ready_has /\ ready_len > 0) \/ ready_eof

\* tty_read of up to n bytes.
tty_read(n) ==
    LET k == Smaller(ready_len, n)
    IN  \/ /\ ~ICANON /\ Unread > 0
           /\ raw_tail' = (raw_tail + Smaller(Unread, n)) % TTY_RAW_Q
           /\ UNCHANGED ready
        \/ /\ ~ICANON /\ Unread = 0 /\ ready_has /\ ready_len > 0
           /\ ready_len' = ready_len - k /\ ready_has' = (k < ready_len)
           /\ UNCHANGED <<ready_eof, raw_tail>>
        \/ /\ ~ICANON /\ Unread = 0 /\ ~(ready_has /\ ready_len > 0)
           /\ ready_eof' = FALSE
           /\ UNCHANGED <<ready_len, ready_has, raw_tail>>
        \/ /\ ICANON /\ ready_eof /\ ready_len = 0
           /\ ready_eof' = FALSE
           /\ UNCHANGED <<ready_len, ready_has, raw_tail>>
        \/ /\ ICANON /\ ~(ready_eof /\ ready_len = 0)
           /\ ready_len' = ready_len - k
           /\ ready_has' = (k < ready_len) /\ ready_eof' = (k < ready_len /\ ready_eof)
           /\ UNCHANGED raw_tail

\* The loop of tty_read_blocking, from its start or from where p was woken, up to where it
\* returns or sleeps.
tty_read_blocking(p, n) ==
    /\ p \notin blocked
    /\ n \in IF reading[p] = 0 THEN Sizes ELSE {reading[p]}
    /\ sig_interrupt' = sig_interrupt \ {p}
    /\ \/ p \in sig_interrupt /\ reading' = [reading EXCEPT ![p] = 0]
          /\ tty_wq' = tty_wq \ {p} /\ UNCHANGED <<blocked, ready, raw_tail>>
       \/ p \notin sig_interrupt /\ tty_line_ready /\ tty_read(n)
          /\ reading' = [reading EXCEPT ![p] = 0] /\ tty_wq' = tty_wq \ {p} /\ UNCHANGED blocked
       \/ p \notin sig_interrupt /\ ~tty_line_ready
          /\ reading' = [reading EXCEPT ![p] = n] /\ tty_wq' = tty_wq \cup {p} /\ blocked' = blocked \cup {p}
          /\ UNCHANGED <<ready, raw_tail>>
    /\ UNCHANGED <<modes, line_len, raw_head>>

\* TCSETS.  The program that reads sets the mode: not while another one sleeps in a read.
do_ioctl_TCSETS(canon, isig) ==
    /\ blocked = {} /\ ICANON' = canon /\ ISIG' = isig
    /\ UNCHANGED <<fg_pgid, line_len, ready, raw, readers>>
do_ioctl_TIOCSPGRP(group) ==
    /\ fg_pgid' = group
    /\ UNCHANGED <<ICANON, ISIG, line_len, ready, raw, readers>>

Next ==
    \/ \E c \in Inputs : tty_input(c)
    \/ \E p \in Readers, n \in Sizes : tty_read_blocking(p, n)
    \/ \E canon, isig \in BOOLEAN : do_ioctl_TCSETS(canon, isig)
    \/ \E group \in SUBSET Readers : do_ioctl_TIOCSPGRP(group)

Spec == Init /\ [][Next]_ttyVars

-----------------------------------------------------------------------------
(* Properties.                                                              *)

\* Nobody sleeps on the terminal while it has a line, a byte or an end of file to give:
\* every key that makes it readable wakes the readers, and a reader checks and goes to
\* sleep without an interrupt in between.
ReadersAwake == blocked # {} => ~tty_line_ready /\ blocked \subseteq tty_wq

\* A key typed in raw mode never costs unread ones: the ring is not lapped.
RawNotLapped == [][raw_head' # raw_head => Unread' = Unread + 1]_ttyVars
=============================================================================
