---------------------------- MODULE DeviceProofs ----------------------------
(***************************************************************************)
(* The keyboard (Keyboard), the rings of the NIC (E1000) and the parts of  *)
(* the network stack that wait under net_lock: address resolution (Arp),   *)
(* pings (Icmp) and datagram sockets (Socket), for every number of         *)
(* threads, hosts, descriptors, slots and sockets and rings of any size.   *)
(* The parts do not interact: each is an instance, with an inductive       *)
(* invariant of its own.                                                   *)
(***************************************************************************)
EXTENDS Integers, Sequences, TLAPS

-----------------------------------------------------------------------------
(* Numbers, and places in a ring. *)

\* r is the place of a, less than twice round a ring of n places.
Rounds(n, a, r) == r \in 0..(n - 1) /\ r = IF a < n THEN a ELSE a - n

\* The remainder is that place.
LEMMA OnceRound ==
    ASSUME NEW n \in Nat \ {0}, NEW a \in 0..(2 * n - 1)
    PROVE  Rounds(n, a, a % n)
<1>1. CASE a < n
  <2>1. a % n = a
    BY <1>1
  <2> QED
    BY <1>1, <2>1 DEF Rounds
<1>2. CASE ~(a < n)
  <2>1. a % n = a - n
    BY <1>2
  <2> QED
    BY <1>2, <2>1 DEF Rounds
<1> QED
  BY <1>1, <1>2, Zenon

\* How far around a ring of n places b is behind a.
Behind(n, a, b) == IF b <= a THEN a - b ELSE a - b + n

\* That is what the code computes.
LEMMA BehindModulo ==
    ASSUME NEW n \in Nat \ {0}, NEW a \in 0..(n - 1), NEW b \in 0..(n - 1)
    PROVE  (a - b) % n = Behind(n, a, b) /\ Behind(n, a, b) \in 0..(n - 1)
<1>1. CASE b <= a
  <2>1. (a - b) % n = a - b
    BY <1>1
  <2> QED
    BY <1>1, <2>1 DEF Behind
<1>2. CASE ~(b <= a)
  <2>1. (a - b) % n = a - b + n
    BY <1>2
  <2> QED
    BY <1>2, <2>1 DEF Behind
<1> QED
  BY <1>1, <1>2

\* The next place of a ring.
Following(n, a) == IF a + 1 = n THEN 0 ELSE a + 1

\* That is what the code computes.
LEMMA FollowingModulo ==
    ASSUME NEW n \in Nat \ {0}, NEW a \in 0..(n - 1)
    PROVE  (a + 1) % n = Following(n, a) /\ Following(n, a) \in 0..(n - 1)
<1>1. CASE a + 1 = n
  <2>1. (a + 1) % n = 0
    BY <1>1
  <2> QED
    BY <1>1, <2>1 DEF Following
<1>2. CASE a + 1 # n
  <2>1. (a + 1) % n = a + 1
    BY <1>2
  <2> QED
    BY <1>2, <2>1 DEF Following
<1> QED
  BY <1>1, <1>2

\* One more is behind when the front moves on and does not meet the rear.
LEMMA OneMoreBehind ==
    ASSUME NEW n \in Nat \ {0}, NEW a \in 0..(n - 1), NEW b \in 0..(n - 1), Following(n, a) # b
    PROVE  Behind(n, Following(n, a), b) = Behind(n, a, b) + 1
BY DEF Following, Behind

\* The place, or the number, of what is less than twice round.
At(n, a) == IF a < n THEN a ELSE a - n

\* The next place, and the next number, after what is less than twice round.
LEMMA NextAt ==
    ASSUME NEW n \in Nat \ {0}, NEW a \in 0..(n - 1), NEW w \in 0..(n - 1)
    PROVE  Following(n, At(n, a + w)) = At(n, a + (w + 1))
BY DEF At, Following

\* One less from the next place.
LEMMA LessAt ==
    ASSUME NEW n \in Nat \ {0}, NEW a \in 0..(n - 1), NEW w \in 1..n
    PROVE  At(n, Following(n, a) + (w - 1)) = At(n, a + w)
BY DEF At, Following

-----------------------------------------------------------------------------
(* The keyboard *)

CONSTANTS KEYBOARD_BUFFER_SIZE, PORT, KeySets, Overlap, NONE
VARIABLES keys, kb_port, down, caps, keyboard_buffer, buffer_head, buffer_tail, shift_pressed, ctrl_pressed,
          caps_on, led_state, extended_scancode, tty_active, reader, kb_c, due

\* A ring b of n places holds the elements of q from t on, and h is the place behind them.
Queued(n, b, t, h, q) ==
    /\ Len(q) \in 0..(n - 1) /\ h = At(n, t + Len(q))
    /\ \A k \in 1..Len(q) : b[At(n, t + k - 1)] = q[k]

\* Of the n places, only h differs, where g has x.
Put(n, g, b, h, x) == \A i \in 0..(n - 1) : (i = h => g[i] = x) /\ (i # h => g[i] = b[i])

\* It is full when the next place behind is the first.
LEMMA QueueFull ==
    ASSUME NEW n \in Nat \ {0}, NEW b, NEW t \in 0..(n - 1), NEW h, NEW q, Queued(n, b, t, h, q)
    PROVE  h \in 0..(n - 1) /\ (Following(n, h) = t <=> Len(q) = n - 1) /\ (h = t <=> Len(q) = 0)
<1> DEFINE w == Len(q)
<1>1. w \in 0..(n - 1) /\ h = At(n, t + w)
  BY Zenon DEF Queued
<1> HIDE DEF w
<1>2. h \in 0..(n - 1) /\ (h = t <=> w = 0)
  BY <1>1 DEF At
<1>3. Following(n, h) = At(n, t + (w + 1))
  BY <1>1, NextAt, Zenon
<1>4. At(n, t + (w + 1)) = t <=> w = n - 1
  BY <1>1 DEF At
<1> QED
  BY <1>2, <1>3, <1>4, Zenon DEF w

\* One more at the end.
LEMMA QueuePut ==
    ASSUME NEW n \in Nat \ {0}, NEW b, NEW t \in 0..(n - 1), NEW h, NEW S, NEW q \in Seq(S), Queued(n, b, t, h, q),
           Len(q) # n - 1, NEW x \in S, NEW g, Put(n, g, b, h, x)
    PROVE  Queued(n, g, t, Following(n, h), Append(q, x))
<1> DEFINE r == Append(q, x)
<1>1. Len(q) \in 0..(n - 2) /\ Len(r) = Len(q) + 1 /\ r[Len(q) + 1] = x /\ \A k \in 1..Len(q) : r[k] = q[k]
  BY DEF Queued
<1>2. h = At(n, t + Len(q)) /\ h \in 0..(n - 1)
  BY <1>1 DEF Queued, At
<1>3. Following(n, h) = At(n, t + (Len(q) + 1))
  BY <1>1, <1>2 DEF At, Following
<1> HIDE DEF r
<1>4. ASSUME NEW k \in 1..Len(r)
      PROVE  g[At(n, t + k - 1)] = r[k]
  <2>1. CASE k = Len(q) + 1
    <3>1. At(n, t + k - 1) = h
      BY <1>1, <1>2, <2>1
    <3> QED
      BY <1>1, <1>2, <2>1, <3>1, Zenon DEF Put
  <2>2. CASE k # Len(q) + 1
    <3>1. k \in 1..Len(q)
      BY <1>1, <2>2
    <3>2. At(n, t + k - 1) \in 0..(n - 1) /\ At(n, t + k - 1) # h
      BY <1>1, <1>2, <3>1 DEF At
    <3> QED
      BY <1>1, <3>1, <3>2, Zenon DEF Put, Queued
  <2> QED
    BY <2>1, <2>2, Zenon
<1>5. Len(r) \in 0..(n - 1)
  BY <1>1
<1> QED
  BY <1>1, <1>3, <1>4, <1>5, Zenon DEF Queued, r

\* The first is taken.
LEMMA QueueTake ==
    ASSUME NEW n \in Nat \ {0}, NEW b, NEW t \in 0..(n - 1), NEW h, NEW S, NEW q \in Seq(S), Queued(n, b, t, h, q),
           q # <<>>
    PROVE  b[t] = q[1] /\ Queued(n, b, Following(n, t), h, Tail(q))
<1> DEFINE r == Tail(q)
<1>1. Len(q) \in 1..(n - 1) /\ Len(r) = Len(q) - 1
  BY DEF Queued
<1>2. \A k \in 1..(Len(q) - 1) : r[k] = q[k + 1]
  OBVIOUS
<1>3. At(n, t + 1 - 1) = t /\ h = At(n, t + Len(q)) /\ \A k \in 1..Len(q) : b[At(n, t + k - 1)] = q[k]
  BY DEF At, Queued
<1> HIDE DEF r
<1>4. ASSUME NEW k \in 1..Len(r)
      PROVE  b[At(n, Following(n, t) + k - 1)] = r[k]
  <2>1. At(n, Following(n, t) + k - 1) = At(n, t + (k + 1) - 1)
    BY <1>1 DEF At, Following
  <2>2. k + 1 \in 1..Len(q) /\ k \in 1..(Len(q) - 1)
    BY <1>1
  <2> QED
    BY <1>2, <1>3, <2>1, <2>2
<1>5. h = At(n, Following(n, t) + Len(r)) /\ Len(r) \in 0..(n - 1)
  BY <1>1, <1>3 DEF At, Following
<1>6. b[t] = q[1]
  BY <1>1, <1>3
<1> QED
  BY <1>4, <1>5, <1>6, Zenon DEF Queued, r

Driver == INSTANCE Keyboard WITH port <- kb_port, c <- kb_c

KEYS == {"a", "1", "left", "up", "shift", "ctrl", "caps"}
CHARS == {"a", "A", "^A", "1", "!", "LEFT", "SELECT_LEFT", "UP", NONE}
Codes == [code : KEYS \cup {"E0"}, release : BOOLEAN, char : CHARS]
Mods == [shift : BOOLEAN, ctrl : BOOLEAN, caps : BOOLEAN]

\* The modifiers after a byte, and the character that a byte is for.
After(b, s) == [shift |-> IF b.code = "shift" THEN ~b.release ELSE s.shift,
                ctrl |-> IF b.code = "ctrl" THEN ~b.release ELSE s.ctrl,
                caps |-> IF b.code = "caps" /\ ~b.release THEN ~s.caps ELSE s.caps]
CharFor(k, s) ==
    CASE k = "left" -> IF s.shift THEN "SELECT_LEFT" ELSE "LEFT"
      [] k = "up" -> "UP"
      [] k = "a" /\ s.ctrl -> "^A"
      [] k = "a" /\ ~s.ctrl -> IF s.shift # s.caps THEN "A" ELSE "a"
      [] k = "1" -> IF s.shift THEN "!" ELSE "1"
Meant(b, s) == b.code \in {"a", "1", "left", "up"} /\ ~b.release => b.char = CharFor(b.code, s)

\* The bytes of q lead from the modifiers s to r, and each is for what its key meant.
Stream(q, s, r) ==
    \E f \in [0..Len(q) -> Mods] :
        /\ f[0] = s /\ f[Len(q)] = r
        /\ \A i \in 1..Len(q) : f[i] = After(q[i], f[i - 1]) /\ Meant(q[i], f[i - 1])

\* The modifiers after a byte, one by one.
LEMMA ModsAre ==
    ASSUME NEW b, NEW s, NEW x, NEW y, NEW z, x = IF b.code = "shift" THEN ~b.release ELSE s.shift,
           y = IF b.code = "ctrl" THEN ~b.release ELSE s.ctrl,
           z = IF b.code = "caps" /\ ~b.release THEN ~s.caps ELSE s.caps
    PROVE  [shift |-> x, ctrl |-> y, caps |-> z] = After(b, s)
BY DEF After

\* They are modifiers again.
LEMMA AfterType == ASSUME NEW b \in Codes, NEW s \in Mods PROVE After(b, s) \in Mods
BY Zenon DEF After, Codes, Mods

\* Without bytes nothing changes.
LEMMA StreamEmpty ==
    ASSUME NEW s \in Mods
    PROVE  Stream(<<>>, s, s) /\ \A r : Stream(<<>>, s, r) => r = s
<1>1. Len(<<>>) = 0 /\ \A i \in 1..0 : FALSE
  OBVIOUS
<1>2. [i \in 0..0 |-> s] \in [0..0 -> Mods] /\ [i \in 0..0 |-> s][0] = s
  OBVIOUS
<1> QED
  BY <1>1, <1>2, Zenon DEF Stream

\* What follows the first byte, from the modifiers after it.
LEMMA StreamTail ==
    ASSUME NEW q \in Seq(Codes), q # <<>>, NEW s \in Mods, NEW r, Stream(q, s, r)
    PROVE  Stream(Tail(q), After(Head(q), s), r) /\ Meant(Head(q), s)
<1>1. PICK f \in [0..Len(q) -> Mods] :
        /\ f[0] = s /\ f[Len(q)] = r
        /\ \A i \in 1..Len(q) : f[i] = After(q[i], f[i - 1]) /\ Meant(q[i], f[i - 1])
  BY Zenon DEF Stream
<1> DEFINE p == Tail(q)
           g == [i \in 0..(Len(q) - 1) |-> f[i + 1]]
<1>2. Len(q) \in Nat \ {0} /\ Len(p) = Len(q) - 1 /\ Head(q) = q[1]
  OBVIOUS
<1>3. \A i \in 1..(Len(q) - 1) : p[i] = q[i + 1]
  OBVIOUS
<1>4. g \in [0..(Len(q) - 1) -> Mods]
  BY <1>2
<1>5. \A i \in 0..(Len(q) - 1) : g[i] = f[i + 1]
  BY Zenon
<1> HIDE DEF p, g
<1>6. f[1] = After(q[1], s) /\ Meant(q[1], s)
  <2>1. 1 \in 1..Len(q) /\ 1 - 1 = 0
    BY <1>2
  <2> QED
    BY <1>1, <2>1
<1>7. g[0] = f[1] /\ g[Len(q) - 1] = r
  BY <1>1, <1>2, <1>5
<1>8. ASSUME NEW i \in 1..(Len(q) - 1)
      PROVE  g[i] = After(p[i], g[i - 1]) /\ Meant(p[i], g[i - 1])
  <2>1. i + 1 \in 1..Len(q) /\ (i + 1) - 1 = i /\ (i - 1) + 1 = i /\ i - 1 \in 0..(Len(q) - 1) /\ i \in 0..(Len(q) - 1)
    BY <1>2
  <2>2. g[i - 1] = f[i] /\ g[i] = f[i + 1] /\ p[i] = q[i + 1]
    BY <1>3, <1>5, <2>1
  <2>3. f[i + 1] = After(q[i + 1], f[i]) /\ Meant(q[i + 1], f[i])
    BY <1>1, <2>1
  <2> QED
    BY <2>2, <2>3, Zenon
<1>9. Stream(p, After(q[1], s), r)
  BY <1>2, <1>4, <1>6, <1>7, <1>8, Zenon DEF Stream
<1> QED
  BY <1>2, <1>6, <1>9, Zenon DEF p

\* One byte more, meant under the modifiers at the end.
LEMMA StreamAppend ==
    ASSUME NEW q \in Seq(Codes), NEW s \in Mods, NEW r \in Mods, Stream(q, s, r), NEW b \in Codes, Meant(b, r)
    PROVE  Stream(Append(q, b), s, After(b, r))
<1>1. PICK f \in [0..Len(q) -> Mods] :
        /\ f[0] = s /\ f[Len(q)] = r
        /\ \A i \in 1..Len(q) : f[i] = After(q[i], f[i - 1]) /\ Meant(q[i], f[i - 1])
  BY Zenon DEF Stream
<1> DEFINE p == Append(q, b)
           a == After(b, r)
           n == Len(q) + 1
           g == [i \in 0..n |-> IF i = n THEN a ELSE f[i]]
<1>2. Len(q) \in Nat /\ Len(p) = n /\ n \in Nat \ {0} /\ n - 1 = Len(q)
  OBVIOUS
<1>3. p[n] = b /\ \A i \in 1..Len(q) : p[i] = q[i]
  OBVIOUS
<1>4. a \in Mods
  BY AfterType, Zenon
<1> HIDE DEF a, p
<1>5. g \in [0..n -> Mods]
  BY <1>2, <1>4
<1>6. g[n] = a /\ \A i \in 0..Len(q) : g[i] = f[i]
  BY <1>2
<1> HIDE DEF g, n
<1>7. g[0] = s /\ g[n] = a /\ g[n - 1] = r
  BY <1>1, <1>2, <1>6
<1>8. ASSUME NEW i \in 1..n
      PROVE  g[i] = After(p[i], g[i - 1]) /\ Meant(p[i], g[i - 1])
  <2>1. CASE i = n
    BY <1>3, <1>7, <2>1, Zenon DEF a
  <2>2. CASE i # n
    <3>1. i \in 1..Len(q) /\ i \in 0..Len(q) /\ i - 1 \in 0..Len(q)
      BY <1>2, <2>2
    <3> QED
      BY <1>1, <1>3, <1>6, <3>1, Zenon
  <2> QED
    BY <2>1, <2>2, Zenon
<1>9. Stream(p, s, a)
  BY <1>2, <1>5, <1>7, <1>8, Zenon DEF Stream
<1> QED
  BY <1>9, Zenon DEF p, a

\* Keys are those the driver has a map for, and none is hit while the driver sets the LEDs.
KeyboardFits == KEYBOARD_BUFFER_SIZE \in Nat \ {0} /\ KeySets \subseteq SUBSET KEYS /\ ~Overlap

\* The modifiers as the driver knows them, and as they are held.
Known == [shift |-> shift_pressed, ctrl |-> ctrl_pressed, caps |-> caps_on]
Held == [shift |-> "shift" \in down, ctrl |-> "ctrl" \in down, caps |-> caps]

KbTyped ==
    /\ keys \subseteq KEYS /\ kb_port \in Seq(Codes) /\ due \in Seq(CHARS)
    /\ keyboard_buffer \in [0..(KEYBOARD_BUFFER_SIZE - 1) -> CHARS] /\ buffer_tail \in 0..(KEYBOARD_BUFFER_SIZE - 1)
    /\ Known \in Mods /\ Held \in Mods /\ led_state = caps_on

\* A caps lock is the last byte there is: the LEDs are set before another key is hit.
CapsLast == \A i \in 1..Len(kb_port) : kb_port[i].code = "caps" => i = Len(kb_port)

RingInv ==
    /\ Queued(KEYBOARD_BUFFER_SIZE, keyboard_buffer, buffer_tail, buffer_head, due)
    /\ reader = "move" => due # <<>> /\ kb_c = due[1]

KbInv == KbTyped /\ CapsLast /\ Stream(kb_port, Known, Held) /\ RingInv

\* A character is stored, or not if the ring is full.
LEMMA WriteSound ==
    ASSUME KeyboardFits, KbInv, NEW x \in CHARS, Driver!keyboard_buffer_write(x, x),
           UNCHANGED <<buffer_tail, reader, kb_c>>
    PROVE  /\ due' \in Seq(CHARS) /\ keyboard_buffer' \in [0..(KEYBOARD_BUFFER_SIZE - 1) -> CHARS]
           /\ RingInv'
<1> DEFINE n == KEYBOARD_BUFFER_SIZE
<1>1. /\ n \in Nat \ {0} /\ due \in Seq(CHARS) /\ buffer_tail \in 0..(n - 1)
      /\ keyboard_buffer \in [0..(n - 1) -> CHARS]
      /\ Queued(n, keyboard_buffer, buffer_tail, buffer_head, due) /\ (reader = "move" => due # <<>> /\ kb_c = due[1])
  BY Zenon DEF KeyboardFits, KbInv, KbTyped, RingInv
<1>2. buffer_head \in 0..(n - 1) /\ (Following(n, buffer_head) = buffer_tail <=> Len(due) = n - 1)
  BY <1>1, QueueFull
<1>3. (buffer_head + 1) % n = Following(n, buffer_head)
  BY <1>1, <1>2, FollowingModulo, Zenon
<1>4. CASE Len(due) = n - 1
  <2>1. keyboard_buffer' = keyboard_buffer /\ buffer_head' = buffer_head /\ due' = due
    BY <1>2, <1>3, <1>4, Zenon DEF Driver!keyboard_buffer_write, Driver!Full
  <2> QED
    BY <1>1, <2>1, Zenon DEF RingInv
<1>5. CASE Len(due) # n - 1
  <2>1. /\ keyboard_buffer' = [keyboard_buffer EXCEPT ![buffer_head] = x] /\ buffer_head' = Following(n, buffer_head)
        /\ due' = Append(due, x)
    BY <1>2, <1>3, <1>5, Zenon DEF Driver!keyboard_buffer_write, Driver!Full
  <2>2. Put(n, keyboard_buffer', keyboard_buffer, buffer_head, x)
    BY <1>1, <2>1, Zenon DEF Put
  <2>3. Queued(n, keyboard_buffer', buffer_tail, buffer_head', due')
    BY <1>1, <1>5, <2>1, <2>2, QueuePut, Zenon
  <2>4. keyboard_buffer' \in [0..(n - 1) -> CHARS]
    BY <1>1, <2>1, Zenon
  <2>5. due' \in Seq(CHARS) /\ (due # <<>> => due' # <<>> /\ due'[1] = due[1])
    BY <1>1, <2>1
  <2> QED
    BY <1>1, <2>3, <2>4, <2>5, Zenon DEF RingInv
<1> QED
  BY <1>4, <1>5, Zenon

\* What CharOf and Meaning are of the modifiers known and held.
LEMMA SameMaps ==
    /\ \A k : Driver!CharOf(k) = CharFor(k, Known)
    /\ \A k \in {"a", "1", "left", "up"} : Driver!Meaning(k) = CharFor(k, Held) /\ CharFor(k, Held) \in CHARS
    /\ \A k \in {"shift", "ctrl", "caps"} : Driver!Meaning(k) = NONE
<1>1. Known.shift = shift_pressed /\ Known.ctrl = ctrl_pressed /\ Known.caps = caps_on
  BY Zenon DEF Known
<1>2. Held.shift = ("shift" \in down) /\ Held.ctrl = ("ctrl" \in down) /\ Held.caps = caps
  BY Zenon DEF Held
<1>3. \A k : Driver!CharOf(k) = CharFor(k, Known)
  BY <1>1 DEF Driver!CharOf, CharFor
<1>4. \A k \in {"a", "1", "left", "up"} : Driver!Meaning(k) = CharFor(k, Held)
  BY <1>2 DEF Driver!Meaning, CharFor
<1>5. \A k \in {"a", "1", "left", "up"} : CharFor(k, Held) \in CHARS
  BY DEF CharFor, CHARS
<1>6. \A k \in {"shift", "ctrl", "caps"} : Driver!Meaning(k) = NONE
  BY DEF Driver!Meaning
<1> QED
  BY <1>3, <1>4, <1>5, <1>6, Zenon

\* The handler takes a byte.
LEMMA HandlerSound ==
    ASSUME KeyboardFits, KbInv, Driver!keyboard_handler
    PROVE  KbInv'
<1> DEFINE b == Head(kb_port)
<1>1. kb_port # <<>> /\ kb_port \in Seq(Codes) /\ b \in Codes /\ b = kb_port[1] /\ Tail(kb_port) \in Seq(Codes)
  BY DEF Driver!keyboard_handler, KbInv, KbTyped
<1>2. Stream(Tail(kb_port), After(b, Known), Held) /\ Meant(b, Known) /\ After(b, Known) \in Mods
  BY <1>1, StreamTail, AfterType, Zenon DEF KbInv, KbTyped
<1>3. UNCHANGED <<keys, down, caps, buffer_tail, tty_active, reader, kb_c>> /\ Held' = Held
  BY Zenon DEF Driver!keyboard_handler, Held
<1>4. b.code = "caps" => Tail(kb_port) = <<>>
  <2>1. Len(kb_port) \in Nat \ {0} /\ Len(Tail(kb_port)) = Len(kb_port) - 1
    BY <1>1
  <2>2. b.code = "caps" => Len(kb_port) = 1
    <3>1. 1 \in 1..Len(kb_port)
      BY <2>1
    <3> QED
      BY <1>1, <3>1, Zenon DEF KbInv, CapsLast
  <2> QED
    BY <1>1, <2>1, <2>2
<1>5. Driver!AfterSetLeds(<<>>) = <<>>
  BY DEF Driver!AfterSetLeds
<1>6. kb_port' = Tail(kb_port) /\ Known' = After(b, Known) /\ led_state' = caps_on'
  <2>1. CASE b.code = "E0"
    BY <2>1, Zenon DEF Driver!keyboard_handler, Known, After, KbInv, KbTyped
  <2>2. CASE b.code \in Driver!Modifiers
    <3>1. Driver!Modifier(b.code, b.release) /\ b.code # "E0"
      BY <2>2, Zenon DEF Driver!keyboard_handler, Driver!Modifiers
    <3>2. kb_port' = Tail(kb_port)
      BY <1>4, <1>5, <3>1, Zenon DEF Driver!Modifier
    <3>3. Known' = After(b, Known) /\ led_state' = caps_on'
      <4>1. /\ shift_pressed' = IF b.code = "shift" THEN ~b.release ELSE Known.shift
            /\ ctrl_pressed' = IF b.code = "ctrl" THEN ~b.release ELSE Known.ctrl
            /\ caps_on' = IF b.code = "caps" /\ ~b.release THEN ~Known.caps ELSE Known.caps
        <5>1. Known.shift = shift_pressed /\ Known.ctrl = ctrl_pressed /\ Known.caps = caps_on
          BY Zenon DEF Known
        <5>2. caps_on' = IF b.code = "caps" /\ ~b.release THEN ~caps_on ELSE caps_on
          BY <3>1, Zenon DEF Driver!Modifier
        <5>3. /\ shift_pressed' = IF b.code = "shift" THEN ~b.release ELSE shift_pressed
              /\ ctrl_pressed' = IF b.code = "ctrl" THEN ~b.release ELSE ctrl_pressed
          BY <3>1, Zenon DEF Driver!Modifier
        <5> QED
          BY <5>1, <5>2, <5>3
      <4>2. led_state' = caps_on'
        <5>1. led_state = caps_on
          BY Zenon DEF KbInv, KbTyped
        <5> QED
          BY <3>1, <5>1 DEF Driver!Modifier
      <4> QED
        <5>1. [shift |-> shift_pressed', ctrl |-> ctrl_pressed', caps |-> caps_on'] = After(b, Known)
          BY <4>1, ModsAre
        <5>2. Known' = [shift |-> shift_pressed', ctrl |-> ctrl_pressed', caps |-> caps_on']
          BY Zenon DEF Known
        <5> QED
          BY <4>2, <5>1, <5>2, Zenon
    <3> QED
      BY <3>2, <3>3, Zenon
  <2>3. CASE b.code # "E0" /\ b.code \notin Driver!Modifiers
    <3>1. kb_port' = Tail(kb_port) /\ UNCHANGED <<shift_pressed, ctrl_pressed, caps_on, led_state>>
      BY <2>3, Zenon DEF Driver!keyboard_handler
    <3> QED
      BY <2>3, <3>1, Zenon DEF Known, After, KbInv, KbTyped, Driver!Modifiers
  <2> QED
    BY <2>1, <2>2, <2>3, Zenon
<1>7. CapsLast'
  <2>1. \A i \in 1..Len(Tail(kb_port)) :
            Tail(kb_port)[i] = kb_port[i + 1] /\ i + 1 \in 1..Len(kb_port) /\ Len(Tail(kb_port)) + 1 = Len(kb_port)
    BY <1>1
  <2> QED
    BY <1>6, <2>1 DEF KbInv, CapsLast
<1>8. /\ due' \in Seq(CHARS) /\ keyboard_buffer' \in [0..(KEYBOARD_BUFFER_SIZE - 1) -> CHARS]
      /\ RingInv'
  <2>1. CASE UNCHANGED <<keyboard_buffer, buffer_head, due>>
    BY <1>3, <2>1, Zenon DEF KbInv, KbTyped, RingInv
  <2>2. CASE /\ b.code # "E0" /\ b.code \notin Driver!Modifiers /\ ~b.release
             /\ Driver!keyboard_buffer_write(Driver!CharOf(b.code), b.char)
    <3>1. b.code \in {"a", "1", "left", "up"}
      BY <1>1, <2>2, Zenon DEF Codes, KEYS, Driver!Modifiers
    <3>2. Driver!CharOf(b.code) = b.char /\ b.char \in CHARS
      BY <1>1, <1>2, <2>2, <3>1, SameMaps, Zenon DEF Meant, Codes
    <3> QED
      BY <1>3, <2>2, <3>2, WriteSound, Zenon
  <2> QED
    BY <2>1, <2>2, Zenon DEF Driver!keyboard_handler, Driver!Deliver
<1>9. KbTyped'
  BY <1>1, <1>2, <1>3, <1>6, <1>8, Zenon DEF KbInv, KbTyped
<1> QED
  BY <1>2, <1>3, <1>6, <1>7, <1>8, <1>9, Zenon DEF KbInv

\* The reader takes a character, in two steps between which the handler may come.
LEMMA ReaderSound ==
    ASSUME KeyboardFits, KbInv, Driver!ReadTakes \/ Driver!ReadMoves
    PROVE  KbInv'
<1> DEFINE n == KEYBOARD_BUFFER_SIZE
<1>1. /\ n \in Nat \ {0} /\ due \in Seq(CHARS) /\ buffer_tail \in 0..(n - 1)
      /\ keyboard_buffer \in [0..(n - 1) -> CHARS]
      /\ Queued(n, keyboard_buffer, buffer_tail, buffer_head, due) /\ (reader = "move" => due # <<>> /\ kb_c = due[1])
  BY Zenon DEF KeyboardFits, KbInv, KbTyped, RingInv
<1>2. CASE Driver!ReadTakes
  <2>1. due # <<>>
    <3>1. buffer_head = buffer_tail <=> Len(due) = 0
      BY <1>1, QueueFull
    <3> QED
      BY <1>2, <3>1 DEF Driver!ReadTakes
  <2>2. keyboard_buffer[buffer_tail] = due[1]
    BY <1>1, <2>1, QueueTake
  <2> QED
    BY <1>2, <2>1, <2>2, Zenon DEF Driver!ReadTakes, KbInv, KbTyped, CapsLast, Known, Held, RingInv
<1>3. CASE Driver!ReadMoves
  <2>1. due # <<>>
    BY <1>1, <1>3, Zenon DEF Driver!ReadMoves
  <2>2. (buffer_tail + 1) % n = Following(n, buffer_tail) /\ Following(n, buffer_tail) \in 0..(n - 1)
    BY <1>1, FollowingModulo, Zenon
  <2>3. Queued(n, keyboard_buffer, Following(n, buffer_tail), buffer_head, Tail(due))
    BY <1>1, <2>1, QueueTake, Zenon
  <2>4. Tail(due) \in Seq(CHARS)
    BY <1>1, <2>1
  <2> QED
    BY <1>3, <2>2, <2>3, <2>4, Zenon DEF Driver!ReadMoves, KbInv, KbTyped, CapsLast, Known, Held, RingInv
<1> QED
  BY <1>2, <1>3, Zenon

\* A key is hit or let go.
LEMMA StrikeSound ==
    ASSUME KeyboardFits, KbInv, NEW k \in keys, NEW rel \in BOOLEAN, Driver!Strike(k, rel)
    PROVE  KbInv'
<1> DEFINE b == Driver!Byte(k, rel, IF rel THEN NONE ELSE Driver!Meaning(k))
<1>1. k \in KEYS /\ kb_port \in Seq(Codes) /\ Known \in Mods /\ Held \in Mods /\ Stream(kb_port, Known, Held)
  BY Zenon DEF KbInv, KbTyped
<1>2. b.code = k /\ b.release = rel /\ b.char = IF rel THEN NONE ELSE Driver!Meaning(k)
  BY Zenon DEF Driver!Byte
<1>3. NONE \in CHARS /\ Driver!Meaning(k) \in CHARS
  BY <1>1, SameMaps, Zenon DEF KEYS, CHARS
<1>4. b \in Codes
  BY <1>1, <1>3, Zenon DEF Driver!Byte, Codes
<1>5. Meant(b, Held)
  BY <1>2, SameMaps, Zenon DEF Meant
<1>6. Driver!E0 \in Codes /\ Driver!E0.code = "E0"
  BY <1>3, Zenon DEF Driver!E0, Driver!Byte, Codes
<1>7. After(Driver!E0, Held) = Held /\ Meant(Driver!E0, Held)
  BY <1>1, <1>6, Zenon DEF After, Meant, Held
<1> DEFINE p == IF k \in Driver!Arrows THEN Append(kb_port, Driver!E0) ELSE kb_port
<1> HIDE DEF b
<1>8. kb_port' = Append(p, b)
  BY <1>1, <1>4, <1>6 DEF Driver!Strike, Driver!Codes, b
<1>9. p \in Seq(Codes) /\ Stream(p, Known, Held)
  <2>1. Append(kb_port, Driver!E0) \in Seq(Codes)
    BY <1>1, <1>6
  <2>2. Stream(Append(kb_port, Driver!E0), Known, Held)
    BY <1>1, <1>6, <1>7, StreamAppend, Zenon
  <2> QED
    BY <1>1, <2>1, <2>2, Zenon
<1>10. \A i \in 1..Len(p) : p[i].code # "caps"
  <2>1. \A i \in 1..Len(kb_port) : kb_port[i].code # "caps"
    BY <1>1 DEF Driver!Strike, KeyboardFits
  <2> QED
    BY <1>1, <1>6, <2>1
<1> HIDE DEF p
<1>11. Held' = After(b, Held)
  <2>1. ("shift" \in down') = IF b.code = "shift" THEN ~b.release ELSE Held.shift
    BY <1>2 DEF Driver!Strike, Held
  <2>2. ("ctrl" \in down') = IF b.code = "ctrl" THEN ~b.release ELSE Held.ctrl
    BY <1>2 DEF Driver!Strike, Held
  <2>3. caps' = IF b.code = "caps" /\ ~b.release THEN ~Held.caps ELSE Held.caps
    BY <1>2, Zenon DEF Driver!Strike, Held
  <2> QED
    BY <2>1, <2>2, <2>3, ModsAre DEF Held
<1>12. /\ Known' = Known
       /\ UNCHANGED <<keys, due, keyboard_buffer, buffer_head, buffer_tail, reader, kb_c, led_state, caps_on>>
  BY Zenon DEF Known, Driver!Strike
<1>13. Stream(kb_port', Known', Held') /\ Held' \in Mods
  BY <1>1, <1>4, <1>5, <1>8, <1>9, <1>11, <1>12, StreamAppend, AfterType, Zenon
<1>14. kb_port' \in Seq(Codes) /\ CapsLast'
  BY <1>4, <1>8, <1>9, <1>10 DEF CapsLast
<1> QED
  BY <1>1, <1>12, <1>13, <1>14, Zenon DEF KbInv, KbTyped, RingInv

\* The ring holds, in order, what the keys meant when they were hit, the reader gets the oldest
\* however the handler interrupts it, and the driver knows the modifiers, as long as no key is
\* hit while it sets the LEDs: for a ring of any size (keyboard_handle_scancode,
\* keyboard_buffer_write, keyboard_buffer_read).
THEOREM KeyboardSound ==
    ASSUME KeyboardFits
    PROVE  Driver!KbSpec => [](Driver!KeysInOrder /\ Driver!ModifiersFollow)
<1> DEFINE n == KEYBOARD_BUFFER_SIZE
<1>1. Driver!KbInit => KbInv
  <2> SUFFICES ASSUME Driver!KbInit
               PROVE  KbInv
    OBVIOUS
  <2>1. Known = Held /\ Known \in Mods
    <3>1. ("shift" \in down) = FALSE /\ ("ctrl" \in down) = FALSE
      BY DEF Driver!KbInit
    <3>2. Known = [shift |-> FALSE, ctrl |-> FALSE, caps |-> FALSE] /\ Held = Known
      BY <3>1, Zenon DEF Driver!KbInit, Known, Held
    <3> QED
      BY <3>2, Zenon DEF Mods
  <2>2. Len(<<>>) = 0 /\ 0 \in 0..(n - 1) /\ <<>> \in Seq(Codes) /\ <<>> \in Seq(CHARS) /\ (\A i \in 1..0 : FALSE)
    BY DEF KeyboardFits
  <2>3. Queued(n, keyboard_buffer, 0, 0, <<>>)
    <3>1. At(n, 0 + 0) = 0
      BY DEF At, KeyboardFits
    <3> QED
      BY <2>2, <3>1, Zenon DEF Queued
  <2>4. Stream(kb_port, Known, Held) /\ CapsLast
    BY <2>1, <2>2, StreamEmpty, Zenon DEF Driver!KbInit, CapsLast
  <2>5. KbTyped
    BY <2>1, <2>2, Zenon DEF KbTyped, Driver!KbInit, KeyboardFits, CHARS
  <2> QED
    BY <2>3, <2>4, <2>5, Zenon DEF KbInv, RingInv, Driver!KbInit
<1>2. KbInv /\ [Driver!KbNext]_Driver!kb_vars => KbInv'
  <2> SUFFICES ASSUME KbInv, [Driver!KbNext]_Driver!kb_vars
               PROVE  KbInv'
    OBVIOUS
  <2>1. CASE UNCHANGED Driver!kb_vars
    BY <2>1, Zenon DEF Driver!kb_vars, KbInv, KbTyped, CapsLast, Known, Held, RingInv
  <2> QED
    BY <2>1, HandlerSound, ReaderSound, StrikeSound, Zenon DEF Driver!KbNext
<1>3. KbInv => Driver!KeysInOrder /\ Driver!ModifiersFollow
  <2> SUFFICES ASSUME KbInv
               PROVE  Driver!KeysInOrder /\ Driver!ModifiersFollow
    OBVIOUS
  <2>1. /\ n \in Nat \ {0} /\ due \in Seq(CHARS) /\ buffer_tail \in 0..(n - 1)
        /\ Queued(n, keyboard_buffer, buffer_tail, buffer_head, due) /\ (reader = "move" => kb_c = due[1])
    BY Zenon DEF KeyboardFits, KbInv, KbTyped, RingInv
  <2> DEFINE w == Len(due)
             t == buffer_tail
  <2>2. w \in 0..(n - 1) /\ buffer_head = At(n, t + w) /\ \A k \in 1..w : keyboard_buffer[At(n, t + k - 1)] = due[k]
    BY <2>1, Zenon DEF Queued
  <2> HIDE DEF w, n, t
  <2>3. t \in 0..(n - 1) /\ n \in Nat \ {0}
    BY <2>1, Zenon DEF t
  <2>4. Driver!Waiting = w
    <3>1. buffer_head - t + n \in 0..(2 * n - 1) /\ (buffer_head - t + n = w \/ buffer_head - t + n = w + n)
      BY <2>2, <2>3 DEF At
    <3>2. Rounds(n, buffer_head - t + n, (buffer_head - t + n) % n)
      BY <2>3, <3>1, OnceRound, Zenon
    <3> QED
      BY <2>2, <2>3, <3>1, <3>2 DEF Rounds, Driver!Waiting, n, t
  <2>5. ASSUME NEW i \in 1..w
        PROVE  keyboard_buffer[(t + i - 1) % n] = due[i]
    <3>1. t + i - 1 \in 0..(2 * n - 1)
      BY <2>2, <2>3
    <3>2. (t + i - 1) % n = At(n, t + i - 1)
      BY <2>3, <3>1, OnceRound, Zenon DEF Rounds, At
    <3> QED
      BY <2>2, <3>2, Zenon
  <2>6. Driver!KeysInOrder
    BY <2>1, <2>4, <2>5, Zenon DEF Driver!KeysInOrder, w, n, t
  <2>7. kb_port = <<>> => Known = Held
    BY StreamEmpty, Zenon DEF KbInv, KbTyped
  <2>8. Driver!ModifiersFollow
    BY <2>7, Zenon DEF Driver!ModifiersFollow, Known, Held, KbInv, KbTyped
  <2> QED
    BY <2>6, <2>8, Zenon
<1> QED
  BY <1>1, <1>2, <1>3, PTL DEF Driver!KbSpec

-----------------------------------------------------------------------------
(* Sequences *)

\* A sequence without elements.
LEMMA NoElements ==
    ASSUME NEW S, NEW q \in Seq(S), \A i \in 1..Len(q) : FALSE
    PROVE  q = <<>>
<1>1. Len(q) \in Nat
  OBVIOUS
<1>2. Len(q) = 0
  BY <1>1
<1> QED
  BY <1>2

\* What is in q, which is p with d behind it, and in q, which is p without its first.
Grown(q, p, d) ==
    Len(q) = Len(p) + 1 /\ \A i \in 1..Len(q) : (i \in 1..Len(p) /\ q[i] = p[i]) \/ q[i] = d
Shrunk(q, p) ==
    /\ Len(q) <= Len(p) /\ Len(p) \in Nat /\ Len(q) \in Nat
    /\ \A i \in 1..Len(q) : \E j \in 1..Len(p) : q[i] = p[j]

\* What Append and Tail leave in a sequence.
LEMMA AppendElements ==
    ASSUME NEW S, NEW p \in Seq(S), NEW d \in S
    PROVE  Append(p, d) \in Seq(S) /\ Grown(Append(p, d), p, d)
BY DEF Grown

\* The elements of the tail are elements of the whole.
LEMMA TailElements ==
    ASSUME NEW S, NEW p \in Seq(S), p # <<>>
    PROVE  Tail(p) \in Seq(S) /\ Shrunk(Tail(p), p)
<1> DEFINE q == Tail(p)
<1>1. q \in Seq(S) /\ Len(q) = Len(p) - 1 /\ Len(p) \in Nat \ {0}
  OBVIOUS
<1>2. \A i \in 1..(Len(p) - 1) : q[i] = p[i + 1]
  OBVIOUS
<1> HIDE DEF q
<1>3. ASSUME NEW i \in 1..Len(q)
      PROVE  \E j \in 1..Len(p) : q[i] = p[j]
  <2>1. i + 1 \in 1..Len(p) /\ i \in 1..(Len(p) - 1)
    BY <1>1
  <2> QED
    BY <1>2, <2>1
<1>4. Len(q) <= Len(p) /\ Len(q) \in Nat
  BY <1>1
<1> QED
  BY <1>1, <1>3, <1>4, Zenon DEF Shrunk, q

\* One sequence behind the other.
LEMMA Joined ==
    ASSUME NEW S, NEW a \in Seq(S), NEW b \in Seq(S)
    PROVE  /\ a \o b \in Seq(S) /\ Len(a \o b) = Len(a) + Len(b)
           /\ \A i \in 1..Len(a) : (a \o b)[i] = a[i]
           /\ \A i \in (Len(a) + 1)..(Len(a) + Len(b)) : (a \o b)[i] = b[i - Len(a)]
OBVIOUS

-----------------------------------------------------------------------------
(* The rings of the NIC *)

CONSTANTS NUM_RX, NUM_TX, Mod
VARIABLES rx, rx_cur, rdh, rdt, polling, arrived, taken, tx, tx_cur, tdh, tdt, accepted, wire

\* A ring of n places, of which those in D hold something, numbered modulo m from a on: w of
\* them in a row, from c on.
Holding(n, m, D, f, c, w, a) ==
    \A i \in 0..(n - 1) : /\ i \in D <=> Behind(n, i, c) < w
                          /\ i \in D => f[i] = At(m, a + Behind(n, i, c))

\* Of the n places, E and g have in addition to D and f what is at h.
Adds(n, D, f, E, g, h) == \A i \in 0..(n - 1) : (i \in E <=> i \in D \/ i = h) /\ (i # h => g[i] = f[i])

\* Of the n places, E and g have not what D and f have at h.
Drops(n, D, f, E, g, h) == \A i \in 0..(n - 1) : (i \in E <=> i \in D /\ i # h) /\ g[i] = f[i]

\* Behind the last one there is room for one more.
LEMMA PutNext ==
    ASSUME NEW n \in Nat \ {0}, NEW m \in Nat, n <= m, NEW c \in 0..(n - 1), NEW w \in 0..(n - 1),
           NEW a \in 0..(m - 1), NEW D, NEW f, Holding(n, m, D, f, c, w, a),
           NEW E, NEW g, NEW h \in 0..(n - 1), h = At(n, c + w), g[h] = At(m, a + w),
           Adds(n, D, f, E, g, h)
    PROVE  Holding(n, m, E, g, c, w + 1, a)
<1> SUFFICES ASSUME NEW i \in 0..(n - 1)
             PROVE  /\ i \in E <=> Behind(n, i, c) < w + 1
                    /\ i \in E => g[i] = At(m, a + Behind(n, i, c))
  BY Zenon DEF Holding
<1>1. Behind(n, h, c) = w
  BY DEF Behind, At
<1>2. CASE i = h
  BY <1>1, <1>2 DEF Adds
<1>3. CASE i # h
  <2>1. Behind(n, i, c) # w /\ Behind(n, i, c) \in 0..(n - 1)
    BY <1>3 DEF Behind, At
  <2>2. Behind(n, i, c) < w + 1 <=> Behind(n, i, c) < w
    BY <2>1
  <2> QED
    BY <1>3, <2>2, Zenon DEF Holding, Adds
<1> QED
  BY <1>2, <1>3, Zenon

\* Without the first one there is one less.
LEMMA TakeFirst ==
    ASSUME NEW n \in Nat \ {0}, NEW m \in Nat, n <= m, NEW c \in 0..(n - 1), NEW w \in 1..n,
           NEW a \in 0..(m - 1), NEW D, NEW f, Holding(n, m, D, f, c, w, a),
           NEW E, NEW g, Drops(n, D, f, E, g, c)
    PROVE  Holding(n, m, E, g, Following(n, c), w - 1, Following(m, a))
<1> DEFINE e == Following(n, c)
           b == Following(m, a)
<1> SUFFICES ASSUME NEW i \in 0..(n - 1)
             PROVE  /\ i \in E <=> Behind(n, i, e) < w - 1
                    /\ i \in E => g[i] = At(m, b + Behind(n, i, e))
  BY Zenon DEF Holding
<1>1. CASE i = c
  <2>1. Behind(n, i, e) = n - 1
    BY <1>1 DEF Behind, Following
  <2> QED
    BY <1>1, <2>1 DEF Drops
<1>2. CASE i # c
  <2>1. Behind(n, i, e) = Behind(n, i, c) - 1 /\ Behind(n, i, c) \in 1..(n - 1)
    BY <1>2 DEF Behind, Following
  <2>2. At(m, b + Behind(n, i, e)) = At(m, a + Behind(n, i, c))
    <3> DEFINE k == Behind(n, i, c)
    <3> HIDE DEF k
    <3>1. k \in 1..(n - 1) /\ At(m, b + (k - 1)) = At(m, a + k)
      BY <2>1 DEF At, Following, k
    <3> QED
      BY <2>1, <3>1, Zenon DEF k
  <2>3. Behind(n, i, e) < w - 1 <=> Behind(n, i, c) < w
    BY <2>1
  <2> QED
    BY <1>2, <2>2, <2>3, Zenon DEF Holding, Drops
<1> QED
  BY <1>1, <1>2, Zenon

\* The k-th of them.
LEMMA KthHeld ==
    ASSUME NEW n \in Nat \ {0}, NEW m \in Nat, n <= m, NEW c \in 0..(n - 1), NEW w \in 0..n,
           NEW a \in 0..(m - 1), NEW D, NEW f, Holding(n, m, D, f, c, w, a), NEW k \in 0..(w - 1)
    PROVE  At(n, c + k) \in 0..(n - 1) /\ f[At(n, c + k)] = At(m, a + k)
<1> DEFINE i == At(n, c + k)
<1>1. i \in 0..(n - 1) /\ Behind(n, i, c) = k
  BY DEF At, Behind
<1>2. Behind(n, i, c) < w
  BY <1>1
<1> HIDE DEF i
<1> QED
  BY <1>1, <1>2, Zenon DEF Holding, i

Nic == INSTANCE E1000

\* The sizes of the rings; frames are told apart that are in a ring together.
NicFits ==
    /\ NUM_RX \in Nat \ {0} /\ NUM_TX \in Nat \ {0}
    /\ Mod \in Nat /\ NUM_RX <= Mod /\ NUM_TX <= Mod

RxFull == {i \in Nic!RxRing : rx[i].dd}
TxFull == {i \in Nic!TxRing : ~tx[i].dd}
RxFrames == [i \in Nic!RxRing |-> rx[i].frame]
TxFrames == [i \in Nic!TxRing |-> tx[i].frame]

\* w frames wait for the driver; one descriptor is never the NIC's.
RxHolds(w) ==
    /\ Holding(NUM_RX, Mod, RxFull, RxFrames, rx_cur, w, taken)
    /\ rdh = At(NUM_RX, rx_cur + w) /\ arrived = At(Mod, taken + w)
    /\ Following(NUM_RX, rdt) = rx_cur

\* w frames wait for the NIC, all descriptors if the driver was quick.
TxHolds(w) ==
    /\ Holding(NUM_TX, Mod, TxFull, TxFrames, tdh, w, wire)
    /\ tdt = At(NUM_TX, tdh + w) /\ accepted = At(Mod, wire + w) /\ tx_cur = tdt

NicTyped ==
    /\ rx \in [Nic!RxRing -> Nic!Slot] /\ rx_cur \in Nic!RxRing /\ rdh \in Nic!RxRing /\ rdt \in Nic!RxRing
    /\ tx \in [Nic!TxRing -> Nic!Slot] /\ tx_cur \in Nic!TxRing /\ tdh \in Nic!TxRing /\ tdt \in Nic!TxRing
    /\ polling \in BOOLEAN
    /\ arrived \in 0..(Mod - 1) /\ taken \in 0..(Mod - 1) /\ accepted \in 0..(Mod - 1) /\ wire \in 0..(Mod - 1)

RxInv == (polling => rx[rx_cur].dd) /\ \E w \in 0..(NUM_RX - 1) : RxHolds(w)
TxInv == \E w \in 0..NUM_TX : TxHolds(w)

\* A frame comes in.
LEMMA ReceiveSound ==
    ASSUME NicFits, NicTyped, RxInv, Nic!NicReceive
    PROVE  rx' \in [Nic!RxRing -> Nic!Slot] /\ rdh' \in Nic!RxRing /\ arrived' \in 0..(Mod - 1) /\ RxInv'
<1>1. PICK w \in 0..(NUM_RX - 1) : RxHolds(w)
  BY Zenon DEF RxInv
<1> DEFINE s == [dd |-> TRUE, frame |-> arrived]
<1>2. /\ rdh # rdt /\ rx' = [rx EXCEPT ![rdh] = s]
      /\ rdh' = (rdh + 1) % NUM_RX /\ arrived' = (arrived + 1) % Mod
      /\ rx_cur' = rx_cur /\ rdt' = rdt /\ polling' = polling /\ taken' = taken
  BY Zenon DEF Nic!NicReceive
<1>3. NUM_RX \in Nat \ {0} /\ Mod \in Nat \ {0} /\ Mod \in Nat /\ NUM_RX <= Mod
  BY DEF NicFits
<1>4. rdh \in 0..(NUM_RX - 1) /\ rdt \in 0..(NUM_RX - 1) /\ rx_cur \in 0..(NUM_RX - 1)
      /\ arrived \in 0..(Mod - 1) /\ taken \in 0..(Mod - 1)
  BY Zenon DEF NicTyped, Nic!RxRing
<1>5. rdh' = Following(NUM_RX, rdh) /\ rdh' \in 0..(NUM_RX - 1)
  BY <1>2, <1>3, <1>4, FollowingModulo, Zenon
<1>6. arrived' = Following(Mod, arrived) /\ arrived' \in 0..(Mod - 1)
  BY <1>2, <1>3, <1>4, FollowingModulo, Zenon
<1>7. rdh = At(NUM_RX, rx_cur + w) /\ arrived = At(Mod, taken + w) /\ Following(NUM_RX, rdt) = rx_cur
  BY <1>1, Zenon DEF RxHolds
<1>8. w + 1 \in 0..(NUM_RX - 1) /\ w \in 0..(Mod - 1)
  BY <1>2, <1>3, <1>4, <1>7 DEF At, Following
<1>9. s \in Nic!Slot /\ s.dd /\ s.frame = arrived
  BY <1>4 DEF Nic!Slot
<1> HIDE DEF s
<1>10. rx' \in [Nic!RxRing -> Nic!Slot]
  BY <1>2, <1>9, Zenon DEF NicTyped
<1>11. \A i \in Nic!RxRing : rx'[i] = IF i = rdh THEN s ELSE rx[i]
  BY <1>2, <1>9, Zenon DEF NicTyped
<1>12. RxFrames'[rdh] = At(Mod, taken + w) /\ Adds(NUM_RX, RxFull, RxFrames, RxFull', RxFrames', rdh)
  BY <1>4, <1>7, <1>9, <1>11 DEF RxFrames, RxFull, Adds, Nic!RxRing
<1>13. Holding(NUM_RX, Mod, RxFull', RxFrames', rx_cur, w + 1, taken)
  <2>1. Holding(NUM_RX, Mod, RxFull, RxFrames, rx_cur, w, taken)
    BY <1>1, Zenon DEF RxHolds
  <2> QED
    BY <1>3, <1>4, <1>7, <1>12, <2>1, PutNext, Zenon
<1>14. rdh' = At(NUM_RX, rx_cur + (w + 1)) /\ arrived' = At(Mod, taken + (w + 1))
  BY <1>3, <1>4, <1>5, <1>6, <1>7, <1>8, NextAt, Zenon
<1>15. RxHolds(w + 1)'
  BY <1>2, <1>7, <1>13, <1>14, Zenon DEF RxHolds
<1>16. polling' => rx'[rx_cur'].dd
  BY <1>2, <1>9, <1>11 DEF NicTyped, RxInv
<1> QED
  BY <1>5, <1>6, <1>8, <1>10, <1>15, <1>16, Zenon DEF RxInv, Nic!RxRing

\* The driver hands a descriptor back.
LEMMA ReturnSound ==
    ASSUME NicFits, NicTyped, RxInv, Nic!PollReturn
    PROVE  /\ rx' \in [Nic!RxRing -> Nic!Slot] /\ rx_cur' \in Nic!RxRing /\ rdt' \in Nic!RxRing
           /\ taken' \in 0..(Mod - 1) /\ RxInv'
<1>1. PICK w \in 0..(NUM_RX - 1) : RxHolds(w)
  BY Zenon DEF RxInv
<1>2. /\ polling /\ polling' = FALSE /\ rx' = [rx EXCEPT ![rx_cur].dd = FALSE]
      /\ rx_cur' = (rx_cur + 1) % NUM_RX /\ rdt' = rx_cur /\ taken' = (taken + 1) % Mod
      /\ rdh' = rdh /\ arrived' = arrived
  BY Zenon DEF Nic!PollReturn
<1>3. NUM_RX \in Nat \ {0} /\ Mod \in Nat \ {0} /\ Mod \in Nat /\ NUM_RX <= Mod
  BY DEF NicFits
<1>4. rx_cur \in 0..(NUM_RX - 1) /\ taken \in 0..(Mod - 1)
  BY Zenon DEF NicTyped, Nic!RxRing
<1>5. rx_cur' = Following(NUM_RX, rx_cur) /\ rx_cur' \in 0..(NUM_RX - 1)
  BY <1>2, <1>3, <1>4, FollowingModulo, Zenon
<1>6. taken' = Following(Mod, taken) /\ taken' \in 0..(Mod - 1)
  BY <1>2, <1>3, <1>4, FollowingModulo, Zenon
<1>7. Holding(NUM_RX, Mod, RxFull, RxFrames, rx_cur, w, taken)
      /\ rdh = At(NUM_RX, rx_cur + w) /\ arrived = At(Mod, taken + w)
  BY <1>1, Zenon DEF RxHolds
<1>8. w \in 1..NUM_RX /\ w \in 1..Mod /\ w - 1 \in 0..(NUM_RX - 1)
  <2>1. rx_cur \in RxFull
    BY <1>2, <1>4, Zenon DEF RxInv, RxFull, Nic!RxRing
  <2>2. Behind(NUM_RX, rx_cur, rx_cur) < w
    BY <1>4, <1>7, <2>1, Zenon DEF Holding
  <2> QED
    BY <1>3, <1>4, <2>2 DEF Behind
<1>9. rx' \in [Nic!RxRing -> Nic!Slot]
  BY <1>2, Zenon DEF NicTyped, Nic!Slot
<1>10. \A i \in Nic!RxRing : rx'[i].frame = rx[i].frame /\ rx'[i].dd = (rx[i].dd /\ i # rx_cur)
  BY <1>2, Zenon DEF NicTyped, Nic!Slot
<1>11. Drops(NUM_RX, RxFull, RxFrames, RxFull', RxFrames', rx_cur)
  BY <1>10, Zenon DEF RxFull, RxFrames, Drops, Nic!RxRing
<1>12. Holding(NUM_RX, Mod, RxFull', RxFrames', rx_cur', w - 1, taken')
  BY <1>3, <1>4, <1>5, <1>6, <1>7, <1>8, <1>11, TakeFirst, Zenon
<1>13. rdh' = At(NUM_RX, rx_cur' + (w - 1)) /\ arrived' = At(Mod, taken' + (w - 1))
  <2>1. At(NUM_RX, Following(NUM_RX, rx_cur) + (w - 1)) = At(NUM_RX, rx_cur + w)
    BY <1>3, <1>4, <1>8, LessAt, Zenon
  <2>2. At(Mod, Following(Mod, taken) + (w - 1)) = At(Mod, taken + w)
    BY <1>3, <1>4, <1>8, LessAt, Zenon
  <2> QED
    BY <1>2, <1>5, <1>6, <1>7, <2>1, <2>2
<1>14. RxHolds(w - 1)'
  BY <1>2, <1>5, <1>12, <1>13, Zenon DEF RxHolds
<1> QED
  BY <1>2, <1>4, <1>5, <1>6, <1>8, <1>9, <1>14, Zenon DEF RxInv, Nic!RxRing

\* The driver sends a frame, into a descriptor that has been transmitted.
LEMMA SendSound ==
    ASSUME NicFits, NicTyped, TxInv, Nic!e1000_send
    PROVE  /\ tx' \in [Nic!TxRing -> Nic!Slot] /\ tx_cur' \in Nic!TxRing /\ tdt' \in Nic!TxRing
           /\ accepted' \in 0..(Mod - 1) /\ TxInv'
<1>1. PICK w \in 0..NUM_TX : TxHolds(w)
  BY Zenon DEF TxInv
<1>2. /\ tx[tx_cur].dd /\ tx' = [tx EXCEPT ![tx_cur] = [@ EXCEPT !.dd = FALSE, !.frame = accepted]]
      /\ tx_cur' = (tx_cur + 1) % NUM_TX /\ tdt' = (tx_cur + 1) % NUM_TX
      /\ accepted' = (accepted + 1) % Mod /\ tdh' = tdh /\ wire' = wire
  BY Zenon DEF Nic!e1000_send
<1>3. NUM_TX \in Nat \ {0} /\ Mod \in Nat \ {0} /\ Mod \in Nat /\ NUM_TX <= Mod
  BY DEF NicFits
<1>4. tx_cur \in 0..(NUM_TX - 1) /\ tdh \in 0..(NUM_TX - 1) /\ accepted \in 0..(Mod - 1) /\ wire \in 0..(Mod - 1)
  BY Zenon DEF NicTyped, Nic!TxRing
<1>5. Holding(NUM_TX, Mod, TxFull, TxFrames, tdh, w, wire)
      /\ tdt = At(NUM_TX, tdh + w) /\ accepted = At(Mod, wire + w) /\ tx_cur = tdt
  BY <1>1, Zenon DEF TxHolds
<1>6. w \in 0..(NUM_TX - 1) /\ w + 1 \in 0..NUM_TX /\ w \in 0..(Mod - 1)
  <2>1. tx_cur \notin TxFull
    BY <1>2, Zenon DEF TxFull
  <2>2. ~(Behind(NUM_TX, tx_cur, tdh) < w)
    BY <1>4, <1>5, <2>1, Zenon DEF Holding
  <2>3. Behind(NUM_TX, tx_cur, tdh) \in 0..(NUM_TX - 1)
    BY <1>3, <1>4, BehindModulo, Zenon
  <2> QED
    BY <1>3, <2>2, <2>3
<1>7. tx_cur' = Following(NUM_TX, tx_cur) /\ tx_cur' \in 0..(NUM_TX - 1) /\ tdt' = tx_cur'
  BY <1>2, <1>3, <1>4, FollowingModulo, Zenon
<1>8. accepted' = Following(Mod, accepted) /\ accepted' \in 0..(Mod - 1)
  BY <1>2, <1>3, <1>4, FollowingModulo, Zenon
<1>9. tx' \in [Nic!TxRing -> Nic!Slot]
  BY <1>2, <1>4 DEF NicTyped, Nic!Slot
<1>10. /\ tx'[tx_cur].dd = FALSE /\ tx'[tx_cur].frame = accepted
       /\ \A i \in Nic!TxRing : i # tx_cur => tx'[i] = tx[i]
  BY <1>2 DEF NicTyped, Nic!Slot
<1>11. TxFrames'[tx_cur] = At(Mod, wire + w) /\ Adds(NUM_TX, TxFull, TxFrames, TxFull', TxFrames', tx_cur)
  BY <1>4, <1>5, <1>10 DEF TxFrames, TxFull, Adds, Nic!TxRing
<1>12. Holding(NUM_TX, Mod, TxFull', TxFrames', tdh, w + 1, wire)
  BY <1>3, <1>4, <1>5, <1>6, <1>11, PutNext, Zenon
<1>13. tdt' = At(NUM_TX, tdh + (w + 1)) /\ accepted' = At(Mod, wire + (w + 1))
  BY <1>3, <1>4, <1>5, <1>6, <1>7, <1>8, NextAt, Zenon
<1>14. TxHolds(w + 1)'
  BY <1>2, <1>7, <1>12, <1>13, Zenon DEF TxHolds
<1> QED
  BY <1>6, <1>7, <1>8, <1>9, <1>14, Zenon DEF TxInv, Nic!TxRing

\* The NIC transmits a frame.
LEMMA TransmitSound ==
    ASSUME NicFits, NicTyped, TxInv, Nic!NicTransmit
    PROVE  tx' \in [Nic!TxRing -> Nic!Slot] /\ tdh' \in Nic!TxRing /\ wire' \in 0..(Mod - 1) /\ TxInv'
<1>1. PICK w \in 0..NUM_TX : TxHolds(w)
  BY Zenon DEF TxInv
<1>2. /\ tdh # tdt /\ tx' = [tx EXCEPT ![tdh].dd = TRUE] /\ tdh' = (tdh + 1) % NUM_TX /\ wire' = (wire + 1) % Mod
      /\ tx_cur' = tx_cur /\ tdt' = tdt /\ accepted' = accepted
  BY Zenon DEF Nic!NicTransmit
<1>3. NUM_TX \in Nat \ {0} /\ Mod \in Nat \ {0} /\ Mod \in Nat /\ NUM_TX <= Mod
  BY DEF NicFits
<1>4. tdh \in 0..(NUM_TX - 1) /\ wire \in 0..(Mod - 1)
  BY Zenon DEF NicTyped, Nic!TxRing
<1>5. Holding(NUM_TX, Mod, TxFull, TxFrames, tdh, w, wire)
      /\ tdt = At(NUM_TX, tdh + w) /\ accepted = At(Mod, wire + w) /\ tx_cur = tdt
  BY <1>1, Zenon DEF TxHolds
<1>6. w \in 1..NUM_TX /\ w \in 1..Mod /\ w - 1 \in 0..NUM_TX
  BY <1>2, <1>3, <1>4, <1>5 DEF At
<1>7. tdh' = Following(NUM_TX, tdh) /\ tdh' \in 0..(NUM_TX - 1)
  BY <1>2, <1>3, <1>4, FollowingModulo, Zenon
<1>8. wire' = Following(Mod, wire) /\ wire' \in 0..(Mod - 1)
  BY <1>2, <1>3, <1>4, FollowingModulo, Zenon
<1>9. tx' \in [Nic!TxRing -> Nic!Slot]
  BY <1>2, Zenon DEF NicTyped, Nic!Slot
<1>10. \A i \in Nic!TxRing : tx'[i].frame = tx[i].frame /\ (~tx'[i].dd <=> ~tx[i].dd /\ i # tdh)
  BY <1>2, Zenon DEF NicTyped, Nic!Slot
<1>11. Drops(NUM_TX, TxFull, TxFrames, TxFull', TxFrames', tdh)
  BY <1>10, Zenon DEF TxFull, TxFrames, Drops, Nic!TxRing
<1>12. Holding(NUM_TX, Mod, TxFull', TxFrames', tdh', w - 1, wire')
  BY <1>3, <1>4, <1>5, <1>6, <1>7, <1>8, <1>11, TakeFirst, Zenon
<1>13. tdt' = At(NUM_TX, tdh' + (w - 1)) /\ accepted' = At(Mod, wire' + (w - 1))
  <2>1. At(NUM_TX, Following(NUM_TX, tdh) + (w - 1)) = At(NUM_TX, tdh + w)
    BY <1>3, <1>4, <1>6, LessAt, Zenon
  <2>2. At(Mod, Following(Mod, wire) + (w - 1)) = At(Mod, wire + w)
    BY <1>3, <1>4, <1>6, LessAt, Zenon
  <2> QED
    BY <1>2, <1>5, <1>7, <1>8, <2>1, <2>2
<1>14. TxHolds(w - 1)'
  BY <1>2, <1>5, <1>12, <1>13, Zenon DEF TxHolds
<1> QED
  BY <1>6, <1>7, <1>8, <1>9, <1>14, Zenon DEF TxInv, Nic!TxRing

NicInv == NicTyped /\ RxInv /\ TxInv

\* The rings as e1000_init_rx and e1000_init_tx leave them.
LEMMA NicInitInv ==
    ASSUME NicFits, Nic!Init
    PROVE  NicInv
<1>1. NicTyped
  <2>1. 0 \in 0..(Mod - 1) /\ 0 \in Nic!RxRing /\ 0 \in Nic!TxRing /\ NUM_RX - 1 \in Nic!RxRing
    BY DEF NicFits, Nic!RxRing, Nic!TxRing
  <2>2. rx \in [Nic!RxRing -> Nic!Slot] /\ tx \in [Nic!TxRing -> Nic!Slot]
    BY <2>1, Zenon DEF Nic!Init, Nic!Slot
  <2> QED
    BY <2>1, <2>2, Zenon DEF Nic!Init, NicTyped
<1>2. RxFull = {} /\ TxFull = {}
  BY DEF Nic!Init, RxFull, TxFull
<1>3. \A n \in Nat \ {0} : \A i \in 0..(n - 1) : ~(Behind(n, i, 0) < 0)
  BY DEF Behind
<1>4. Holding(NUM_RX, Mod, {}, RxFrames, 0, 0, 0) /\ Holding(NUM_TX, Mod, {}, TxFrames, 0, 0, 0)
  BY <1>3, Zenon DEF Holding, NicFits
<1>5. RxHolds(0) /\ TxHolds(0)
  BY <1>2, <1>4 DEF RxHolds, TxHolds, Nic!Init, NicFits, At, Following
<1>6. 0 \in 0..(NUM_RX - 1) /\ 0 \in 0..NUM_TX /\ ~polling
  BY DEF NicFits, Nic!Init
<1> QED
  BY <1>1, <1>5, <1>6, Zenon DEF NicInv, RxInv, TxInv

\* What one half of the driver does is nothing to the other.
LEMMA NicNextInv ==
    ASSUME NicFits, NicInv, [Nic!Next]_Nic!e1000Vars
    PROVE  NicInv'
<1>1. ASSUME UNCHANGED Nic!txVars
      PROVE  TxInv'
  BY <1>1, Zenon DEF Nic!txVars, NicInv, TxInv, TxHolds, TxFull, TxFrames
<1>2. ASSUME UNCHANGED Nic!rxVars
      PROVE  RxInv'
  BY <1>2, Zenon DEF Nic!rxVars, NicInv, RxInv, RxHolds, RxFull, RxFrames
<1>3. CASE Nic!NicReceive
  BY <1>1, <1>3, ReceiveSound, Zenon DEF NicInv, NicTyped, Nic!NicReceive, Nic!txVars
<1>4. CASE Nic!PollInput
  BY <1>1, <1>4, Zenon DEF NicInv, NicTyped, Nic!PollInput, Nic!txVars, RxInv, RxHolds, RxFull, RxFrames
<1>5. CASE Nic!PollReturn
  BY <1>1, <1>5, ReturnSound, Zenon DEF NicInv, NicTyped, Nic!PollReturn, Nic!txVars
<1>6. CASE Nic!e1000_send
  BY <1>2, <1>6, SendSound, Zenon DEF NicInv, NicTyped, Nic!e1000_send, Nic!rxVars
<1>7. CASE Nic!NicTransmit
  BY <1>2, <1>7, TransmitSound, Zenon DEF NicInv, NicTyped, Nic!NicTransmit, Nic!rxVars
<1>8. CASE UNCHANGED Nic!e1000Vars
  BY <1>1, <1>2, <1>8, Zenon DEF Nic!e1000Vars, Nic!rxVars, Nic!txVars, NicInv, NicTyped
<1> QED
  BY <1>3, <1>4, <1>5, <1>6, <1>7, <1>8, Zenon DEF Nic!Next

\* The invariant gives what is to be shown.
LEMMA NicEnough ==
    ASSUME NicFits, NicInv
    PROVE  Nic!TypeOK /\ Nic!RxInOrder /\ Nic!TxNotOverwritten
<1>1. PICK w \in 0..(NUM_RX - 1) : RxHolds(w)
  BY Zenon DEF NicInv, RxInv
<1>2. PICK v \in 0..NUM_TX : TxHolds(v)
  BY Zenon DEF NicInv, TxInv
<1>3. NUM_RX \in Nat \ {0} /\ NUM_TX \in Nat \ {0} /\ Mod \in Nat \ {0} /\ Mod \in Nat /\ NUM_RX <= Mod /\ NUM_TX <= Mod
  BY DEF NicFits
<1>4. /\ rx_cur \in 0..(NUM_RX - 1) /\ rdh \in 0..(NUM_RX - 1) /\ rdt \in 0..(NUM_RX - 1) /\ taken \in 0..(Mod - 1)
      /\ tdh \in 0..(NUM_TX - 1) /\ tdt \in 0..(NUM_TX - 1) /\ wire \in 0..(Mod - 1)
  BY Zenon DEF NicInv, NicTyped, Nic!RxRing, Nic!TxRing
<1>5. /\ Holding(NUM_RX, Mod, RxFull, RxFrames, rx_cur, w, taken)
      /\ rdh = At(NUM_RX, rx_cur + w) /\ arrived = At(Mod, taken + w) /\ Following(NUM_RX, rdt) = rx_cur
  BY <1>1, Zenon DEF RxHolds
<1>6. /\ Holding(NUM_TX, Mod, TxFull, TxFrames, tdh, v, wire) /\ tdt = At(NUM_TX, tdh + v)
  BY <1>2, Zenon DEF TxHolds
<1>7. Nic!TypeOK
  BY Zenon DEF NicInv, NicTyped, Nic!TypeOK
<1>8. Nic!Waiting = w
  <2>1. (rdh - rx_cur) % NUM_RX = Behind(NUM_RX, rdh, rx_cur)
    BY <1>3, <1>4, BehindModulo, Zenon
  <2>2. Behind(NUM_RX, rdh, rx_cur) = w
    BY <1>3, <1>4, <1>5 DEF Behind, At
  <2> QED
    BY <2>1, <2>2, Zenon DEF Nic!Waiting
<1>9. \A i \in Nic!RxRing : rx[i].dd <=> ((i - rx_cur) % NUM_RX) < Nic!Waiting
  <2> SUFFICES ASSUME NEW i \in 0..(NUM_RX - 1)
               PROVE  rx[i].dd <=> ((i - rx_cur) % NUM_RX) < w
    BY <1>8, Zenon DEF Nic!RxRing
  <2>1. (i - rx_cur) % NUM_RX = Behind(NUM_RX, i, rx_cur)
    BY <1>3, <1>4, BehindModulo, Zenon
  <2>2. rx[i].dd <=> Behind(NUM_RX, i, rx_cur) < w
    BY <1>5, Zenon DEF Holding, RxFull, Nic!RxRing
  <2> QED
    BY <2>1, <2>2, Zenon
<1>10. \A k \in 0..(Nic!Waiting - 1) : rx[(rx_cur + k) % NUM_RX].frame = (taken + k) % Mod
  <2> SUFFICES ASSUME NEW k \in 0..(w - 1)
               PROVE  rx[(rx_cur + k) % NUM_RX].frame = (taken + k) % Mod
    BY <1>8, Zenon
  <2>1. (rx_cur + k) % NUM_RX = At(NUM_RX, rx_cur + k) /\ (taken + k) % Mod = At(Mod, taken + k)
    <3>1. rx_cur + k \in 0..(2 * NUM_RX - 1) /\ taken + k \in 0..(2 * Mod - 1)
      BY <1>3, <1>4
    <3> QED
      BY <1>3, <3>1, OnceRound, Zenon DEF Rounds, At
  <2>2. w \in 0..NUM_RX
    BY <1>3
  <2>3. At(NUM_RX, rx_cur + k) \in 0..(NUM_RX - 1) /\ RxFrames[At(NUM_RX, rx_cur + k)] = At(Mod, taken + k)
    BY <1>3, <1>4, <1>5, <2>2, KthHeld, SMTT(30)
  <2> QED
    BY <2>1, <2>3, Zenon DEF RxFrames, Nic!RxRing
<1>11. arrived = (taken + Nic!Waiting) % Mod
  <2>1. taken + w \in 0..(2 * Mod - 1)
    BY <1>3, <1>4
  <2> QED
    BY <1>3, <1>5, <1>8, <2>1, OnceRound, Zenon DEF Rounds, At
<1>12. rdt = (rx_cur - 1) % NUM_RX
  <2>1. CASE rx_cur = 0
    <3>1. rdt = NUM_RX - 1
      BY <1>3, <1>4, <1>5, <2>1 DEF Following
    <3>2. (0 - 1) % NUM_RX = NUM_RX - 1
      BY <1>3
    <3> QED
      BY <2>1, <3>1, <3>2, Zenon
  <2>2. CASE rx_cur # 0
    <3>1. rdt = rx_cur - 1
      BY <1>3, <1>4, <1>5, <2>2 DEF Following
    <3>2. (rx_cur - 1) % NUM_RX = rx_cur - 1
      BY <1>3, <1>4, <2>2
    <3> QED
      BY <3>1, <3>2, Zenon
  <2> QED
    BY <2>1, <2>2, Zenon
<1>13. Nic!TxNotOverwritten
  <2>1. Behind(NUM_TX, tdh, tdh) = 0 /\ At(Mod, wire + 0) = wire
    BY <1>3, <1>4 DEF Behind, At
  <2>2. v # 0 => tdh \in TxFull
    BY <1>4, <1>6, <2>1 DEF Holding
  <2>3. tdh \in TxFull => ~tx[tdh].dd /\ tx[tdh].frame = wire
    BY <1>4, <1>6, <2>1 DEF Holding, TxFull, TxFrames, Nic!TxRing
  <2>4. tdh # tdt => v # 0
    BY <1>3, <1>4, <1>6 DEF At
  <2>5. (\E i \in Nic!TxRing : ~tx[i].dd) => v # 0
    <3> SUFFICES ASSUME NEW i \in 0..(NUM_TX - 1), ~tx[i].dd
                 PROVE  v # 0
      BY Zenon DEF Nic!TxRing
    <3>1. Behind(NUM_TX, i, tdh) < v
      BY <1>6, Zenon DEF Holding, TxFull, Nic!TxRing
    <3>2. Behind(NUM_TX, i, tdh) \in 0..(NUM_TX - 1)
      BY <1>3, <1>4, BehindModulo, Zenon
    <3> QED
      BY <3>1, <3>2
  <2> QED
    BY <2>2, <2>3, <2>4, <2>5, Zenon DEF Nic!TxNotOverwritten
<1> QED
  BY <1>5, <1>7, <1>9, <1>10, <1>11, <1>12, <1>13, Zenon DEF Nic!RxInOrder

\* The driver meets the frames in the order in which they came and misses none that the NIC
\* stored, and no frame it sends is overwritten before the NIC has transmitted it, for rings
\* of any size (e1000_poll, e1000_send, the RDT convention of e1000_init).
THEOREM NicSound ==
    ASSUME NicFits
    PROVE  Nic!Spec => [](Nic!TypeOK /\ Nic!RxInOrder /\ Nic!TxNotOverwritten)
<1>1. Nic!Init => NicInv
  BY NicInitInv, Zenon
<1>2. NicInv /\ [Nic!Next]_Nic!e1000Vars => NicInv'
  BY NicNextInv, Zenon
<1>3. NicInv => Nic!TypeOK /\ Nic!RxInOrder /\ Nic!TxNotOverwritten
  BY NicEnough, Zenon
<1> QED
  BY <1>1, <1>2, <1>3, PTL DEF Nic!Spec

-----------------------------------------------------------------------------
(* Finite sets *)

INSTANCE FiniteSetTheorems

\* A set of numbers that is not empty has a least one.
LEMMA LeastNumber ==
    ASSUME NEW S, S \subseteq Nat, S # {}
    PROVE  \E x \in S : \A y \in S : x <= y
<1> DEFINE R == OpToRel(<, Nat)
<1>1. IsWellFoundedOn(R, Nat)
  BY NatLessThanWellFounded, Zenon
<1>2. \A x, y \in Nat : y < x => <<y, x>> \in R
  BY Zenon DEF OpToRel
<1> HIDE DEF R
<1>3. PICK x \in S : \A y \in S : ~ (<<y, x>> \in R)
  BY <1>1, WFMin, Zenon
<1>4. ASSUME NEW y \in S
      PROVE  x <= y
  <2>1. x \in Nat /\ y \in Nat
    BY Zenon
  <2>2. ~(y < x)
    BY <1>2, <1>3, <2>1, Zenon
  <2> QED
    BY <2>1, <2>2
<1> QED
  BY <1>4, Zenon

-----------------------------------------------------------------------------
(* Sending an IP packet *)

CONSTANTS Threads, Hosts, ARP_CACHE_SIZE, NULL
VARIABLES cache, net_lock, sender, ip_tx_buf, frame

\* s has n elements, all of Hosts, and none twice.
Distinct(s, n) ==
    /\ s \in Seq(Hosts) /\ n \in Nat /\ Len(s) = n
    /\ \A i, j \in 1..n : s[i] = s[j] => i = j

\* The m elements of r are among the n of s, and not its k-th.
Drawn(r, m, s, n, k) == \A i \in 1..m : \E j \in 1..n : j # k /\ r[i] = s[j]

\* Taking one out keeps the others, once each.
LEMMA RemoveDistinct ==
    ASSUME NEW s, NEW n, Distinct(s, n), NEW k \in 1..n,
           NEW t, t = SubSeq(s, 1, k - 1) \o SubSeq(s, k + 1, Len(s))
    PROVE  Distinct(t, n - 1) /\ Drawn(t, n - 1, s, n, k)
<1> DEFINE a == SubSeq(s, 1, k - 1)
           b == SubSeq(s, k + 1, n)
           r == a \o b
           p(i) == IF i < k THEN i ELSE i + 1
<1>1. s \in Seq(Hosts) /\ n \in Nat /\ Len(s) = n /\ k \in Nat /\ 1 <= k /\ k <= n
  BY DEF Distinct
<1>2. a \in Seq(Hosts) /\ Len(a) = k - 1 /\ \A i \in 1..(k - 1) : a[i] = s[i]
  BY <1>1
<1>3. b \in Seq(Hosts) /\ Len(b) = n - k /\ \A i \in 1..(n - k) : b[i] = s[i + k]
  BY <1>1
<1> HIDE DEF a, b
<1>4. r \in Seq(Hosts) /\ Len(r) = n - 1 /\ n - 1 \in Nat
  <2>1. r \in Seq(Hosts) /\ Len(r) = Len(a) + Len(b)
    BY <1>2, <1>3, Joined, Zenon
  <2> HIDE DEF r
  <2> QED
    BY <1>1, <1>2, <1>3, <2>1
<1>5. ASSUME NEW i \in 1..(n - 1)
      PROVE  r[i] = s[p(i)] /\ p(i) \in 1..n /\ p(i) # k
  <2>1. CASE i < k
    <3>1. i \in 1..Len(a) /\ i \in 1..(k - 1) /\ p(i) = i /\ p(i) \in 1..n /\ p(i) # k
      BY <1>1, <1>2, <2>1
    <3>2. r[i] = a[i]
      BY <1>2, <1>3, <3>1, Joined, Zenon
    <3> QED
      BY <1>2, <3>1, <3>2, Zenon
  <2>2. CASE ~(i < k)
    <3>1. i - (k - 1) \in 1..(n - k)
      BY <1>1, <2>2
    <3>2. r[i] = b[i - (k - 1)]
      <4>1. i \in (Len(a) + 1)..(Len(a) + Len(b)) /\ i - Len(a) = i - (k - 1)
        BY <1>1, <1>2, <1>3, <2>2
      <4>2. r[i] = b[i - Len(a)]
        BY <1>2, <1>3, <4>1, Joined, Zenon
      <4> QED
        BY <4>1, <4>2, Zenon
    <3>3. b[i - (k - 1)] = s[i - (k - 1) + k]
      BY <1>3, <3>1
    <3>4. i - (k - 1) + k = i + 1
      BY <1>1
    <3> QED
      BY <1>1, <2>2, <3>2, <3>3, <3>4
  <2> QED
    BY <2>1, <2>2, Zenon
<1> HIDE DEF r
<1>6. \A i, j \in 1..(n - 1) : r[i] = r[j] => i = j
  <2> SUFFICES ASSUME NEW i \in 1..(n - 1), NEW j \in 1..(n - 1), r[i] = r[j]
               PROVE  i = j
    BY Zenon
  <2>0. r[i] = s[p(i)] /\ r[j] = s[p(j)] /\ p(i) \in 1..n /\ p(j) \in 1..n
    BY <1>5, Zenon
  <2> HIDE DEF p
  <2>1. p(i) = p(j)
    BY <2>0, Zenon DEF Distinct
  <2> QED
    BY <2>1, <1>1 DEF p
<1>7. Drawn(r, n - 1, s, n, k)
  BY <1>5, Zenon DEF Drawn
<1>8. t = r
  BY <1>1, Zenon DEF r, a, b
<1> QED
  BY <1>4, <1>6, <1>7, <1>8, Zenon DEF Distinct

\* An address that is not there is appended.
LEMMA AppendDistinct ==
    ASSUME NEW s, NEW n, Distinct(s, n), NEW ip \in Hosts, ~(\E i \in 1..n : s[i] = ip)
    PROVE  Distinct(Append(s, ip), n + 1)
<1> DEFINE r == Append(s, ip)
<1>1. s \in Seq(Hosts) /\ n \in Nat /\ Len(s) = n
  BY DEF Distinct
<1>2. r \in Seq(Hosts) /\ Len(r) = n + 1 /\ n + 1 \in Nat
  BY <1>1
<1>3. r[n + 1] = ip /\ \A i \in 1..n : r[i] = s[i]
  BY <1>1
<1> HIDE DEF r
<1>4. \A i \in 1..(n + 1) : i \in 1..n \/ i = n + 1
  BY <1>1
<1>5. \A i, j \in 1..(n + 1) : r[i] = r[j] => i = j
  BY <1>3, <1>4 DEF Distinct
<1> QED
  BY <1>2, <1>5, Zenon DEF Distinct, r

\* What is left when the first k are gone.
LEMMA DropDistinct ==
    ASSUME NEW s, NEW n, Distinct(s, n), NEW k \in 1..n, NEW t, t = SubSeq(s, k + 1, n)
    PROVE  Distinct(t, n - k) /\ Drawn(t, n - k, s, n, 0)
<1> DEFINE r == SubSeq(s, k + 1, n)
<1>1. s \in Seq(Hosts) /\ n \in Nat /\ Len(s) = n
  BY DEF Distinct
<1>2. r \in Seq(Hosts) /\ Len(r) = n - k /\ n - k \in Nat
  BY <1>1
<1>3. \A i \in 1..(n - k) : r[i] = s[i + k] /\ i + k \in 1..n /\ i + k # 0
  BY <1>1
<1> HIDE DEF r
<1>4. \A i, j \in 1..(n - k) : r[i] = r[j] => i = j
  <2> SUFFICES ASSUME NEW i \in 1..(n - k), NEW j \in 1..(n - k), r[i] = r[j]
               PROVE  i = j
    BY Zenon
  <2>1. i + k = j + k
    BY <1>3, Zenon DEF Distinct
  <2> QED
    BY <2>1
<1> QED
  BY <1>2, <1>3, <1>4, Zenon DEF Distinct, Drawn, r

Ip == INSTANCE Arp

\* The stages of ipv4_send at which net_lock is held.
Locked == {"resolve", "again", "build", "send"}

ArpTyped ==
    sender \in [Ip!Tasks -> [pc : {"idle", "asleep", "woken"} \cup Locked, hop : Hosts \cup {NULL}]]

\* Who is at work holds net_lock, and then what is in ip_tx_buf is theirs.
LockHeld ==
    \A t \in Ip!Tasks : /\ sender[t].pc \in Locked => net_lock = t
                        /\ sender[t].pc = "send" => ip_tx_buf = t
                        /\ sender[t].pc \in {"asleep", "woken", "again"} => t # "netd"

ArpInv == ArpTyped /\ LockHeld /\ Ip!FramesIntact /\ Ip!ArpWaiters

\* A step of t itself: the senders, but for t, are where they were.
LEMMA SenderMoves ==
    ASSUME NULL \notin Ip!Tasks, ArpInv, NEW t \in Ip!Tasks, Ip!Send(t)
    PROVE  ArpInv'
<1> USE DEF Locked
<1>1. CASE Ip!Lock(t)
  BY <1>1 DEF ArpInv, ArpTyped, LockHeld, Ip!FramesIntact, Ip!ArpWaiters, Ip!Lock, Ip!Goto, Ip!Stage, Ip!Known
<1>2. CASE Ip!arp_resolve(t)
  BY <1>2 DEF ArpInv, ArpTyped, LockHeld, Ip!FramesIntact, Ip!ArpWaiters, Ip!arp_resolve, Ip!Unlock, Ip!Goto,
     Ip!Stage, Ip!Known, Ip!Idle
<1>3. CASE Ip!Again(t)
  BY <1>3 DEF ArpInv, ArpTyped, LockHeld, Ip!FramesIntact, Ip!ArpWaiters, Ip!Again, Ip!Unlock, Ip!Goto, Ip!Stage,
     Ip!Known, Ip!Idle
<1>4. CASE Ip!SliceOver(t)
  BY <1>4 DEF ArpInv, ArpTyped, LockHeld, Ip!FramesIntact, Ip!ArpWaiters, Ip!SliceOver, Ip!Goto, Ip!Known
<1>5. CASE Ip!Build(t)
  BY <1>5 DEF ArpInv, ArpTyped, LockHeld, Ip!FramesIntact, Ip!ArpWaiters, Ip!Build, Ip!Goto, Ip!Stage, Ip!Known
<1>6. CASE Ip!eth_send(t)
  BY <1>6 DEF ArpInv, ArpTyped, LockHeld, Ip!FramesIntact, Ip!ArpWaiters, Ip!eth_send, Ip!Unlock, Ip!Known, Ip!Idle
<1> QED
  BY <1>1, <1>2, <1>3, <1>4, <1>5, <1>6, Zenon DEF Ip!Send

\* The cache has one entry for an address at most.
CacheInv == \E n \in 0..ARP_CACHE_SIZE : Distinct(cache, n)

\* That is what CacheExact says.
LEMMA CacheInvExact ==
    ASSUME CacheInv
    PROVE  Ip!CacheExact
<1>1. PICK n \in 0..ARP_CACHE_SIZE : Distinct(cache, n)
  BY Zenon DEF CacheInv
<1>2. Len(cache) = n /\ DOMAIN cache = 1..n /\ n <= ARP_CACHE_SIZE
  BY <1>1 DEF Distinct
<1> QED
  BY <1>1, <1>2, Zenon DEF Distinct, Ip!CacheExact, Ip!IsInjective

\* An entry that is found again becomes the last, a new one replaces the first of a full cache.
LEMMA UpdateKeepsCache ==
    ASSUME ARP_CACHE_SIZE \in Nat \ {0}, CacheInv, NEW ip \in Hosts, cache' = Ip!Updated(cache, ip)
    PROVE  CacheInv'
<1>1. PICK n \in 0..ARP_CACHE_SIZE : Distinct(cache, n)
  BY Zenon DEF CacheInv
<1>2. n \in Nat /\ n <= ARP_CACHE_SIZE /\ Len(cache) = n /\ DOMAIN cache = 1..n
  BY <1>1 DEF Distinct
<1>3. n - 1 + 1 = n /\ (n # ARP_CACHE_SIZE => n + 1 \in 0..ARP_CACHE_SIZE)
  BY <1>2
<1>4. CASE \E i \in 1..n : cache[i] = ip
  <2> DEFINE k == CHOOSE i \in DOMAIN cache : cache[i] = ip
  <2>1. k \in 1..n /\ cache[k] = ip
    BY <1>2, <1>4, Zenon
  <2>2. cache' = Append(Ip!Without(cache, k), ip)
    BY <1>2, <1>4, Zenon DEF Ip!Updated
  <2> HIDE DEF k
  <2>3. Distinct(Ip!Without(cache, k), n - 1) /\ Drawn(Ip!Without(cache, k), n - 1, cache, n, k)
    BY <1>1, <2>1, RemoveDistinct, Zenon DEF Ip!Without
  <2>4. ~(\E i \in 1..(n - 1) : Ip!Without(cache, k)[i] = ip)
    <3>1. \A j \in 1..n : cache[j] = ip => j = k
      BY <1>1, <2>1, Zenon DEF Distinct
    <3> QED
      BY <2>3, <3>1, Zenon DEF Drawn
  <2> QED
    BY <1>3, <2>2, <2>3, <2>4, AppendDistinct, Zenon DEF CacheInv
<1>5. CASE ~(\E i \in 1..n : cache[i] = ip) /\ n = ARP_CACHE_SIZE
  <2>1. cache' = Append(Ip!Without(cache, 1), ip)
    BY <1>2, <1>5, Zenon DEF Ip!Updated
  <2>2. 1 \in 1..n
    BY <1>5
  <2>3. Distinct(Ip!Without(cache, 1), n - 1) /\ Drawn(Ip!Without(cache, 1), n - 1, cache, n, 1)
    BY <1>1, <2>2, RemoveDistinct, Zenon DEF Ip!Without
  <2>4. ~(\E i \in 1..(n - 1) : Ip!Without(cache, 1)[i] = ip)
    BY <1>5, <2>3, Zenon DEF Drawn
  <2> QED
    BY <1>3, <2>1, <2>3, <2>4, AppendDistinct, Zenon DEF CacheInv
<1>6. CASE ~(\E i \in 1..n : cache[i] = ip) /\ n # ARP_CACHE_SIZE
  <2>1. cache' = Append(cache, ip)
    BY <1>2, <1>6, Zenon DEF Ip!Updated
  <2> QED
    BY <1>1, <1>3, <1>6, <2>1, AppendDistinct, Zenon DEF CacheInv
<1> QED
  BY <1>4, <1>5, <1>6, Zenon

\* Entries expire from the front; no address becomes known by that.
LEMMA ExpiryKeepsCache ==
    ASSUME ARP_CACHE_SIZE \in Nat, CacheInv, Ip!arp_timer
    PROVE  CacheInv' /\ \A ip : Ip!Known(ip)' => Ip!Known(ip)
<1>1. PICK n \in 0..ARP_CACHE_SIZE : Distinct(cache, n)
  BY Zenon DEF CacheInv
<1>2. n \in Nat /\ Len(cache) = n /\ DOMAIN cache = 1..n
  BY <1>1 DEF Distinct
<1>3. PICK k \in 1..n : cache' = SubSeq(cache, k + 1, n)
  BY <1>2, Zenon DEF Ip!arp_timer
<1>4. Distinct(cache', n - k) /\ Drawn(cache', n - k, cache, n, 0)
  BY <1>1, <1>3, DropDistinct, Zenon
<1>5. n - k \in 0..ARP_CACHE_SIZE
  BY <1>2
<1>6. DOMAIN cache' = 1..(n - k)
  BY <1>4 DEF Distinct
<1>7. CacheInv'
  BY <1>4, <1>5, Zenon DEF CacheInv
<1>8. \A ip : Ip!Known(ip)' => Ip!Known(ip)
  <2>1. ASSUME NEW ip, NEW i \in 1..(n - k), cache'[i] = ip
        PROVE  \E j \in 1..n : cache[j] = ip
    BY <1>4, <2>1, Zenon DEF Drawn
  <2> QED
    BY <1>2, <1>6, <2>1 DEF Ip!Known, Ip!Range
<1> QED
  BY <1>7, <1>8, Zenon

\* What the proof needs of the constants.
ArpFits == NULL \notin Ip!Tasks /\ ARP_CACHE_SIZE \in Nat \ {0}

\* A frame carries the packet of its sender although senders wait in the middle of sending;
\* nobody waits for an address that is known; and the cache has one entry for an address at
\* most and never more than it has room for (ipv4_send, arp_resolve, arp_update, arp_timer).
THEOREM ArpSound ==
    ASSUME ArpFits
    PROVE  Ip!Spec => [](Ip!FramesIntact /\ Ip!ArpWaiters /\ Ip!CacheExact)
<1>1. Ip!Init => ArpInv /\ CacheInv
  <2> SUFFICES ASSUME Ip!Init
               PROVE  ArpInv /\ CacheInv
    OBVIOUS
  <2>1. ArpInv
    BY DEF Ip!Init, Ip!Idle, ArpInv, ArpTyped, LockHeld, Locked, Ip!FramesIntact, Ip!ArpWaiters
  <2>2. Distinct(<<>>, 0)
    BY DEF Distinct
  <2>3. 0 \in 0..ARP_CACHE_SIZE
    BY DEF ArpFits
  <2> QED
    BY <2>1, <2>2, <2>3, Zenon DEF CacheInv, Ip!Init
<1>2. ArpInv /\ CacheInv /\ [Ip!Next]_Ip!arpVars => (ArpInv /\ CacheInv)'
  <2> SUFFICES ASSUME ArpInv, CacheInv, [Ip!Next]_Ip!arpVars
               PROVE  ArpInv' /\ CacheInv'
    OBVIOUS
  <2>1. ASSUME NEW t \in Ip!Tasks, Ip!Send(t)
        PROVE  ArpInv' /\ CacheInv'
    <3>1. cache' = cache
      BY <2>1, Zenon DEF Ip!Send, Ip!Lock, Ip!arp_resolve, Ip!Again, Ip!SliceOver, Ip!Build, Ip!eth_send
    <3> QED
      BY <2>1, <3>1, SenderMoves, Zenon DEF ArpFits, CacheInv
  <2>2. ASSUME NEW ip \in Hosts, Ip!arp_update(ip)
        PROVE  ArpInv' /\ CacheInv'
    <3>1. CacheInv'
      BY <2>2, UpdateKeepsCache, Zenon DEF Ip!arp_update, ArpFits
    <3>2. ArpInv'
      BY <2>2 DEF Ip!arp_update, ArpInv, ArpTyped, LockHeld, Locked, Ip!FramesIntact, Ip!ArpWaiters
    <3> QED
      BY <3>1, <3>2
  <2>3. CASE Ip!arp_timer
    <3>1. CacheInv' /\ \A ip : Ip!Known(ip)' => Ip!Known(ip)
      BY <2>3, ExpiryKeepsCache DEF ArpFits
    <3>2. ArpInv'
      BY <2>3, <3>1, Zenon DEF Ip!arp_timer, ArpInv, ArpTyped, LockHeld, Locked, Ip!FramesIntact, Ip!ArpWaiters
    <3> QED
      BY <3>1, <3>2
  <2>4. CASE UNCHANGED Ip!arpVars
    BY <2>4, Zenon DEF Ip!arpVars, ArpInv, ArpTyped, LockHeld, Ip!FramesIntact, Ip!ArpWaiters, Ip!Known, CacheInv
  <2> QED
    BY <2>1, <2>2, <2>3, <2>4, Zenon DEF Ip!Next
<1>3. ArpInv /\ CacheInv => Ip!FramesIntact /\ Ip!ArpWaiters /\ Ip!CacheExact
  BY CacheInvExact, Zenon DEF ArpInv
<1> QED
  BY <1>1, <1>2, <1>3, PTL DEF Ip!Spec

-----------------------------------------------------------------------------
(* Pings *)

CONSTANTS Pingers, Dsts, Seqs, PING_SLOTS
VARIABLES pings, pinger, asked

Ping == INSTANCE Icmp

\* The search through the slots finds one of those it looks for.
LEMMA FirstSlot ==
    ASSUME NEW S, S \subseteq Ping!Slots, S # {}
    PROVE  Ping!First(S) \in S
<1>1. S \subseteq Nat
  BY DEF Ping!Slots
<1>2. \E x \in S : \A y \in S : x <= y
  BY <1>1, LeastNumber, Zenon
<1> QED
  BY <1>2, Zenon DEF Ping!First

PingTyped ==
    /\ pings \in [Ping!Slots -> [used : BOOLEAN, done : BOOLEAN, dst : Dsts \cup {NULL}, seq : Seqs \cup {NULL}]]
    /\ pinger \in [Pingers -> [pc : {"idle", "send", "asleep", "woken"}, slot : Ping!Slots \cup {NULL}]]

\* A thread outside icmp_ping has no slot, one inside has one, in use and its own.
SlotsOwned ==
    /\ \A t \in Pingers : pinger[t].pc = "idle" => pinger[t].slot = NULL
    /\ \A t \in Pingers : pinger[t].pc # "idle" => pinger[t].slot \in Ping!Slots /\ pings[pinger[t].slot].used
    /\ \A t, u \in Pingers : pinger[t].slot \in Ping!Slots /\ pinger[t].slot = pinger[u].slot => t = u
    /\ \A i \in Ping!Slots : pings[i].used => \E t \in Pingers : pinger[t].slot = i

PingInv == PingTyped /\ SlotsOwned /\ Ping!PingersWait

\* A thread that leaves gives its slot back, whether it has an answer or not.
LEMMA PingLeaves ==
    ASSUME NULL \notin Ping!Slots, PingInv, NEW t \in Pingers, pinger[t].pc # "idle",
           Ping!Release(pinger[t].slot), Ping!Leave(t)
    PROVE  PingInv'
<1> DEFINE s == pinger[t].slot
<1>0. s \in Ping!Slots
  BY Zenon DEF PingInv, SlotsOwned
<1>1. PingTyped'
  BY <1>0, Zenon DEF PingInv, PingTyped, Ping!Release, Ping!Leave
<1>2. /\ pings'[s].used = FALSE
      /\ \A i \in Ping!Slots : pings'[i].done = pings[i].done /\ (i # s => pings'[i].used = pings[i].used)
  BY <1>0, Zenon DEF PingInv, PingTyped, Ping!Release
<1>3. /\ pinger'[t].pc = "idle" /\ pinger'[t].slot = NULL
      /\ \A u \in Pingers : u # t => pinger'[u] = pinger[u]
  BY DEF PingInv, PingTyped, Ping!Leave
<1>4. \A u \in Pingers : u # t => pinger[u].slot # s
  BY <1>0, Zenon DEF PingInv, SlotsOwned
<1> HIDE DEF s
<1>5. SlotsOwned'
  <2>1. \A u \in Pingers : pinger'[u].pc = "idle" => pinger'[u].slot = NULL
    BY <1>3 DEF PingInv, SlotsOwned
  <2>2. \A u \in Pingers : pinger'[u].pc # "idle" => pinger'[u].slot \in Ping!Slots /\ pings'[pinger'[u].slot].used
    BY <1>2, <1>3, <1>4, Zenon DEF PingInv, SlotsOwned
  <2>3. \A u, v \in Pingers : pinger'[u].slot \in Ping!Slots /\ pinger'[u].slot = pinger'[v].slot => u = v
    BY <1>3 DEF PingInv, SlotsOwned
  <2>4. \A i \in Ping!Slots : pings'[i].used => \E u \in Pingers : pinger'[u].slot = i
    BY <1>2, <1>3 DEF PingInv, SlotsOwned, s
  <2> QED
    BY <2>1, <2>2, <2>3, <2>4, Zenon DEF SlotsOwned
<1>6. Ping!PingersWait'
  <2> SUFFICES ASSUME NEW u \in Pingers, pinger'[u].pc = "asleep"
               PROVE  ~pings'[pinger'[u].slot].done
    BY Zenon DEF Ping!PingersWait
  <2>1. u # t
    BY <1>3
  <2>2. pinger[u].pc = "asleep" /\ pinger'[u].slot = pinger[u].slot /\ pinger[u].slot \in Ping!Slots
    BY <1>3, <2>1 DEF PingInv, SlotsOwned
  <2> QED
    BY <1>2, <2>2, Zenon DEF PingInv, Ping!PingersWait
<1> QED
  BY <1>1, <1>5, <1>6, Zenon DEF PingInv

\* A thread in the wait loop sleeps only on a ping that has no answer.
LEMMA PingLoops ==
    ASSUME NULL \notin Ping!Slots, PingInv, NEW t \in Pingers, pinger[t].pc # "idle", Ping!WaitLoop(t)
    PROVE  PingInv'
<1>1. CASE pings[pinger[t].slot].done
  BY <1>1, PingLeaves, Zenon DEF Ping!WaitLoop
<1>2. CASE ~pings[pinger[t].slot].done
  <2>1. /\ pings' = pings /\ pinger'[t].pc = "asleep" /\ pinger'[t].slot = pinger[t].slot
        /\ \A u \in Pingers : u # t => pinger'[u] = pinger[u]
    BY <1>2 DEF PingInv, PingTyped, Ping!WaitLoop
  <2>2. PingTyped'
    BY <1>2 DEF PingInv, PingTyped, Ping!WaitLoop
  <2>3. \A u \in Pingers : pinger'[u].slot = pinger[u].slot /\ (pinger'[u].pc = "idle" <=> pinger[u].pc = "idle")
    BY <2>1
  <2>4. SlotsOwned'
    BY <2>1, <2>3 DEF PingInv, SlotsOwned
  <2>5. Ping!PingersWait'
    BY <1>2, <2>1, Zenon DEF PingInv, Ping!PingersWait
  <2> QED
    BY <2>2, <2>4, <2>5, Zenon DEF PingInv
<1> QED
  BY <1>1, <1>2, Zenon

\* A new ping takes a slot nobody has.
LEMMA PingStarts ==
    ASSUME NULL \notin Ping!Slots, PingInv, NEW t \in Pingers, NEW dst \in Dsts, NEW seq \in Seqs,
           Ping!icmp_ping(t, dst, seq)
    PROVE  PingInv'
<1> DEFINE i == Ping!First(Ping!FreeSlots)
<1>1. i \in Ping!Slots /\ ~pings[i].used
  BY FirstSlot, Zenon DEF Ping!icmp_ping, Ping!FreeSlots
<1>2. /\ pinger[t].pc = "idle"
      /\ pings' = [pings EXCEPT ![i] = [used |-> TRUE, done |-> FALSE, dst |-> dst, seq |-> seq]]
      /\ pinger' = [pinger EXCEPT ![t] = [pc |-> "send", slot |-> i]]
  BY Zenon DEF Ping!icmp_ping
<1> HIDE DEF i
<1>3. PingTyped'
  BY <1>1, <1>2 DEF PingInv, PingTyped
<1>4. /\ pings'[i].used = TRUE /\ pings'[i].done = FALSE
      /\ \A j \in Ping!Slots : j # i => pings'[j] = pings[j]
  BY <1>1, <1>2 DEF PingInv, PingTyped
<1>5. /\ pinger'[t].pc = "send" /\ pinger'[t].slot = i
      /\ \A u \in Pingers : u # t => pinger'[u] = pinger[u]
  BY <1>2 DEF PingInv, PingTyped
<1>6. \A u \in Pingers : pinger[u].slot # i
  BY <1>1, Zenon DEF PingInv, SlotsOwned
<1>7. SlotsOwned'
  <2>1. \A u \in Pingers : pinger'[u].pc = "idle" => pinger'[u].slot = NULL
    BY <1>5 DEF PingInv, SlotsOwned
  <2>2. \A u \in Pingers : pinger'[u].pc # "idle" => pinger'[u].slot \in Ping!Slots /\ pings'[pinger'[u].slot].used
    BY <1>1, <1>4, <1>5, <1>6 DEF PingInv, SlotsOwned
  <2>3. \A u, v \in Pingers : pinger'[u].slot \in Ping!Slots /\ pinger'[u].slot = pinger'[v].slot => u = v
    BY <1>5, <1>6 DEF PingInv, SlotsOwned
  <2>4. \A j \in Ping!Slots : pings'[j].used => \E u \in Pingers : pinger'[u].slot = j
    <3>1. pinger[t].slot = NULL
      BY <1>2, Zenon DEF PingInv, SlotsOwned
    <3> QED
      BY <1>4, <1>5, <3>1 DEF PingInv, SlotsOwned
  <2> QED
    BY <2>1, <2>2, <2>3, <2>4, Zenon DEF SlotsOwned
<1>8. Ping!PingersWait'
  <2> SUFFICES ASSUME NEW u \in Pingers, pinger'[u].pc = "asleep"
               PROVE  ~pings'[pinger'[u].slot].done
    BY Zenon DEF Ping!PingersWait
  <2>1. u # t
    BY <1>5
  <2>2. pinger[u].pc = "asleep" /\ pinger'[u].slot = pinger[u].slot /\ pinger[u].slot \in Ping!Slots
    BY <1>5, <2>1 DEF PingInv, SlotsOwned
  <2> QED
    BY <1>4, <1>6, <2>2, Zenon DEF PingInv, Ping!PingersWait
<1> QED
  BY <1>3, <1>7, <1>8, Zenon DEF PingInv

\* A reply wakes everyone, so nobody sleeps on the ping it answers.
LEMMA ReplyWakes ==
    ASSUME PingInv, NEW dst, NEW seq, Ping!icmp_input(dst, seq)
    PROVE  PingInv'
<1> DEFINE i == Ping!First(Ping!Matching(dst, seq))
<1>1. i \in Ping!Slots
  BY FirstSlot, Zenon DEF Ping!icmp_input, Ping!Matching
<1>2. Ping!Done(i)
  BY Zenon DEF Ping!icmp_input
<1> HIDE DEF i
<1>3. PingTyped'
  BY <1>1, <1>2, Zenon DEF PingInv, PingTyped, Ping!Done
<1>4. \A j \in Ping!Slots : pings'[j].used = pings[j].used
  BY <1>1, <1>2 DEF PingInv, PingTyped, Ping!Done
<1>5. \A t \in Pingers : /\ pinger'[t].slot = pinger[t].slot /\ pinger'[t].pc # "asleep"
                         /\ pinger'[t].pc = "idle" <=> pinger[t].pc = "idle"
  BY <1>2 DEF PingInv, PingTyped, Ping!Done
<1>6. SlotsOwned'
  BY <1>4, <1>5 DEF PingInv, SlotsOwned
<1>7. Ping!PingersWait'
  BY <1>5, Zenon DEF Ping!PingersWait
<1> QED
  BY <1>3, <1>6, <1>7, Zenon DEF PingInv

\* Owned slots are counted exactly.
LEMMA OwnedExact ==
    ASSUME NULL \notin Ping!Slots, PingInv
    PROVE  Ping!SlotsExact
<1> SUFFICES ASSUME NEW i \in Ping!Slots
             PROVE  Cardinality({t \in Pingers : pinger[t].slot = i}) = IF pings[i].used THEN 1 ELSE 0
  <2>1. \A S : Ping!Cardinality(S) = Cardinality(S)
    BY Zenon DEF Ping!Cardinality, Cardinality
  <2> QED
    BY <2>1, Zenon DEF Ping!SlotsExact
<1>1. CASE pings[i].used
  <2>1. PICK t \in Pingers : pinger[t].slot = i
    BY <1>1, Zenon DEF PingInv, SlotsOwned
  <2>2. {u \in Pingers : pinger[u].slot = i} = {t}
    BY <2>1, Zenon DEF PingInv, SlotsOwned
  <2>3. Cardinality({t}) = 1
    BY FS_Singleton, Zenon
  <2> QED
    BY <1>1, <2>2, <2>3, Zenon
<1>2. CASE ~pings[i].used
  <2>1. {u \in Pingers : pinger[u].slot = i} = {}
    BY <1>2, Zenon DEF PingInv, SlotsOwned
  <2>2. Cardinality({}) = 0
    BY FS_EmptySet, Zenon
  <2> QED
    BY <1>2, <2>1, <2>2, Zenon
<1> QED
  BY <1>1, <1>2, Zenon

\* A slot is in use exactly while one thread is in icmp_ping with it, on every way out of it,
\* and nobody sleeps on a ping that has been answered, for any number of threads and slots
\* (icmp_ping, icmp_input).
THEOREM PingsSound ==
    ASSUME NULL \notin Ping!Slots
    PROVE  Ping!Spec => [](Ping!SlotsExact /\ Ping!PingersWait)
<1>1. Ping!Init => PingInv
  BY DEF Ping!Init, PingInv, PingTyped, SlotsOwned, Ping!PingersWait
<1>2. PingInv /\ [Ping!Next]_Ping!icmpVars => PingInv'
  <2> SUFFICES ASSUME PingInv, [Ping!Next]_Ping!icmpVars
               PROVE  PingInv'
    OBVIOUS
  <2>1. ASSUME NEW t \in Pingers, Ping!SendFails(t) \/ Ping!Sent(t) \/ Ping!Resume(t) \/ Ping!Deadline(t)
        PROVE  PingInv'
    <3>1. pinger[t].pc # "idle"
      BY <2>1 DEF Ping!SendFails, Ping!Sent, Ping!Resume, Ping!Deadline
    <3> QED
      BY <2>1, <3>1, PingLeaves, PingLoops, Zenon DEF Ping!SendFails, Ping!Sent, Ping!Resume, Ping!Deadline
  <2>2. CASE UNCHANGED Ping!icmpVars
    BY <2>2, Zenon DEF Ping!icmpVars, PingInv, PingTyped, SlotsOwned, Ping!PingersWait
  <2> QED
    BY <2>1, <2>2, PingStarts, ReplyWakes, Zenon DEF Ping!Next
<1>3. PingInv => Ping!SlotsExact /\ Ping!PingersWait
  BY OwnedExact, Zenon DEF PingInv
<1> QED
  BY <1>1, <1>2, <1>3, PTL DEF Ping!Spec

-----------------------------------------------------------------------------
(* Datagram sockets *)

CONSTANTS Ips, SOCK_MAX, UDP_RXQ_MAX, PORTS, EPHEMERAL, ANY
VARIABLES socks, next_ephemeral, receiver

Udp == INSTANCE Socket

\* There are as many ephemeral ports as sockets.
SockFits ==
    /\ SOCK_MAX \in Nat \ {0} /\ PORTS \in Nat /\ EPHEMERAL \in Nat /\ EPHEMERAL + SOCK_MAX <= PORTS
    /\ UDP_RXQ_MAX \in Nat /\ NULL \notin Udp!Fds

\* The tries of the loop are of different ports, all of them ephemeral.
LEMMA TriesDiffer ==
    ASSUME SockFits, Udp!TypeOK
    PROVE  /\ \A k \in 0..(PORTS - EPHEMERAL - 1) : Udp!Nth(k) \in EPHEMERAL..(PORTS - 1)
           /\ \A k, l \in 0..(PORTS - EPHEMERAL - 1) : Udp!Nth(k) = Udp!Nth(l) => k = l
<1> DEFINE n == PORTS - EPHEMERAL
           b == next_ephemeral - EPHEMERAL
<1>1. n \in Nat \ {0} /\ b \in 0..(n - 1) /\ EPHEMERAL \in Nat /\ EPHEMERAL + n = PORTS
  BY DEF SockFits, Udp!TypeOK
<1>2. \A k \in 0..(n - 1) : Udp!Nth(k) = EPHEMERAL + ((b + k) % n)
  BY Zenon DEF Udp!Nth
<1> HIDE DEF n, b
<1>3. ASSUME NEW k \in 0..(n - 1)
      PROVE  Rounds(n, b + k, (b + k) % n)
  <2>1. b + k \in 0..(2 * n - 1)
    BY <1>1
  <2> QED
    BY <1>1, <2>1, OnceRound, Zenon
<1>4. \A k \in 0..(n - 1) : Udp!Nth(k) \in EPHEMERAL..(PORTS - 1)
  BY <1>1, <1>2, <1>3 DEF Rounds
<1>5. ASSUME NEW k \in 0..(n - 1), NEW l \in 0..(n - 1), Udp!Nth(k) = Udp!Nth(l)
      PROVE  k = l
  <2>1. (b + k) % n = (b + l) % n
    BY <1>1, <1>2, <1>3, <1>5 DEF Rounds
  <2> QED
    BY <1>1, <1>3, <2>1 DEF Rounds
<1> QED
  BY <1>4, <1>5, Zenon DEF n

\* A search finds one of those it looks for.
LEMMA FirstSocket ==
    ASSUME NEW S, S \subseteq Nat, S # {}
    PROVE  Udp!First(S) \in S
<1>1. \E x \in S : \A y \in S : x <= y
  BY LeastNumber, Zenon
<1> QED
  BY <1>1, Zenon DEF Udp!First

\* A socket that has no port finds one that no socket of its type has: the others are fewer
\* than the ports.
LEMMA FreePort ==
    ASSUME SockFits, Udp!TypeOK, NEW type, NEW fd \in Udp!Fds, ~socks[fd].bound
    PROVE  /\ Udp!sock_ephemeral_port(type) \in EPHEMERAL..(PORTS - 1)
           /\ ~Udp!sock_port_in_use(type, ANY, Udp!sock_ephemeral_port(type))
<1> DEFINE n == PORTS - EPHEMERAL
           K == 0..(n - 1)
           B == Udp!Fds \ {fd}
           f == [k \in K |-> CHOOSE g \in B : socks[g].lport = Udp!Nth(k)]
<1>1. n \in Nat /\ SOCK_MAX \in Nat \ {0} /\ SOCK_MAX <= n
  BY DEF SockFits
<1>2. Udp!Tries(type) # {}
  <2> SUFFICES ASSUME Udp!Tries(type) = {}
               PROVE  FALSE
    BY Zenon
  <2>1. \A k \in K : \E g \in B : socks[g].lport = Udp!Nth(k)
    BY Zenon DEF Udp!Tries, Udp!sock_port_in_use, Udp!Bound, Udp!Used
  <2>2. \A k \in K : f[k] \in B /\ socks[f[k]].lport = Udp!Nth(k)
    BY <2>1, Zenon
  <2>3. f \in [K -> B]
    BY <2>1, Zenon
  <2> HIDE DEF f
  <2>4. \A k, l \in K : f[k] = f[l] => k = l
    BY <2>2, TriesDiffer, Zenon
  <2>5. f \in Injection(K, B)
    BY <2>3, <2>4, Zenon DEF Injection, IsInjective
  <2>6. IsFiniteSet(Udp!Fds) /\ Cardinality(Udp!Fds) = SOCK_MAX
    <3>1. SOCK_MAX - 1 \in Int /\ 0 \in Int
      BY <1>1
    <3>2. /\ IsFiniteSet(0..(SOCK_MAX - 1))
          /\ Cardinality(0..(SOCK_MAX - 1)) = IF 0 > SOCK_MAX - 1 THEN 0 ELSE SOCK_MAX - 1 - 0 + 1
      BY <3>1, FS_Interval, Zenon
    <3> QED
      BY <1>1, <3>2 DEF Udp!Fds
  <2>7. IsFiniteSet(B) /\ Cardinality(B) = SOCK_MAX - 1
    BY <2>6, FS_RemoveElement, Zenon
  <2>8. Cardinality(K) = n
    <3>1. n - 1 \in Int /\ 0 \in Int
      BY <1>1
    <3>2. Cardinality(0..(n - 1)) = IF 0 > n - 1 THEN 0 ELSE n - 1 - 0 + 1
      BY <3>1, FS_Interval, Zenon
    <3> QED
      BY <1>1, <3>2
  <2>9. Cardinality(K) <= Cardinality(B)
    BY <2>5, <2>7, FS_Injection, Zenon DEF ExistsInjection
  <2> QED
    BY <1>1, <2>7, <2>8, <2>9
<1>3. Udp!Tries(type) \subseteq Nat
  BY DEF Udp!Tries
<1>4. Udp!First(Udp!Tries(type)) \in Udp!Tries(type)
  BY <1>2, <1>3, FirstSocket, Zenon
<1> QED
  BY <1>4, TriesDiffer, Zenon DEF Udp!sock_ephemeral_port, Udp!Tries

\* The counter stays among the ephemeral ports, also where it wraps.
LEMMA AfterEphemeral ==
    ASSUME SockFits, NEW p \in EPHEMERAL..(PORTS - 1)
    PROVE  Udp!After(p) \in EPHEMERAL..(PORTS - 1)
<1>1. PORTS \in Nat \ {0} /\ EPHEMERAL \in Nat /\ EPHEMERAL < PORTS /\ p \in Nat
  BY DEF SockFits
<1>2. CASE p + 1 = PORTS
  <2>1. (p + 1) % PORTS = 0
    BY <1>1, <1>2
  <2> QED
    BY <1>1, <2>1 DEF Udp!After
<1>3. CASE p + 1 < PORTS
  <2>1. (p + 1) % PORTS = p + 1
    BY <1>1, <1>3
  <2> QED
    BY <1>1, <1>3, <2>1 DEF Udp!After
<1> QED
  BY <1>1, <1>2, <1>3

\* What a socket owes its queue.
OwnQueue(s) ==
    s.used => /\ Len(s.dq) <= UDP_RXQ_MAX
              /\ \A i \in 1..Len(s.dq) :
                    s.bound /\ s.dq[i].port = s.lport /\ s.lip \in {ANY, s.dq[i].ip}

\* Sockets r and s may be in the table together.
MayShare(r, s) ==
    /\ r.used /\ r.bound /\ s.used /\ s.bound /\ r.type = s.type /\ r.lport = s.lport
    /\ r.lip = s.lip \/ r.lip = ANY \/ s.lip = ANY
    => r.shares \/ s.shares

\* A receiver may sleep on s.
NothingIn(s) == s.used /\ ~s.shut_rd /\ s.dq = <<>>

TableInv ==
    /\ \A fd \in Udp!Fds : OwnQueue(socks[fd])
    /\ \A f, g \in Udp!Fds : f # g => MayShare(socks[f], socks[g])

WaitersInv ==
    \A t \in Threads : /\ receiver[t].pc # "out" => receiver[t].fd \in Udp!Fds
                       /\ receiver[t].pc = "asleep" => NothingIn(socks[receiver[t].fd])

SockInv == Udp!TypeOK /\ TableInv /\ WaitersInv

\* The table, but for fd, is as it was, and there is s.
SlotIs(fd, s) ==
    /\ socks' = [socks EXCEPT ![fd] = s]
    /\ s \in Udp!Sock /\ OwnQueue(s)
    /\ \A g \in Udp!Fds : g # fd => MayShare(s, socks[g])

\* Such a change of one slot keeps the types and the table.
LEMMA SlotChanges ==
    ASSUME SockInv, NEW fd \in Udp!Fds, NEW s, SlotIs(fd, s)
    PROVE  /\ socks' \in [Udp!Fds -> Udp!Sock] /\ TableInv'
           /\ socks'[fd] = s /\ \A g \in Udp!Fds : g # fd => socks'[g] = socks[g]
<1>1. socks' \in [Udp!Fds -> Udp!Sock]
  BY Zenon DEF SockInv, Udp!TypeOK, SlotIs
<1>2. socks'[fd] = s /\ \A g \in Udp!Fds : g # fd => socks'[g] = socks[g]
  BY Zenon DEF SockInv, Udp!TypeOK, SlotIs
<1>3. \A r, q : MayShare(r, q) => MayShare(q, r)
  BY Zenon DEF MayShare
<1>4. \A f, g \in Udp!Fds : f # g => MayShare(socks'[f], socks'[g])
  BY <1>2, <1>3, Zenon DEF SockInv, TableInv, SlotIs
<1>5. \A g \in Udp!Fds : OwnQueue(socks'[g])
  BY <1>2, Zenon DEF SockInv, TableInv, SlotIs
<1> QED
  BY <1>1, <1>2, <1>4, <1>5, Zenon DEF TableInv

\* Everybody who sleeps on fd is told.
LEMMA WokenSound ==
    ASSUME SockInv, NEW fd \in Udp!Fds, NEW s, SlotIs(fd, s), receiver' = Udp!Woken(fd),
           next_ephemeral' = next_ephemeral
    PROVE  SockInv'
<1>1. /\ socks' \in [Udp!Fds -> Udp!Sock] /\ TableInv'
      /\ \A g \in Udp!Fds : g # fd => socks'[g] = socks[g]
  BY SlotChanges, Zenon
<1>2. receiver' \in [Threads -> [pc : {"out", "asleep", "woken"}, fd : Udp!Fds \cup {NULL}]]
  BY DEF SockInv, Udp!TypeOK, Udp!Woken
<1>3. \A t \in Threads : /\ receiver'[t].pc # "out" => receiver[t].pc # "out"
                         /\ receiver'[t].fd = receiver[t].fd
                         /\ receiver'[t].pc = "asleep" => receiver[t].pc = "asleep" /\ receiver[t].fd # fd
  BY DEF SockInv, Udp!TypeOK, Udp!Woken
<1>4. WaitersInv'
  BY <1>1, <1>3 DEF SockInv, WaitersInv
<1> QED
  BY <1>1, <1>2, <1>4, Zenon DEF SockInv, Udp!TypeOK

\* A socket that gets nothing and loses nothing disturbs no receiver.
LEMMA QuietSound ==
    ASSUME SockInv, NEW fd \in Udp!Fds, NEW s, SlotIs(fd, s), NothingIn(socks[fd]) => NothingIn(s),
           receiver' = receiver, next_ephemeral' \in EPHEMERAL..(PORTS - 1)
    PROVE  SockInv'
<1>1. /\ socks' \in [Udp!Fds -> Udp!Sock] /\ TableInv'
      /\ socks'[fd] = s /\ \A g \in Udp!Fds : g # fd => socks'[g] = socks[g]
  BY SlotChanges, Zenon
<1>2. WaitersInv'
  BY <1>1 DEF SockInv, WaitersInv
<1> QED
  BY <1>1, <1>2, Zenon DEF SockInv, Udp!TypeOK

\* Binding: the port is free or will be shared, and nothing is in the queue yet.
LEMMA BoundSlot ==
    ASSUME SockInv, NEW fd \in Udp!Fds, socks[fd].used, ~socks[fd].bound,
           NEW ip \in Ips \cup {ANY}, NEW port \in Udp!Ports, NEW shares \in BOOLEAN,
           shares \/ ~Udp!sock_port_in_use(socks[fd].type, ip, port),
           socks' = [socks EXCEPT ![fd] = [socks[fd] EXCEPT !.lip = ip, !.lport = port, !.bound = TRUE,
                                                                  !.shares = shares]]
    PROVE  \E s : SlotIs(fd, s) /\ (NothingIn(socks[fd]) => NothingIn(s))
<1> DEFINE r == socks[fd]
           s == [r EXCEPT !.lip = ip, !.lport = port, !.bound = TRUE, !.shares = shares]
<1>1. r \in Udp!Sock /\ OwnQueue(r)
  BY Zenon DEF SockInv, Udp!TypeOK, TableInv
<1>2. r.dq \in Seq([ip : Ips, port : Udp!Ports]) /\ r.dq = <<>>
  <2>1. r.dq \in Seq([ip : Ips, port : Udp!Ports])
    BY <1>1 DEF Udp!Sock
  <2>2. \A i \in 1..Len(r.dq) : FALSE
    BY <1>1, Zenon DEF OwnQueue
  <2> QED
    BY <2>1, <2>2, NoElements, Zenon
<1>0. r.used /\ ~r.bound
  OBVIOUS
<1> HIDE DEF r
<1>3. /\ s \in Udp!Sock /\ s.used = r.used /\ s.type = r.type /\ s.dq = r.dq /\ s.shut_rd = r.shut_rd
      /\ s.lip = ip /\ s.lport = port /\ s.bound /\ s.shares = shares
  BY <1>1 DEF Udp!Sock
<1>4. socks' = [socks EXCEPT ![fd] = s]
  BY Zenon DEF r
<1> HIDE DEF s
<1>5. OwnQueue(s)
  BY <1>0, <1>1, <1>3, Zenon DEF OwnQueue
<1>6. ASSUME NEW g \in Udp!Fds, g # fd
      PROVE  MayShare(s, socks[g])
  BY <1>3, <1>6 DEF MayShare, Udp!sock_port_in_use, Udp!Bound, Udp!Used, r
<1> QED
  BY <1>3, <1>4, <1>5, <1>6, Zenon DEF SlotIs, NothingIn, r

\* A socket without a port gets one that no socket of its type has, as sendto does.
LEMMA AutoSound ==
    ASSUME SockFits, SockInv, NEW fd \in Udp!Fds, socks[fd].used, Udp!Auto(fd), receiver' = receiver
    PROVE  SockInv'
<1>1. CASE socks[fd].bound
  BY <1>1, Zenon DEF Udp!Auto, SockInv, Udp!TypeOK, TableInv, WaitersInv
<1>2. CASE ~socks[fd].bound
  <2> DEFINE p == Udp!sock_ephemeral_port(socks[fd].type)
             r == socks[fd]
  <2>1. p \in EPHEMERAL..(PORTS - 1) /\ ~Udp!sock_port_in_use(r.type, ANY, p)
    BY <1>2, FreePort, Zenon DEF SockInv
  <2>2. next_ephemeral' = Udp!After(p)
    BY <1>2, Zenon DEF Udp!Auto
  <2>3. socks' = [socks EXCEPT ![fd] = Udp!AutoBound(r, p)]
    BY <1>2 DEF Udp!Auto, SockInv, Udp!TypeOK
  <2> HIDE DEF p
  <2>4. p \in Udp!Ports
    BY <2>1 DEF SockFits, Udp!Ports
  <2>5. r \in Udp!Sock
    BY Zenon DEF SockInv, Udp!TypeOK
  <2> HIDE DEF r
  <2>6. Udp!AutoBound(r, p) = [r EXCEPT !.lip = r.lip, !.lport = p, !.bound = TRUE, !.shares = r.shares]
    BY <2>5, Zenon DEF Udp!AutoBound, Udp!Sock
  <2>7. r.lip \in Ips \cup {ANY} /\ r.shares \in BOOLEAN
    BY <2>5 DEF Udp!Sock
  <2>8. ~Udp!sock_port_in_use(r.type, r.lip, p)
    BY <2>1, Zenon DEF Udp!sock_port_in_use
  <2>9. \E s : SlotIs(fd, s) /\ (NothingIn(socks[fd]) => NothingIn(s))
    BY <1>2, <2>3, <2>4, <2>6, <2>7, <2>8, BoundSlot, Zenon DEF r
  <2>10. next_ephemeral' \in EPHEMERAL..(PORTS - 1)
    BY <2>1, <2>2, AfterEphemeral, Zenon
  <2> QED
    BY <2>9, <2>10, QuietSound, Zenon
<1> QED
  BY <1>1, <1>2, Zenon

\* bind, with a port of its own or an ephemeral one.
LEMMA BindSound ==
    ASSUME SockFits, SockInv, NEW fd \in Udp!Fds, NEW ip \in Ips \cup {ANY}, NEW port \in 0..EPHEMERAL,
           Udp!bind(fd, ip, port)
    PROVE  SockInv'
<1> DEFINE p == IF port = 0 THEN Udp!sock_ephemeral_port(socks[fd].type) ELSE port
           r == socks[fd]
<1>1. r.used /\ ~r.bound /\ receiver' = receiver
  BY Zenon DEF Udp!bind
<1>2. port = 0 => p \in EPHEMERAL..(PORTS - 1)
  BY <1>1, FreePort, Zenon DEF SockInv
<1>3. p \in Udp!Ports
  BY <1>2 DEF SockFits, Udp!Ports
<1>4. next_ephemeral' = IF port = 0 THEN Udp!After(p) ELSE next_ephemeral
  BY Zenon DEF Udp!bind
<1>5. next_ephemeral' \in EPHEMERAL..(PORTS - 1)
  BY <1>2, <1>4, AfterEphemeral, Zenon DEF SockInv, Udp!TypeOK
<1>6. CASE ~r.reuseaddr /\ Udp!sock_port_in_use(r.type, ip, p)
  <2>1. socks' = socks
    BY <1>6, Zenon DEF Udp!bind
  <2> QED
    BY <1>1, <1>5, <2>1, Zenon DEF SockInv, Udp!TypeOK, TableInv, WaitersInv
<1>7. CASE r.reuseaddr \/ ~Udp!sock_port_in_use(r.type, ip, p)
  <2>1. socks' = [socks EXCEPT ![fd] = [r EXCEPT !.lip = ip, !.lport = p, !.bound = TRUE, !.shares = r.reuseaddr]]
    BY <1>7, Zenon DEF Udp!bind
  <2>2. r.reuseaddr \in BOOLEAN
    BY DEF SockInv, Udp!TypeOK, Udp!Sock
  <2>3. \E s : SlotIs(fd, s) /\ (NothingIn(socks[fd]) => NothingIn(s))
    BY <1>1, <1>3, <1>7, <2>1, <2>2, BoundSlot, Zenon
  <2> QED
    BY <1>1, <1>5, <2>3, QuietSound, Zenon
<1> QED
  BY <1>6, <1>7, Zenon

\* A socket without a port, or a slot without a socket, clashes with none, and has an empty queue.
LEMMA UnboundSlot ==
    ASSUME SockFits, NEW fd \in Udp!Fds, NEW s \in Udp!Sock, ~s.bound, s.dq = <<>>,
           socks' = [socks EXCEPT ![fd] = s]
    PROVE  SlotIs(fd, s)
<1>1. Len(s.dq) <= UDP_RXQ_MAX /\ \A i \in 1..Len(s.dq) : FALSE
  BY DEF SockFits
<1>2. OwnQueue(s)
  BY <1>1, Zenon DEF OwnQueue
<1> QED
  BY <1>2, Zenon DEF SlotIs, MayShare

\* A new socket takes a slot on which nobody sleeps.
LEMMA SocketSound ==
    ASSUME SockFits, SockInv, NEW type \in Udp!Types, Udp!socket(type)
    PROVE  SockInv'
<1> DEFINE fd == Udp!First(Udp!Fds \ Udp!Used)
           s == Udp!Fresh(type)
<1>1. Udp!Fds \ Udp!Used \subseteq Nat /\ Udp!Fds \ Udp!Used # {}
  BY DEF Udp!socket, Udp!Fds, Udp!Used
<1>2. fd \in Udp!Fds /\ ~socks[fd].used
  BY <1>1, FirstSocket, Zenon DEF Udp!Used
<1>3. socks' = [socks EXCEPT ![fd] = s] /\ receiver' = receiver /\ next_ephemeral' = next_ephemeral
  BY Zenon DEF Udp!socket
<1> HIDE DEF fd
<1>4. s \in Udp!Sock /\ ~s.bound /\ s.dq = <<>>
  BY DEF SockFits, Udp!Fresh, Udp!Sock, Udp!Ports
<1> HIDE DEF s
<1>5. SlotIs(fd, s)
  BY <1>2, <1>3, <1>4, UnboundSlot, Zenon
<1>6. ~NothingIn(socks[fd])
  BY <1>2, Zenon DEF NothingIn
<1> QED
  BY <1>2, <1>3, <1>5, <1>6, QuietSound, Zenon DEF SockInv, Udp!TypeOK

\* A slot that is not in use.
LEMMA FreeSlot ==
    ASSUME SockFits
    PROVE  Udp!Free \in Udp!Sock /\ ~Udp!Free.bound /\ ~Udp!Free.used /\ Udp!Free.dq = <<>>
<1> DEFINE f == Udp!Fresh("DGRAM")
<1>1. f \in Udp!Sock /\ ~f.bound /\ f.dq = <<>>
  BY DEF SockFits, Udp!Fresh, Udp!Sock, Udp!Types, Udp!Ports
<1> HIDE DEF f
<1>2. Udp!Free = [f EXCEPT !.used = FALSE]
  BY Zenon DEF Udp!Free, f
<1> QED
  BY <1>1, <1>2, Zenon DEF Udp!Sock

\* A closed socket leaves an empty slot, and its receivers awake.
LEMMA CloseSound ==
    ASSUME SockFits, SockInv, NEW fd \in Udp!Fds, Udp!sock_close(fd)
    PROVE  SockInv'
<1>1. Udp!Free \in Udp!Sock /\ ~Udp!Free.bound /\ Udp!Free.dq = <<>>
  BY FreeSlot, Zenon
<1>2. socks' = [socks EXCEPT ![fd] = Udp!Free] /\ receiver' = Udp!Woken(fd) /\ next_ephemeral' = next_ephemeral
  BY Zenon DEF Udp!sock_close, Udp!WokenByClose
<1>3. SlotIs(fd, Udp!Free)
  BY <1>1, <1>2, UnboundSlot, Zenon
<1> QED
  BY <1>2, <1>3, WokenSound, Zenon

\* s has the port and the owner of r: what holds of r among the others holds of s.
Alike(r, s) ==
    /\ s.used = r.used /\ s.type = r.type /\ s.bound = r.bound /\ s.lip = r.lip /\ s.lport = r.lport
    /\ s.shares = r.shares

\* A slot that keeps its address may replace the one that is there.
LEMMA AlikeSlot ==
    ASSUME SockInv, NEW fd \in Udp!Fds, NEW s \in Udp!Sock, Alike(socks[fd], s), OwnQueue(s),
           socks' = [socks EXCEPT ![fd] = s]
    PROVE  SlotIs(fd, s)
<1>1. ASSUME NEW g \in Udp!Fds, g # fd
      PROVE  MayShare(s, socks[g])
  <2>1. MayShare(socks[fd], socks[g])
    BY <1>1, Zenon DEF SockInv, TableInv
  <2> QED
    BY <2>1 DEF MayShare, Alike
<1> QED
  BY <1>1, Zenon DEF SlotIs

\* An option, and a half that is shut down, change nothing that others see.
LEMMA OptionSound ==
    ASSUME SockInv, NEW fd \in Udp!Fds, NEW on \in BOOLEAN, Udp!setsockopt(fd, on)
    PROVE  SockInv'
<1> DEFINE r == socks[fd]
           s == [r EXCEPT !.reuseaddr = on]
<1>1. r \in Udp!Sock /\ OwnQueue(r)
  BY Zenon DEF SockInv, Udp!TypeOK, TableInv
<1>2. socks' = [socks EXCEPT ![fd] = s] /\ receiver' = receiver /\ next_ephemeral' = next_ephemeral
  BY Zenon DEF Udp!setsockopt
<1> HIDE DEF r
<1>3. s \in Udp!Sock /\ Alike(r, s) /\ s.dq = r.dq /\ s.shut_rd = r.shut_rd
  BY <1>1 DEF Udp!Sock, Alike
<1> HIDE DEF s
<1>4. OwnQueue(s)
  BY <1>1, <1>3 DEF OwnQueue, Alike
<1>5. SlotIs(fd, s)
  BY <1>2, <1>3, <1>4, AlikeSlot, Zenon DEF r
<1>6. NothingIn(socks[fd]) => NothingIn(s)
  BY <1>3, Zenon DEF NothingIn, Alike, r
<1> QED
  BY <1>2, <1>5, <1>6, QuietSound, Zenon DEF SockInv, Udp!TypeOK

\* shutdown wakes those who wait for a datagram of the socket.
LEMMA ShutdownSound ==
    ASSUME SockInv, NEW fd \in Udp!Fds, Udp!shutdown(fd)
    PROVE  SockInv'
<1> DEFINE r == socks[fd]
           s == [r EXCEPT !.shut_rd = TRUE]
<1>1. r \in Udp!Sock /\ OwnQueue(r)
  BY Zenon DEF SockInv, Udp!TypeOK, TableInv
<1>2. socks' = [socks EXCEPT ![fd] = s] /\ receiver' = Udp!Woken(fd) /\ next_ephemeral' = next_ephemeral
  BY Zenon DEF Udp!shutdown
<1> HIDE DEF r
<1>3. s \in Udp!Sock /\ Alike(r, s) /\ s.dq = r.dq
  BY <1>1, Zenon DEF Udp!Sock, Alike
<1> HIDE DEF s
<1>4. OwnQueue(s)
  BY <1>1, <1>3 DEF OwnQueue, Alike
<1>5. SlotIs(fd, s)
  BY <1>2, <1>3, <1>4, AlikeSlot, Zenon DEF r
<1> QED
  BY <1>2, <1>5, WokenSound, Zenon

\* udp_lookup finds the socket bound to the address, or one bound to any.
LEMMA LookupFinds ==
    ASSUME NEW ip, NEW port, NEW fd \in Udp!udp_lookup(ip, port)
    PROVE  /\ fd \in Udp!Fds /\ socks[fd].used /\ socks[fd].bound
           /\ socks[fd].lport = port /\ socks[fd].lip \in {ANY, ip}
<1>1. Udp!Exact(ip, port) \subseteq Nat
  BY DEF Udp!Exact, Udp!Bound, Udp!Used, Udp!Fds
<1>2. fd \in Udp!Exact(ip, port) \/ fd \in Udp!Wildcard(ip, port)
  BY <1>1, FirstSocket, Zenon DEF Udp!udp_lookup
<1> QED
  BY <1>2, Zenon DEF Udp!Exact, Udp!Wildcard, Udp!Bound, Udp!Used

\* A datagram is added to the queue of a socket it was sent to, and the receivers are told.
LEMMA InputSound ==
    ASSUME SockFits, SockInv, NEW ip \in Ips, NEW port \in Udp!Ports, Udp!udp_input(ip, port)
    PROVE  SockInv'
<1>1. PICK fd \in Udp!udp_lookup(ip, port) :
          /\ Len(socks[fd].dq) < UDP_RXQ_MAX
          /\ socks' = [socks EXCEPT ![fd].dq = Append(@, [ip |-> ip, port |-> port])]
          /\ receiver' = Udp!Woken(fd)
  BY Zenon DEF Udp!udp_input
<1> DEFINE r == socks[fd]
           d == [ip |-> ip, port |-> port]
           q == Append(r.dq, d)
           s == [r EXCEPT !.dq = q]
<1>2. fd \in Udp!Fds /\ r.used /\ r.bound /\ r.lport = port /\ r.lip \in {ANY, ip}
  BY LookupFinds
<1>3. r \in Udp!Sock /\ OwnQueue(r)
  BY <1>2, Zenon DEF SockInv, Udp!TypeOK, TableInv
<1>4. socks' = [socks EXCEPT ![fd] = s]
  BY <1>1
<1>5. Len(r.dq) < UDP_RXQ_MAX
  BY <1>1, Zenon
<1> HIDE DEF r
<1>6. r.dq \in Seq([ip : Ips, port : Udp!Ports]) /\ d \in [ip : Ips, port : Udp!Ports]
      /\ d.ip = ip /\ d.port = port
  BY <1>3 DEF Udp!Sock
<1> HIDE DEF d
<1>7. q \in Seq([ip : Ips, port : Udp!Ports]) /\ Grown(q, r.dq, d)
  BY <1>6, AppendElements, Zenon
<1> HIDE DEF q
<1>8. s \in Udp!Sock /\ Alike(r, s) /\ s.dq = q
  BY <1>3, <1>7 DEF Udp!Sock, Alike
<1> HIDE DEF s
<1>9. Len(q) <= UDP_RXQ_MAX
  <2>1. Len(r.dq) \in Nat /\ Len(q) = Len(r.dq) + 1
    BY <1>6, <1>7 DEF Grown
  <2> QED
    BY <1>5, <2>1 DEF SockFits
<1>10. OwnQueue(s)
  <2> SUFFICES ASSUME NEW i \in 1..Len(q)
               PROVE  s.bound /\ q[i].port = s.lport /\ s.lip \in {ANY, q[i].ip}
    BY <1>8, <1>9, Zenon DEF OwnQueue
  <2>1. CASE i \in 1..Len(r.dq) /\ q[i] = r.dq[i]
    BY <1>2, <1>3, <1>8, <2>1 DEF OwnQueue, Alike
  <2>2. CASE q[i] = d
    BY <1>2, <1>6, <1>8, <2>2 DEF Alike
  <2> QED
    BY <1>7, <2>1, <2>2, Zenon DEF Grown
<1>11. SlotIs(fd, s)
  BY <1>2, <1>4, <1>8, <1>10, AlikeSlot, Zenon DEF r
<1> QED
  BY <1>1, <1>2, <1>11, WokenSound, Zenon DEF Udp!udp_input

\* The loop of recvfrom takes a datagram, or leaves the table alone and sleeps on an empty queue.
LEMMA RecvSound ==
    ASSUME SockFits, SockInv, NEW t \in Threads, NEW fd \in Udp!Fds, socks[fd].used, Udp!RecvLoop(t, fd),
           next_ephemeral' = next_ephemeral
    PROVE  SockInv'
<1> DEFINE r == socks[fd]
           s == [r EXCEPT !.dq = Tail(r.dq)]
<1>0. r.used
  OBVIOUS
<1>1. r \in Udp!Sock /\ OwnQueue(r)
  BY Zenon DEF SockInv, Udp!TypeOK, TableInv
<1>2. Udp!Out \in [pc : {"out", "asleep", "woken"}, fd : Udp!Fds \cup {NULL}] /\ Udp!Out.pc = "out"
  BY DEF Udp!Out
<1>3. CASE r.dq # <<>>
  <2>1. receiver' = [receiver EXCEPT ![t] = Udp!Out]
    BY <1>3, Zenon DEF Udp!RecvLoop
  <2>2. socks' = [socks EXCEPT ![fd] = s]
    BY <1>3 DEF Udp!RecvLoop
  <2> HIDE DEF r
  <2>3. r.dq \in Seq([ip : Ips, port : Udp!Ports])
    BY <1>1 DEF Udp!Sock
  <2>4. Tail(r.dq) \in Seq([ip : Ips, port : Udp!Ports]) /\ Shrunk(Tail(r.dq), r.dq)
    BY <1>3, <2>3, TailElements, Zenon
  <2>5. s \in Udp!Sock /\ Alike(r, s) /\ s.dq = Tail(r.dq)
    BY <1>1, <2>4, Zenon DEF Udp!Sock, Alike
  <2> HIDE DEF s
  <2>6. OwnQueue(s)
    <3>1. Len(Tail(r.dq)) <= UDP_RXQ_MAX
      BY <1>0, <1>1, <2>4 DEF OwnQueue, Shrunk, SockFits, r
    <3>2. ASSUME NEW i \in 1..Len(Tail(r.dq))
          PROVE  r.bound /\ Tail(r.dq)[i].port = r.lport /\ r.lip \in {ANY, Tail(r.dq)[i].ip}
      BY <1>0, <1>1, <2>4 DEF OwnQueue, Shrunk
    <3> QED
      BY <2>5, <3>1, <3>2 DEF OwnQueue, Alike
  <2>7. SlotIs(fd, s)
    BY <2>2, <2>5, <2>6, AlikeSlot, Zenon DEF r
  <2>8. /\ socks' \in [Udp!Fds -> Udp!Sock] /\ TableInv'
        /\ \A g \in Udp!Fds : g # fd => socks'[g] = socks[g]
    BY <2>7, SlotChanges, Zenon
  <2>9. receiver' \in [Threads -> [pc : {"out", "asleep", "woken"}, fd : Udp!Fds \cup {NULL}]]
    BY <1>2, <2>1, Zenon DEF SockInv, Udp!TypeOK
  <2>10. receiver'[t].pc = "out" /\ \A u \in Threads : u # t => receiver'[u] = receiver[u]
    BY <1>2, <2>1, Zenon DEF SockInv, Udp!TypeOK
  <2>11. \A u \in Threads : receiver[u].pc = "asleep" => receiver[u].fd # fd
    BY <1>3, Zenon DEF SockInv, WaitersInv, NothingIn, r
  <2>12. WaitersInv'
    BY <2>8, <2>10, <2>11 DEF SockInv, WaitersInv
  <2> QED
    BY <2>8, <2>9, <2>12, Zenon DEF SockInv, Udp!TypeOK
<1>4. CASE r.dq = <<>>
  <2> DEFINE w == IF r.shut_rd THEN Udp!Out ELSE [receiver[t] EXCEPT !.pc = "asleep", !.fd = fd]
  <2>1. socks' = socks
    BY <1>4, Zenon DEF Udp!RecvLoop
  <2>2. receiver' = [receiver EXCEPT ![t] = w]
    BY <1>4, Zenon DEF Udp!RecvLoop, SockInv, Udp!TypeOK
  <2>3. /\ w \in [pc : {"out", "asleep", "woken"}, fd : Udp!Fds \cup {NULL}]
        /\ w.pc # "out" => w.fd = fd /\ ~r.shut_rd
    BY <1>2, Zenon DEF SockInv, Udp!TypeOK
  <2> HIDE DEF w
  <2>4. receiver' \in [Threads -> [pc : {"out", "asleep", "woken"}, fd : Udp!Fds \cup {NULL}]]
    BY <2>2, <2>3, Zenon DEF SockInv, Udp!TypeOK
  <2>5. receiver'[t] = w /\ \A u \in Threads : u # t => receiver'[u] = receiver[u]
    BY <2>2, Zenon DEF SockInv, Udp!TypeOK
  <2>6. w.pc # "out" => NothingIn(socks[fd])
    BY <1>4, <2>3, Zenon DEF NothingIn
  <2>7. WaitersInv'
    BY <2>1, <2>3, <2>5, <2>6 DEF SockInv, WaitersInv
  <2> QED
    BY <2>1, <2>4, <2>7, Zenon DEF SockInv, Udp!TypeOK, TableInv
<1> QED
  BY <1>3, <1>4, Zenon

\* A receiver leaves with nothing.
LEMMA LeaveSound ==
    ASSUME SockInv, NEW t \in Threads, receiver' = [receiver EXCEPT ![t] = Udp!Out],
           socks' = socks, next_ephemeral' = next_ephemeral
    PROVE  SockInv'
<1>1. Udp!Out \in [pc : {"out", "asleep", "woken"}, fd : Udp!Fds \cup {NULL}] /\ Udp!Out.pc = "out"
  BY DEF Udp!Out
<1>2. receiver' \in [Threads -> [pc : {"out", "asleep", "woken"}, fd : Udp!Fds \cup {NULL}]]
  BY <1>1, Zenon DEF SockInv, Udp!TypeOK
<1>3. receiver'[t].pc = "out" /\ \A u \in Threads : u # t => receiver'[u] = receiver[u]
  BY <1>1, Zenon DEF SockInv, Udp!TypeOK
<1>4. WaitersInv'
  BY <1>3 DEF SockInv, WaitersInv
<1> QED
  BY <1>2, <1>4, Zenon DEF SockInv, Udp!TypeOK, TableInv

\* Every call and every packet keeps the invariant.
LEMMA SockNextInv ==
    ASSUME SockFits, SockInv, [Udp!Next]_Udp!sockVars
    PROVE  SockInv'
<1>1. ASSUME NEW fd \in Udp!Fds, Udp!listen(fd) \/ Udp!connect(fd)
      PROVE  SockInv'
  BY <1>1, AutoSound, Zenon DEF Udp!listen, Udp!connect
<1>2. ASSUME NEW t \in Threads, NEW fd \in Udp!Fds, Udp!recvfrom(t, fd)
      PROVE  SockInv'
  BY <1>2, RecvSound, Zenon DEF Udp!recvfrom
<1>3. ASSUME NEW t \in Threads, Udp!Resume(t)
      PROVE  SockInv'
  <2>1. receiver[t].fd \in Udp!Fds /\ next_ephemeral' = next_ephemeral
    BY <1>3 DEF Udp!Resume, SockInv, WaitersInv
  <2>2. CASE socks[receiver[t].fd].used
    BY <1>3, <2>1, <2>2, RecvSound, Zenon DEF Udp!Resume
  <2>3. CASE ~socks[receiver[t].fd].used
    BY <1>3, <2>1, <2>3, LeaveSound, Zenon DEF Udp!Resume
  <2> QED
    BY <2>2, <2>3, Zenon
<1>4. ASSUME NEW t \in Threads, Udp!Timeout(t)
      PROVE  SockInv'
  BY <1>4, LeaveSound, Zenon DEF Udp!Timeout
<1>5. CASE UNCHANGED Udp!sockVars
  BY <1>5, Zenon DEF Udp!sockVars, SockInv, Udp!TypeOK, TableInv, WaitersInv
<1>6. ASSUME NEW fd \in Udp!Fds,
             \/ \E ip \in Ips \cup {ANY}, port \in 0..EPHEMERAL : Udp!bind(fd, ip, port)
             \/ Udp!shutdown(fd) \/ Udp!sock_close(fd)
             \/ \E b \in BOOLEAN : Udp!setsockopt(fd, b)
      PROVE  SockInv'
  BY <1>6, BindSound, ShutdownSound, CloseSound, OptionSound, Zenon
<1>7. ASSUME NEW ip \in Ips, NEW port \in Udp!Ports \ {0}, Udp!udp_input(ip, port)
      PROVE  SockInv'
  BY <1>7, InputSound, Zenon
<1>8. ASSUME NEW type \in Udp!Types, Udp!socket(type)
      PROVE  SockInv'
  BY <1>8, SocketSound, Zenon
<1> QED
  BY <1>1, <1>2, <1>3, <1>4, <1>5, <1>6, <1>7, <1>8, Zenon DEF Udp!Next

\* Two sockets of a type never have one address and port unless one asked to share, although
\* ports are handed out from a counter that wraps; a queue holds only what was sent to its
\* socket, not to the one that had the slot before, and never too much; and nobody sleeps in
\* recvfrom on a socket that is closed, shut down or has a datagram (bind, sock_ephemeral_port,
\* udp_input, recvfrom, sock_close), for any number of threads and sockets.
THEOREM SocketsSound ==
    ASSUME SockFits
    PROVE  Udp!Spec => [](Udp!TypeOK /\ Udp!PortsDistinct /\ Udp!QueueIsOwn /\ Udp!ReceiversWait)
<1>1. Udp!Init => SockInv
  <2> SUFFICES ASSUME Udp!Init
               PROVE  SockInv
    OBVIOUS
  <2>1. Udp!Free \in Udp!Sock /\ ~Udp!Free.bound /\ ~Udp!Free.used
    BY FreeSlot, Zenon
  <2>2. \A fd \in Udp!Fds : socks[fd] = Udp!Free
    BY Zenon DEF Udp!Init
  <2>3. TableInv
    BY <2>1, <2>2, Zenon DEF TableInv, OwnQueue, MayShare
  <2>4. \A t \in Threads : receiver[t] = Udp!Out
    BY Zenon DEF Udp!Init
  <2>5. Udp!Out \in [pc : {"out", "asleep", "woken"}, fd : Udp!Fds \cup {NULL}] /\ Udp!Out.pc = "out"
    BY DEF Udp!Out
  <2>6. WaitersInv
    BY <2>4, <2>5 DEF WaitersInv
  <2>7. next_ephemeral \in EPHEMERAL..(PORTS - 1)
    BY DEF Udp!Init, SockFits
  <2>8. Udp!TypeOK
    BY <2>1, <2>5, <2>7, Zenon DEF Udp!Init, Udp!TypeOK
  <2> QED
    BY <2>3, <2>6, <2>8, Zenon DEF SockInv
<1>2. SockInv /\ [Udp!Next]_Udp!sockVars => SockInv'
  BY SockNextInv, Zenon
<1>3. SockInv => Udp!TypeOK /\ Udp!PortsDistinct /\ Udp!QueueIsOwn /\ Udp!ReceiversWait
  <2> SUFFICES ASSUME SockInv
               PROVE  Udp!TypeOK /\ Udp!PortsDistinct /\ Udp!QueueIsOwn /\ Udp!ReceiversWait
    OBVIOUS
  <2>1. Udp!PortsDistinct
    BY Zenon DEF SockInv, TableInv, MayShare, Udp!PortsDistinct, Udp!Bound, Udp!Used
  <2>2. Udp!QueueIsOwn
    BY Zenon DEF SockInv, TableInv, OwnQueue, Udp!QueueIsOwn, Udp!Used
  <2>3. Udp!ReceiversWait
    BY Zenon DEF SockInv, WaitersInv, NothingIn, Udp!ReceiversWait
  <2> QED
    BY <2>1, <2>2, <2>3, Zenon DEF SockInv
<1> QED
  BY <1>1, <1>2, <1>3, PTL DEF Udp!Spec
=============================================================================
