----------------------------- MODULE VirtioBlk -----------------------------
(***************************************************************************)
(* One synchronous, polled request at a time on a virtio disk: vblk_rw of  *)
(* kernel/drivers/virtio_blk.c, and the device (external) that takes       *)
(* descriptor chains from the available ring and posts them to the used    *)
(* ring.  The ring indices are 16-bit counters, here modulo IDX.  The      *)
(* driver uses the same chain, header and status byte for every request;   *)
(* a request the device has not answered after 10^8 turns is given up.     *)
(***************************************************************************)
EXTENDS Integers, FiniteSets

CONSTANTS CAPACITY,   \* sectors of the disk
          MAXCOUNT,   \* the longest request
          IDX,        \* 2^16
          LATE,       \* whether the device answers a request that was given up
          NULL

VARIABLES hdr, status,        \* the request header and the status byte
          avail, used,        \* avail->idx and used->idx
          last_used,
          taken,              \* the chain the device has read and works on, or NULL
          call,               \* the request the driver polls for, or NULL
          result,             \* how the last request ended: [ok, done]
          done,               \* whether the device carried out the request of call
          givenup             \* whether a request was given up

vblk_vars == <<hdr, status, avail, used, last_used, taken, call, result, done, givenup>>

UNSET == 255

VblkInit == /\ hdr = NULL /\ status = UNSET
            /\ avail = 0 /\ used = 0 /\ last_used = 0
            /\ taken = NULL /\ call = NULL /\ result = NULL /\ done = FALSE
            /\ givenup = FALSE

InRange(sector, count) == sector + count <= CAPACITY

\* Up to the notification of the device.
vblk_rw(sector, count, type) ==
  /\ call = NULL
  /\ InRange(sector, count)
  /\ hdr' = [sector |-> sector, count |-> count, type |-> type]
  /\ status' = UNSET
  /\ avail' = (avail + 1) % IDX
  /\ call' = hdr' /\ done' = FALSE
  /\ result' = NULL
  /\ UNCHANGED <<used, last_used, taken, givenup>>

\* Mutant: the driver's view of the used ring is not brought up to date.
PollKeepsView ==
  /\ call # NULL /\ used # last_used
  /\ result' = [ok |-> status = 0, done |-> done]
  /\ call' = NULL
  /\ UNCHANGED <<hdr, status, avail, used, last_used, taken, done, givenup>>

\* The poll loop ends: the status byte is the answer.
Poll == /\ call # NULL /\ used # last_used
        /\ last_used' = used
        /\ result' = [ok |-> status = 0, done |-> done]
        /\ call' = NULL
        /\ UNCHANGED <<hdr, status, avail, used, taken, done, givenup>>

\* "request timeout": the chain stays with the device.
GiveUp == /\ call # NULL /\ used = last_used
          /\ result' = [ok |-> FALSE, done |-> done]
          /\ call' = NULL /\ givenup' = TRUE
          /\ UNCHANGED <<hdr, status, avail, used, last_used, taken, done>>

\* The device (external): reads the next chain, later carries it out and posts it.
DeviceTakes == /\ taken = NULL /\ avail # used
               /\ givenup => LATE
               /\ taken' = hdr
               /\ UNCHANGED <<hdr, status, avail, used, last_used, call, result, done, givenup>>

DeviceAnswers ==
  /\ taken # NULL
  /\ givenup => LATE
  /\ \E answer \in {0, 1} :
       /\ status' = answer
       /\ done' = (done \/ (taken = call /\ answer = 0))
  /\ used' = (used + 1) % IDX
  /\ taken' = NULL
  /\ UNCHANGED <<hdr, avail, last_used, call, result, givenup>>

VblkNext == \/ \E s \in 0 .. CAPACITY, n \in 1 .. MAXCOUNT, t \in {"in", "out"} : vblk_rw(s, n, t)
            \/ Poll \/ GiveUp \/ DeviceTakes \/ DeviceAnswers

VblkSpec == VblkInit /\ [][VblkNext]_vblk_vars

-----------------------------------------------------------------------------
TypeOK == /\ status \in {0, 1, UNSET}
          /\ {avail, used, last_used} \subseteq 0 .. IDX - 1
          /\ givenup \in BOOLEAN

\* A request that reports success has been carried out, whole and inside the
\* disk ("One synchronous, polled request", virtio_blk.c:173), also when the
\* ring indices wrap.
SuccessIsDone ==
  /\ result # NULL => (result.ok => result.done)
  /\ hdr # NULL => hdr.sector + hdr.count <= CAPACITY

=============================================================================
