------------------------------ MODULE TmpFile ------------------------------
(***************************************************************************)
(* The bytes of one regular file of the root file system and the           *)
(* descriptions open on it: tmpfs_read, tmpfs_write, tmpfs_truncate        *)
(* (kernel/fs/tmpfs.c) under vfs_fd_read, vfs_fd_write, vfs_lseek and      *)
(* fcntl (kernel/fs/vfs.c).  The file is a heap buffer of cap bytes that   *)
(* doubles, of which size are the file; what the heap hands out beyond the *)
(* old buffer is JUNK.  The calls do not block: each is one action.        *)
(***************************************************************************)
EXTENDS Integers, Sequences, FiniteSets

CONSTANTS Files,       \* open descriptions of the file
          Bytes,       \* byte values written; 0 is the zero byte
          MAXN,        \* the longest read or write
          MAXOFF,      \* the largest offset a program seeks to
          FIRSTCAP,    \* 64: the first capacity
          HEAP         \* the largest buffer the heap can give

VARIABLES data, cap, size,
          offset, append,
          content      \* the file as its writers see it: a sequence of bytes

tmpfile_vars == <<data, cap, size, offset, append, content>>

Cells == 0 .. HEAP - 1
JUNK == -1

\* while (ncap < end) ncap *= 2: the first of ncap, 2 ncap, 4 ncap... to reach end, the only
\* element of this set.
Doubled(ncap, end) ==
  {c \in ncap .. ncap + 2 * end : /\ \E k \in 0 .. end : c = ncap * 2^k
                                 /\ end <= c /\ (c > ncap => c < 2 * end)}

\* The file after n bytes b are written at `at`: a gap reads as zeros.
Overwrite(file, at, n, b) ==
  [i \in 1 .. (IF at + n > Len(file) THEN at + n ELSE Len(file)) |->
     IF at < i /\ i <= at + n THEN b ELSE IF i <= Len(file) THEN file[i] ELSE 0]

TmpFileInit == /\ data = [i \in Cells |-> JUNK] /\ cap = 0 /\ size = 0
               /\ offset = [f \in Files |-> 0] /\ append = [f \in Files |-> FALSE]
               /\ content = <<>>

\* The buffer after tmpfs_write: the gap is cleared, the bytes are copied.
Written(d, sz, at, n, b) ==
  [i \in Cells |-> IF at <= i /\ i < at + n THEN b ELSE IF sz <= i /\ i < at THEN 0 ELSE d[i]]

vfs_fd_write(f, n, b) ==
  LET at  == IF append[f] THEN size ELSE offset[f]
      end == at + n
  IN \E ncap \in IF end > cap THEN Doubled(IF cap = 0 THEN FIRSTCAP ELSE cap, end) ELSE {cap} :
     IF ncap > HEAP
     THEN /\ offset' = [offset EXCEPT ![f] = at]            \* -ENOMEM
          /\ UNCHANGED <<data, cap, size, append, content>>
     ELSE /\ data' = Written(data, size, at, n, b)
          /\ cap' = ncap
          /\ size' = IF end > size THEN end ELSE size
          /\ offset' = [offset EXCEPT ![f] = end]
          /\ content' = Overwrite(content, IF append[f] THEN Len(content) ELSE at, n, b)
          /\ UNCHANGED append

\* What tmpfs_read returns.
ReadCount(f, n) ==
  IF offset[f] >= size THEN 0 ELSE IF n > size - offset[f] THEN size - offset[f] ELSE n

vfs_fd_read(f, n) ==
  /\ offset' = [offset EXCEPT ![f] = @ + ReadCount(f, n)]
  /\ UNCHANGED <<data, cap, size, append, content>>

\* A target below zero is refused.
vfs_lseek(f, off, whence) ==
  LET base   == CASE whence = "CUR" -> offset[f] [] whence = "END" -> size [] whence = "SET" -> 0
      target == base + off
  IN /\ 0 <= target /\ target <= MAXOFF
     /\ offset' = [offset EXCEPT ![f] = target]
     /\ UNCHANGED <<data, cap, size, append, content>>

\* vfs_open with O_TRUNC: the buffer and its bytes stay.
tmpfs_truncate == /\ size' = 0 /\ content' = <<>>
                  /\ UNCHANGED <<data, cap, offset, append>>

\* fcntl(F_SETFL).
SetAppend(f) == /\ append' = [append EXCEPT ![f] = ~@]
                /\ UNCHANGED <<data, cap, size, offset, content>>

TmpFileNext ==
  \/ \E f \in Files, n \in 1 .. MAXN : vfs_fd_read(f, n) \/ \E b \in Bytes : vfs_fd_write(f, n, b)
  \/ \E f \in Files, off \in -1 .. MAXOFF, w \in {"SET", "CUR", "END"} : vfs_lseek(f, off, w)
  \/ tmpfs_truncate
  \/ \E f \in Files : SetAppend(f)

TmpFileSpec == TmpFileInit /\ [][TmpFileNext]_tmpfile_vars

-----------------------------------------------------------------------------
TypeOK == /\ data \in [Cells -> Bytes \cup {0, JUNK}]
          /\ cap \in 0 .. HEAP /\ size \in 0 .. HEAP
          /\ offset \in [Files -> 0 .. HEAP + MAXOFF]

\* The buffer holds the file byte for byte: overlapping writes, appends, gaps
\* left by seeks and what an earlier, longer file left in the buffer never
\* show through; a read returns no more than there is.
ReadsBack ==
  /\ size <= cap
  /\ size = Len(content)
  /\ \A i \in 1 .. size : data[i - 1] = content[i]
  /\ \A f \in Files, n \in 1 .. MAXN : offset[f] + ReadCount(f, n) <= size \/ ReadCount(f, n) = 0

=============================================================================
