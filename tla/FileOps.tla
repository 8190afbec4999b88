------------------------------ MODULE FileOps ------------------------------
(***************************************************************************)
(* What the READ, WRITE, REPLACE and DELETE services of the server compute *)
(* from a file's content (server/apis/*/service/*.go): the checks on a     *)
(* request, the slice expressions that panic when out of bounds, and the   *)
(* new content, built in a buffer with copy, or in place with append.      *)
(*                                                                         *)
(* A content is a sequence of bytes; offsets count from 0, as in the code. *)
(***************************************************************************)
EXTENDS Naturals, Sequences

CONSTANT WordSize   \* number of values of a uint32: 2^32 in the code

ASSUME WordAssumption == WordSize \in Nat \ {0}

\* The end of the segment a request names, in uint32 arithmetic.
End(r) ==
  (r.offset + (IF r.op \in {"READ", "DELETE"} THEN r.numBytes ELSE Len(r.content)))
    % WordSize

OffsetOnly(r, f) == r.offset > Len(f)

\* The sanity checks: what the service answers with an error.
Fails(r, f) ==
  \/ r.offset > Len(f)
  \/ r.op \in {"READ", "DELETE"} /\ End(r) > Len(f)

\* A slice expression of the service is out of bounds.  WRITE's buffer has the
\* room; REPLACE's has that of the file.
Panics(r, f) ==
  /\ ~Fails(r, f)
  /\ r.op # "WRITE"
  /\ End(r) < r.offset \/ End(r) > Len(f)

-----------------------------------------------------------------------------
\* make([]byte, n)
Zeros(n) == [k \in 1..n |-> 0]

CopyOneLate(buf, from, src) ==
  [k \in 1..Len(buf) |->
     IF from + 1 < k /\ k <= from + Len(src) THEN src[k - from] ELSE buf[k]]

\* buf after copy(buf[from:], src), which fits.
Copy(buf, from, src) ==
  [k \in 1..Len(buf) |->
     IF from < k /\ k <= from + Len(src) THEN src[k - from] ELSE buf[k]]

Before(f, o) == SubSeq(f, 1, o)
After(f, o) == SubSeq(f, o + 1, Len(f))

\* WRITE and REPLACE copy to a fresh buffer the file up to the offset, then the
\* content, then a rest of the file.
Assembled(size, f, o, c, rest) ==
  LET b1 == Copy(Zeros(size), 0, Before(f, o))
      b2 == Copy(b1, o, c)
  IN  Copy(b2, o + Len(c), rest)

Inserted(f, o, c) == Assembled(Len(f) + Len(c), f, o, c, After(f, o))

Overwritten(f, o, c) == Assembled(Len(f), f, o, c, After(f, o + Len(c)))

DeletedOneEarly(f, o, n) ==
  [k \in 1..(Len(f) - n) |-> IF k < o THEN f[k] ELSE f[k + n]]

\* append(f[:o], f[o+n:]...) moves the bytes after the segment down, in place.
Deleted(f, o, n) ==
  [k \in 1..(Len(f) - n) |-> IF k <= o THEN f[k] ELSE f[k + n]]

\* The content an update writes out.
Updated(r, f) ==
  CASE r.op = "WRITE"   -> Inserted(f, r.offset, r.content)
    [] r.op = "REPLACE" -> Overwritten(f, r.offset, r.content)
    [] r.op = "DELETE"  -> Deleted(f, r.offset, r.numBytes)

-----------------------------------------------------------------------------
(***************************************************************************)
(* What the operations mean: a segment of a content is put in the place of *)
(* another.                                                                *)
(***************************************************************************)

\* f with its n bytes from offset o on replaced by c.
Splice(f, o, n, c) == SubSeq(f, 1, o) \o c \o SubSeq(f, o + n + 1, Len(f))

Meant(r, f) ==
  CASE r.op = "WRITE"   -> Splice(f, r.offset, 0, r.content)
    [] r.op = "REPLACE" -> Splice(f, r.offset, Len(r.content), r.content)
    [] r.op = "DELETE"  -> Splice(f, r.offset, r.numBytes, <<>>)

=============================================================================
