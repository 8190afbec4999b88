----------------------------- MODULE WireProofs -----------------------------
(***************************************************************************)
(* Proofs about Wire: for requests and responses of any length, what one   *)
(* side marshals the other unmarshals, and what a receive buffer has cut   *)
(* off is refused.                                                         *)
(***************************************************************************)
EXTENDS Wire, SequenceTheorems, TLAPS

(***************************************************************************)
(* Where the fields of a byte vector are.                                  *)
(***************************************************************************)

\* The bytes of x are in b, after the first at of it.
HoldsAt(b, at, x) ==
  /\ at + Len(x) <= Len(b)
  /\ \A k \in 1..Len(x) : b[at + k] = x[k]

LEMMA HoldsWhole ==
  ASSUME NEW S, NEW x \in Seq(S)
  PROVE  HoldsAt(x, 0, x)
BY LenProperties DEF HoldsAt

LEMMA HoldsLeft ==
  ASSUME NEW S, NEW a \in Seq(S), NEW c \in Seq(S), NEW x \in Seq(S),
         NEW at \in Nat, HoldsAt(a, at, x)
  PROVE  HoldsAt(a \o c, at, x)
<1>1. Len(a) \in Nat /\ Len(c) \in Nat /\ Len(x) \in Nat
  BY LenProperties
<1>. DEFINE b == a \o c
<1>2. /\ Len(b) = Len(a) + Len(c)
      /\ \A k \in 1..(Len(a) + Len(c)) :
           b[k] = IF k <= Len(a) THEN a[k] ELSE c[k - Len(a)]
  BY ConcatProperties
<1>. HIDE DEF b
<1>3. HoldsAt(b, at, x)
  BY <1>1, <1>2 DEF HoldsAt
<1>. QED  BY <1>3 DEF b

LEMMA HoldsRight ==
  ASSUME NEW S, NEW a \in Seq(S), NEW c \in Seq(S), NEW x \in Seq(S),
         NEW at \in Nat, HoldsAt(c, at, x)
  PROVE  HoldsAt(a \o c, Len(a) + at, x)
<1>1. Len(a) \in Nat /\ Len(c) \in Nat /\ Len(x) \in Nat
  BY LenProperties
<1>. DEFINE b == a \o c
<1>2. /\ Len(b) = Len(a) + Len(c)
      /\ \A k \in 1..(Len(a) + Len(c)) :
           b[k] = IF k <= Len(a) THEN a[k] ELSE c[k - Len(a)]
  BY ConcatProperties
<1>. HIDE DEF b
<1>3. ASSUME NEW k \in 1..Len(x)
      PROVE  b[(Len(a) + at) + k] = x[k]
  <2>1. /\ (Len(a) + at) + k \in 1..(Len(a) + Len(c))
        /\ ~((Len(a) + at) + k <= Len(a))
        /\ ((Len(a) + at) + k) - Len(a) = at + k
    BY <1>1 DEF HoldsAt
  <2>2. b[(Len(a) + at) + k] = c[at + k]
    BY <1>2, <2>1
  <2>. QED  BY <2>2 DEF HoldsAt
<1>4. (Len(a) + at) + Len(x) <= Len(b)
  BY <1>1, <1>2 DEF HoldsAt
<1>5. HoldsAt(b, Len(a) + at, x)
  BY <1>3, <1>4 DEF HoldsAt
<1>. QED  BY <1>5 DEF b

LEMMA SliceElements ==
  ASSUME NEW S, NEW b \in Seq(S), NEW from \in Nat, NEW to \in Nat,
         from <= to, to <= Len(b)
  PROVE  /\ Slice(b, from, to) \in Seq(S)
         /\ Len(Slice(b, from, to)) = to - from
         /\ \A k \in 1..(to - from) : Slice(b, from, to)[k] = b[from + k]
<1>1. Len(b) \in Nat /\ from + 1 \in Int /\ to \in Int
  BY LenProperties
<1>2. \A k \in (from + 1)..to : b[k] \in S
  BY <1>1, ElementOfSeq
<1>3. /\ Slice(b, from, to) \in Seq(S)
      /\ Len(Slice(b, from, to)) =
           IF from + 1 <= to THEN to - (from + 1) + 1 ELSE 0
      /\ \A k \in 1..(to - (from + 1) + 1) :
           Slice(b, from, to)[k] = b[(from + 1) + k - 1]
  BY <1>1, <1>2, SubSeqProperties DEF Slice
<1>. QED  BY <1>1, <1>3

LEMMA RestElements ==
  ASSUME NEW S, NEW b \in Seq(S), NEW from \in Nat, from <= Len(b)
  PROVE  /\ Slice(b, from, Len(b)) \in Seq(S)
         /\ Len(Slice(b, from, Len(b))) = Len(b) - from
<1>1. Len(b) \in Nat /\ Len(b) <= Len(b)
  BY LenProperties
<1>. QED  BY <1>1, SliceElements

\* What is held can be sliced out.
LEMMA SliceHeld ==
  ASSUME NEW S, NEW b \in Seq(S), NEW x \in Seq(S), NEW at \in Nat,
         HoldsAt(b, at, x)
  PROVE  Slice(b, at, at + Len(x)) = x
<1>1. /\ Len(b) \in Nat /\ Len(x) \in Nat
      /\ at + Len(x) \in Nat /\ at <= at + Len(x) /\ at + Len(x) <= Len(b)
  BY LenProperties DEF HoldsAt
<1>. DEFINE y == Slice(b, at, at + Len(x))
<1>2. /\ y \in Seq(S) /\ Len(y) = (at + Len(x)) - at
      /\ \A k \in 1..((at + Len(x)) - at) : y[k] = b[at + k]
  BY <1>1, SliceElements
<1>. HIDE DEF y
<1>3. Len(y) = Len(x) /\ \A k \in 1..Len(x) : y[k] = b[at + k]
  <2>1. (at + Len(x)) - at = Len(x)
    BY <1>1
  <2>. QED  BY <1>2, <2>1
<1>4. \A k \in 1..Len(x) : b[at + k] = x[k]
  BY DEF HoldsAt
<1>5. Len(y) = Len(x) /\ \A k \in 1..Len(y) : y[k] = x[k]
  BY <1>3, <1>4, Zenon
<1>. QED  BY <1>2, <1>5, SeqEqual DEF y

\* A slice holds what is held inside of it.
LEMMA HoldsInSlice ==
  ASSUME NEW S, NEW b \in Seq(S), NEW x \in Seq(S), NEW from \in Nat, NEW to \in Nat,
         from <= to, to <= Len(b), NEW at \in Nat,
         HoldsAt(b, from + at, x), (from + at) + Len(x) <= to
  PROVE  HoldsAt(Slice(b, from, to), at, x)
<1>1. Len(b) \in Nat /\ Len(x) \in Nat
  BY LenProperties
<1>. DEFINE d == Slice(b, from, to)
<1>2. Len(d) = to - from /\ \A k \in 1..(to - from) : d[k] = b[from + k]
  BY SliceElements
<1>. HIDE DEF d
<1>3. ASSUME NEW k \in 1..Len(x)
      PROVE  d[at + k] = x[k]
  <2>1. at + k \in 1..(to - from) /\ from + (at + k) = (from + at) + k
    BY <1>1
  <2>2. d[at + k] = b[(from + at) + k]
    BY <1>2, <2>1
  <2>. QED  BY <2>2 DEF HoldsAt
<1>4. HoldsAt(d, at, x)
  BY <1>1, <1>2, <1>3 DEF HoldsAt
<1>. QED  BY <1>4 DEF d

(***************************************************************************)
(* Numbers and strings.                                                    *)
(***************************************************************************)

LEMMA Uint32Bytes ==
  ASSUME NEW n \in Count
  PROVE  /\ n \in Nat
         /\ Uint32(n) \in Seq(Byte)
         /\ Len(Uint32(n)) = 4
         /\ Number(Uint32(n), 0) = n
<1>1. n \in Nat /\ n < 256 * 16777216
  BY SMT DEF Count
<1>2. /\ n \div 16777216 \in Byte /\ (n \div 65536) % 256 \in Byte
      /\ (n \div 256) % 256 \in Byte /\ n % 256 \in Byte
  BY <1>1, SMT DEF Byte
<1>3. 16777216 * (n \div 16777216) + 65536 * ((n \div 65536) % 256)
        + 256 * ((n \div 256) % 256) + (n % 256) = n
  BY <1>1, SMT
<1>4. Uint32(n) \in Seq(Byte) /\ Len(Uint32(n)) = 4
  BY <1>2, SMT DEF Uint32
<1>5. Number(Uint32(n), 0) = n
  BY <1>1, <1>3, SMT DEF Uint32, Number
<1>. QED  BY <1>1, <1>4, <1>5

\* A number that is held is read back.
LEMMA NumberHeld ==
  ASSUME NEW b, NEW at \in Nat, NEW n \in Count, HoldsAt(b, at, Uint32(n))
  PROVE  Number(b, at) = n
<1>. DEFINE u == Uint32(n)
<1>1. Len(u) = 4 /\ Number(u, 0) = n
  BY Uint32Bytes
<1>. HIDE DEF u
<1>2. /\ b[at + 1] = u[1] /\ b[at + 2] = u[2]
      /\ b[at + 3] = u[3] /\ b[at + 4] = u[4]
  BY <1>1 DEF HoldsAt, u
<1>3. Number(b, at) = Number(u, 0)
  BY <1>2, SMT DEF Number
<1>. QED  BY <1>1, <1>3

Strings == {s \in Seq(Byte) : Len(s) \in Count}

LEMMA StrFields ==
  ASSUME NEW s \in Strings
  PROVE  /\ s \in Seq(Byte) /\ Len(s) \in Count /\ Len(s) \in Nat
         /\ Str(s) \in Seq(Byte) /\ Len(Str(s)) = 4 + Len(s)
         /\ HoldsAt(Str(s), 0, Uint32(Len(s)))
         /\ HoldsAt(Str(s), 4, s)
<1>1. s \in Seq(Byte) /\ Len(s) \in Count
  BY DEF Strings
<1>. DEFINE u == Uint32(Len(s))
<1>2. u \in Seq(Byte) /\ Len(u) = 4 /\ Len(s) \in Nat
  BY <1>1, Uint32Bytes
<1>3. Str(s) = u \o s
  BY DEF Str
<1>. HIDE DEF u
<1>4. Str(s) \in Seq(Byte) /\ Len(Str(s)) = 4 + Len(s)
  <2>1. u \o s \in Seq(Byte) /\ Len(u \o s) = Len(u) + Len(s)
    BY <1>1, <1>2, ConcatProperties
  <2>. QED  BY <1>2, <1>3, <2>1
<1>5. HoldsAt(Str(s), 0, u)
  BY <1>1, <1>2, <1>3, HoldsWhole, HoldsLeft
<1>6. HoldsAt(Str(s), 4 + 0, s)
  BY <1>1, <1>2, <1>3, HoldsWhole, HoldsRight
<1>. QED  BY <1>1, <1>2, <1>4, <1>5, <1>6 DEF u

(***************************************************************************)
(* The fields of a marshalled request.                                     *)
(***************************************************************************)

WireRequests ==
  [op : {"READ", "DELETE"}, pathname : Strings, offset : Count, numBytes : Count]
    \cup
  [op : {"WRITE", "REPLACE"}, pathname : Strings, offset : Count, content : Strings]
    \cup
  [op : {"SUBSCRIBE"}, pathname : Strings, monitorIntervalSeconds : Count]
    \cup
  [op : {"GET_LAST_MODIFIED_TIME"}, pathname : Strings]

\* a and then u: the fields of a keep their places.
LEMMA Appended ==
  ASSUME NEW a \in Seq(Byte), NEW u \in Seq(Byte)
  PROVE  /\ a \o u \in Seq(Byte)
         /\ Len(a \o u) = Len(a) + Len(u)
         /\ HoldsAt(a \o u, Len(a), u)
         /\ \A at \in Nat : \A x \in Seq(Byte) :
              HoldsAt(a, at, x) => HoldsAt(a \o u, at, x)
<1>1. a \o u \in Seq(Byte) /\ Len(a \o u) = Len(a) + Len(u)
  BY ConcatProperties
<1>2. HoldsAt(u, 0, u) /\ 0 \in Nat
  BY HoldsWhole
<1>3. HoldsAt(a \o u, Len(a) + 0, u)
  BY <1>2, HoldsRight, Zenon
<1>4. Len(a) + 0 = Len(a)
  BY LenProperties
<1>. QED  BY <1>1, <1>3, <1>4, HoldsLeft, Zenon

\* The header and the pathname.
HasPath(b, op, p) ==
  /\ b \in Seq(Byte)
  /\ HoldsAt(b, 0, <<MessageType[op]>>)
  /\ HoldsAt(b, 5, Uint32(Len(p)))
  /\ HoldsAt(b, 9, p)

LEMMA OpByte ==
  ASSUME NEW op \in Ops
  PROVE  <<MessageType[op]>> \in Seq(Byte) /\ Len(<<MessageType[op]>>) = 1
<1>1. MessageType[op] \in Byte
  BY DEF Ops, MessageType, Byte
<1>. QED  BY <1>1

LEMMA PathPart ==
  ASSUME NEW op \in Ops, NEW id \in Count, NEW p \in Strings
  PROVE  /\ HasPath(Header(op, id) \o Str(p), op, p)
         /\ Len(Header(op, id) \o Str(p)) = 9 + Len(p)
<1>. DEFINE t == <<MessageType[op]>>
            h == Header(op, id)
            b == h \o Str(p)
<1>1. t \in Seq(Byte) /\ Len(t) = 1
  BY OpByte
<1>2. Uint32(id) \in Seq(Byte) /\ Len(Uint32(id)) = 4
  BY Uint32Bytes
<1>3. h = t \o Uint32(id)
  BY DEF Header
<1>. HIDE DEF t
<1>4. h \in Seq(Byte) /\ Len(h) = 5 /\ HoldsAt(h, 0, t)
  <2>1. HoldsAt(t, 0, t) /\ 0 \in Nat
    BY <1>1, HoldsWhole
  <2>2. /\ t \o Uint32(id) \in Seq(Byte) /\ Len(t \o Uint32(id)) = 1 + 4
        /\ HoldsAt(t \o Uint32(id), 0, t)
    BY <1>1, <1>2, <2>1, Appended
  <2>. QED  BY <1>3, <2>2
<1>. HIDE DEF h
<1>5. /\ p \in Seq(Byte) /\ Len(p) \in Nat
      /\ Str(p) \in Seq(Byte) /\ Len(Str(p)) = 4 + Len(p)
      /\ HoldsAt(Str(p), 0, Uint32(Len(p))) /\ HoldsAt(Str(p), 4, p)
      /\ Uint32(Len(p)) \in Seq(Byte)
  BY StrFields, Uint32Bytes
<1>6. b \in Seq(Byte) /\ Len(b) = 9 + Len(p) /\ HoldsAt(b, 0, t)
  <2>1. /\ b \in Seq(Byte) /\ Len(b) = Len(h) + Len(Str(p))
        /\ HoldsAt(h, 0, t) => HoldsAt(b, 0, t)
    BY <1>1, <1>4, <1>5, Appended
  <2>. QED  BY <1>4, <1>5, <2>1
<1>7. HoldsAt(b, Len(h) + 0, Uint32(Len(p))) /\ HoldsAt(b, Len(h) + 4, p)
  BY <1>4, <1>5, HoldsRight, Zenon
<1>8. Len(h) + 0 = 5 /\ Len(h) + 4 = 9
  BY <1>4
<1>. QED  BY <1>6, <1>7, <1>8, Zenon DEF HasPath, t, h

\* One more field leaves the others in their places.
LEMMA PathStays ==
  ASSUME NEW op \in Ops, NEW p \in Strings, NEW b, HasPath(b, op, p),
         NEW u \in Seq(Byte)
  PROVE  HasPath(b \o u, op, p)
<1>1. /\ <<MessageType[op]>> \in Seq(Byte) /\ p \in Seq(Byte)
      /\ Uint32(Len(p)) \in Seq(Byte)
  BY OpByte, StrFields, Uint32Bytes
<1>2. 0 \in Nat /\ 5 \in Nat /\ 9 \in Nat /\ b \in Seq(Byte)
  BY DEF HasPath
<1>. QED  BY <1>1, <1>2, Appended, Zenon DEF HasPath

\* The fields of each request, and its length.
LEMMA SegmentFields ==
  ASSUME NEW op \in {"READ", "DELETE"}, NEW id \in Count,
         NEW r \in [op : {op}, pathname : Strings, offset : Count, numBytes : Count],
         NEW b, b = MarshalRequest(id, r)
  PROVE  /\ HasPath(b, op, r.pathname)
         /\ Len(b) = 17 + Len(r.pathname)
         /\ HoldsAt(b, 9 + Len(r.pathname), Uint32(r.offset))
         /\ HoldsAt(b, 13 + Len(r.pathname), Uint32(r.numBytes))
<1>. DEFINE p == r.pathname
            u == Uint32(r.offset)
            v == Uint32(r.numBytes)
            a == Header(op, id) \o Str(p)
<1>1. /\ p \in Strings /\ r.op = op /\ op \in Ops
      /\ r.offset \in Count /\ r.numBytes \in Count
  BY DEF Ops, MessageType
<1>2. u \in Seq(Byte) /\ v \in Seq(Byte) /\ Len(u) = 4 /\ Len(v) = 4
  BY <1>1, Uint32Bytes
<1>3. b = (a \o u) \o v
  BY <1>1, Zenon DEF MarshalRequest, marshalReadRequest, marshalDeleteRequest
<1>4. HasPath(a, op, p) /\ Len(a) = 9 + Len(p) /\ Len(p) \in Nat
  BY <1>1, PathPart, StrFields
<1>. HIDE DEF p, u, v, a
<1>5. a \in Seq(Byte)
  BY <1>4 DEF HasPath
<1>6. /\ a \o u \in Seq(Byte) /\ Len(a \o u) = 13 + Len(p)
      /\ HoldsAt(a \o u, 9 + Len(p), u) /\ HasPath(a \o u, op, p)
  <2>1. /\ a \o u \in Seq(Byte) /\ Len(a \o u) = Len(a) + Len(u)
        /\ HoldsAt(a \o u, Len(a), u)
    BY <1>2, <1>5, Appended
  <2>2. HasPath(a \o u, op, p)
    BY <1>1, <1>2, <1>4, PathStays, Zenon
  <2>. QED  BY <1>2, <1>4, <2>1, <2>2
<1>. DEFINE au == a \o u
<1>. HIDE DEF au
<1>7. /\ au \in Seq(Byte) /\ Len(au) = 13 + Len(p) /\ b = au \o v
      /\ HoldsAt(au, 9 + Len(p), u) /\ HasPath(au, op, p) /\ 9 + Len(p) \in Nat
  BY <1>3, <1>4, <1>6 DEF au
<1>8. /\ Len(au \o v) = Len(au) + Len(v) /\ HoldsAt(au \o v, Len(au), v)
      /\ HoldsAt(au \o v, 9 + Len(p), u)
  BY <1>2, <1>7, Appended
<1>9. HasPath(au \o v, op, p)
  BY <1>1, <1>2, <1>7, PathStays, Zenon
<1>10. Len(au) + Len(v) = 17 + Len(p)
  BY <1>2, <1>4, <1>7
<1>. QED  BY <1>7, <1>8, <1>9, <1>10, Zenon DEF p, u, v

LEMMA ContentFields ==
  ASSUME NEW op \in {"WRITE", "REPLACE"}, NEW id \in Count,
         NEW r \in [op : {op}, pathname : Strings, offset : Count, content : Strings],
         NEW b, b = MarshalRequest(id, r)
  PROVE  /\ HasPath(b, op, r.pathname)
         /\ Len(b) = (17 + Len(r.pathname)) + Len(r.content)
         /\ HoldsAt(b, 9 + Len(r.pathname), Uint32(r.offset))
         /\ HoldsAt(b, 13 + Len(r.pathname), Uint32(Len(r.content)))
         /\ HoldsAt(b, 17 + Len(r.pathname), r.content)
<1>. DEFINE p == r.pathname
            c == r.content
            u == Uint32(r.offset)
            n == Uint32(Len(c))
            v == Str(c)
            a == Header(op, id) \o Str(p)
<1>1. /\ p \in Strings /\ c \in Strings /\ r.op = op /\ op \in Ops
      /\ r.offset \in Count
  BY DEF Ops, MessageType
<1>2. /\ u \in Seq(Byte) /\ Len(u) = 4 /\ v \in Seq(Byte) /\ Len(v) = 4 + Len(c)
      /\ c \in Seq(Byte) /\ Len(c) \in Nat /\ n \in Seq(Byte)
      /\ HoldsAt(v, 0, n) /\ HoldsAt(v, 4, c)
  BY <1>1, Uint32Bytes, StrFields
<1>3. b = (a \o u) \o v
  BY <1>1, Zenon DEF MarshalRequest, marshalWriteRequest, marshalReplaceRequest
<1>4. HasPath(a, op, p) /\ Len(a) = 9 + Len(p) /\ Len(p) \in Nat
  BY <1>1, PathPart, StrFields
<1>. HIDE DEF p, c, u, n, v, a
<1>5. a \in Seq(Byte)
  BY <1>4 DEF HasPath
<1>6. /\ a \o u \in Seq(Byte) /\ Len(a \o u) = 13 + Len(p)
      /\ HoldsAt(a \o u, 9 + Len(p), u) /\ HasPath(a \o u, op, p)
  <2>1. /\ a \o u \in Seq(Byte) /\ Len(a \o u) = Len(a) + Len(u)
        /\ HoldsAt(a \o u, Len(a), u)
    BY <1>2, <1>5, Appended
  <2>2. HasPath(a \o u, op, p)
    BY <1>1, <1>2, <1>4, PathStays, Zenon
  <2>. QED  BY <1>2, <1>4, <2>1, <2>2
<1>. DEFINE au == a \o u
<1>. HIDE DEF au
<1>7. /\ au \in Seq(Byte) /\ Len(au) = 13 + Len(p) /\ b = au \o v
      /\ HoldsAt(au, 9 + Len(p), u) /\ HasPath(au, op, p) /\ 9 + Len(p) \in Nat
  BY <1>3, <1>4, <1>6 DEF au
<1>8. /\ Len(au \o v) = Len(au) + Len(v)
      /\ HoldsAt(au \o v, 9 + Len(p), u)
  BY <1>2, <1>7, Appended
<1>9. HasPath(au \o v, op, p)
  BY <1>1, <1>2, <1>7, PathStays, Zenon
<1>10. HoldsAt(au \o v, Len(au) + 0, n) /\ HoldsAt(au \o v, Len(au) + 4, c)
  BY <1>2, <1>7, HoldsRight, Zenon
<1>11. /\ Len(au) + Len(v) = (17 + Len(p)) + Len(c)
       /\ Len(au) + 0 = 13 + Len(p) /\ Len(au) + 4 = 17 + Len(p)
  BY <1>2, <1>4, <1>7
<1>. QED  BY <1>7, <1>8, <1>9, <1>10, <1>11, Zenon DEF p, c, u, n

LEMMA SubscribeFields ==
  ASSUME NEW id \in Count,
         NEW r \in [op : {"SUBSCRIBE"}, pathname : Strings,
                    monitorIntervalSeconds : Count],
         NEW b, b = MarshalRequest(id, r)
  PROVE  /\ HasPath(b, "SUBSCRIBE", r.pathname)
         /\ Len(b) = 13 + Len(r.pathname)
         /\ HoldsAt(b, 9 + Len(r.pathname), Uint32(r.monitorIntervalSeconds))
<1>. DEFINE p == r.pathname
            u == Uint32(r.monitorIntervalSeconds)
            a == Header("SUBSCRIBE", id) \o Str(p)
<1>1. /\ p \in Strings /\ r.op = "SUBSCRIBE" /\ "SUBSCRIBE" \in Ops
      /\ r.monitorIntervalSeconds \in Count
  BY DEF Ops, MessageType
<1>2. u \in Seq(Byte) /\ Len(u) = 4
  BY <1>1, Uint32Bytes
<1>3. b = a \o u
  BY <1>1, Zenon DEF MarshalRequest, marshalSubscribeRequest
<1>4. HasPath(a, "SUBSCRIBE", p) /\ Len(a) = 9 + Len(p) /\ Len(p) \in Nat
  BY <1>1, PathPart, StrFields
<1>. HIDE DEF p, u, a
<1>5. a \in Seq(Byte)
  BY <1>4 DEF HasPath
<1>6. Len(a \o u) = Len(a) + Len(u) /\ HoldsAt(a \o u, Len(a), u)
  BY <1>2, <1>5, Appended
<1>7. HasPath(a \o u, "SUBSCRIBE", p)
  BY <1>1, <1>2, <1>4, PathStays, Zenon
<1>8. Len(a) + Len(u) = 13 + Len(p)
  BY <1>2, <1>4
<1>. QED  BY <1>3, <1>4, <1>6, <1>7, <1>8, Zenon DEF p, u

LEMMA TimeFields ==
  ASSUME NEW id \in Count,
         NEW r \in [op : {"GET_LAST_MODIFIED_TIME"}, pathname : Strings],
         NEW b, b = MarshalRequest(id, r)
  PROVE  /\ HasPath(b, "GET_LAST_MODIFIED_TIME", r.pathname)
         /\ Len(b) = 9 + Len(r.pathname)
<1>1. /\ r.pathname \in Strings /\ r.op = "GET_LAST_MODIFIED_TIME"
      /\ "GET_LAST_MODIFIED_TIME" \in Ops
  BY DEF Ops, MessageType
<1>2. b = Header("GET_LAST_MODIFIED_TIME", id) \o Str(r.pathname)
  BY <1>1, Zenon DEF MarshalRequest, marshalGetLastModifiedTimeRequest
<1>. QED  BY <1>1, <1>2, PathPart

(***************************************************************************)
(* What the server receives.                                               *)
(***************************************************************************)

\* w is what is received of b, d what follows the header in it.
IsData(b, w, d, room) ==
  /\ w = Cut(b, room + 5)
  /\ d = Slice(w, 5, Len(w))

\* The data hold the fields that were not cut off, the pathname's length at least.
DataHold(b, p, d, room) ==
  /\ d \in Seq(Byte) /\ Len(d) \in Nat /\ Len(p) \in Nat
  /\ Len(d) = IF Len(b) <= room + 5 THEN Len(b) - 5 ELSE room
  /\ \A at \in Nat : \A x \in Seq(Byte) :
       HoldsAt(b, 5 + at, x) /\ at + Len(x) <= Len(d) => HoldsAt(d, at, x)
  /\ Len(d) >= 4 /\ PathnameLen(d) = Len(p)

LEMMA DataFields ==
  ASSUME NEW op \in Ops, NEW p \in Strings, NEW b, HasPath(b, op, p),
         NEW room \in Nat, room >= 12, NEW w, NEW d, IsData(b, w, d, room)
  PROVE  /\ w[1] = MessageType[op]
         /\ DataHold(b, p, d, room)
<1>. DEFINE t == <<MessageType[op]>>
<1>1. /\ b \in Seq(Byte) /\ Len(b) \in Nat /\ p \in Seq(Byte) /\ Len(p) \in Nat
      /\ HoldsAt(b, 0, t) /\ HoldsAt(b, 5, Uint32(Len(p))) /\ HoldsAt(b, 9, p)
      /\ Len(p) \in Count /\ t[1] = MessageType[op] /\ Len(t) = 1
  BY StrFields, LenProperties, OpByte DEF HasPath
<1>2. /\ Uint32(Len(p)) \in Seq(Byte) /\ Len(Uint32(Len(p))) = 4
  BY <1>1, Uint32Bytes
<1>3. Len(b) >= 9
  BY <1>1, <1>2 DEF HoldsAt
<1>4. b[1] = MessageType[op]
  <2>1. \A k \in 1..1 : b[0 + k] = t[k]
    BY <1>1, Zenon DEF HoldsAt
  <2>. QED  BY <1>1, <2>1
<1>. HIDE DEF t
<1>. DEFINE size == IF Len(b) <= room + 5 THEN Len(b) ELSE room + 5
<1>5. size \in Nat /\ 5 <= size /\ 9 <= size /\ size <= Len(b)
  BY <1>1, <1>3
<1>6. w = Slice(b, 0, size)
  <2>1. CASE Len(b) <= room + 5
    <3>1. Slice(b, 0, 0 + Len(b)) = b
      BY <1>1, HoldsWhole, SliceHeld
    <3>2. w = b /\ 0 + Len(b) = size
      BY <1>1, <2>1 DEF IsData, Cut
    <3>. QED  BY <3>1, <3>2
  <2>2. CASE ~(Len(b) <= room + 5)
    BY <2>2 DEF IsData, Cut
  <2>. QED  BY <2>1, <2>2
<1>7. size = IF Len(b) <= room + 5 THEN Len(b) ELSE room + 5
  OBVIOUS
<1>. HIDE DEF size
<1>8. /\ w \in Seq(Byte) /\ Len(w) = size
      /\ \A k \in 1..size : w[k] = b[k]
  <2>1. /\ Slice(b, 0, size) \in Seq(Byte) /\ Len(Slice(b, 0, size)) = size - 0
        /\ \A k \in 1..(size - 0) : Slice(b, 0, size)[k] = b[0 + k]
    <3>1. 0 \in Nat /\ 0 <= size
      BY <1>5
    <3>. QED  BY <1>1, <1>5, <3>1, SliceElements, Zenon
  <2>. QED  BY <1>5, <1>6, <2>1
<1>9. w[1] = MessageType[op]
  BY <1>4, <1>5, <1>8
<1>10. d = Slice(w, 5, size)
  BY <1>8 DEF IsData
<1>11. d \in Seq(Byte) /\ Len(d) = size - 5
  <2>1. 5 \in Nat /\ 5 <= Len(w) /\ w \in Seq(Byte) /\ d = Slice(w, 5, Len(w))
    BY <1>5, <1>8 DEF IsData
  <2>2. d \in Seq(Byte) /\ Len(d) = Len(w) - 5
    BY <2>1, RestElements
  <2>. QED  BY <1>8, <2>2
<1>12. ASSUME NEW at \in Nat, NEW x \in Seq(Byte),
              HoldsAt(b, 5 + at, x), at + Len(x) <= Len(d)
       PROVE  HoldsAt(d, at, x)
  <2>1. Len(x) \in Nat /\ (5 + at) + Len(x) <= size /\ 5 + at \in Nat
    BY <1>5, <1>11, <1>12, LenProperties
  <2>2. HoldsAt(w, 5 + at, x)
    BY <1>8, <1>12, <2>1 DEF HoldsAt
  <2>. QED  BY <1>5, <1>8, <1>10, <2>1, <2>2, HoldsInSlice
<1>13. HoldsAt(d, 0, Uint32(Len(p)))
  <2>1. 0 + Len(Uint32(Len(p))) <= Len(d) /\ 5 + 0 = 5
    BY <1>2, <1>5, <1>11
  <2>. QED  BY <1>1, <1>2, <1>12, <2>1
<1>14. PathnameLen(d) = Len(p)
  BY <1>1, <1>13, NumberHeld DEF PathnameLen
<1>15. /\ Len(d) \in Nat /\ Len(d) >= 4
       /\ Len(d) = IF Len(b) <= room + 5 THEN Len(b) - 5 ELSE room
  BY <1>1, <1>5, <1>7, <1>11
<1>. QED  BY <1>1, <1>9, <1>11, <1>12, <1>14, <1>15 DEF DataHold

\* What the handler of type r.op makes of the data d of request r, marshalled to
\* b: r itself if b fits the buffer, nothing otherwise; and it slices too far for
\* no reason but the pathname.
Understands(r, b, d, room) ==
  /\ Len(b) <= room + 5 =>
       /\ ~SliceTooFar(r.op, d, room)
       /\ validateMarshalledRequest(r.op, d)
       /\ UnmarshalRequest(r.op, d) = r
  /\ Len(b) > room + 5 =>
       SliceTooFar(r.op, d, room) \/ ~validateMarshalledRequest(r.op, d)
  /\ SliceTooFar(r.op, d, room) <=>
       HasContent(r.op) /\ 12 + Len(r.pathname) > room

LEMMA SegmentUnderstood ==
  ASSUME NEW op \in {"READ", "DELETE"}, NEW id \in Count,
         NEW r \in [op : {op}, pathname : Strings, offset : Count, numBytes : Count],
         NEW b, b = MarshalRequest(id, r),
         NEW room \in Nat, room >= 12, NEW w, NEW d, IsData(b, w, d, room)
  PROVE  Understands(r, b, d, room)
<1>. DEFINE p == r.pathname
<1>1. /\ r.op = op /\ op \in Ops /\ ~HasContent(op) /\ Words(op) = 3
      /\ op # "SUBSCRIBE" /\ op # "GET_LAST_MODIFIED_TIME"
      /\ p \in Strings /\ p \in Seq(Byte)
      /\ r.offset \in Count /\ r.numBytes \in Count
  BY DEF Ops, MessageType, HasContent, Words, Strings
<1>2. /\ HasPath(b, op, p) /\ Len(b) = 17 + Len(p)
      /\ HoldsAt(b, 9 + Len(p), Uint32(r.offset))
      /\ HoldsAt(b, 13 + Len(p), Uint32(r.numBytes))
  BY SegmentFields
<1>3. /\ d \in Seq(Byte) /\ Len(d) \in Nat /\ Len(p) \in Nat
      /\ Len(d) = IF Len(b) <= room + 5 THEN Len(b) - 5 ELSE room
      /\ \A at \in Nat : \A x \in Seq(Byte) :
           HoldsAt(b, 5 + at, x) /\ at + Len(x) <= Len(d) => HoldsAt(d, at, x)
      /\ PathnameLen(d) = Len(p)
  <2>1. DataHold(b, p, d, room)
    BY <1>1, <1>2, DataFields
  <2>. QED  BY <2>1 DEF DataHold
<1>4. /\ Uint32(r.offset) \in Seq(Byte) /\ Len(Uint32(r.offset)) = 4
      /\ Uint32(r.numBytes) \in Seq(Byte) /\ Len(Uint32(r.numBytes)) = 4
  BY <1>1, Uint32Bytes
<1>. HIDE DEF p
<1>5. ASSUME Len(b) <= room + 5
      PROVE  validateMarshalledRequest(op, d) /\ UnmarshalRequest(op, d) = r
  <2>1. Len(d) = 12 + Len(p)
    BY <1>2, <1>3, <1>5
  <2>2. validateMarshalledRequest(op, d)
    BY <1>1, <1>3, <2>1 DEF validateMarshalledRequest, ContentLen
  <2>3. Slice(d, 4, 4 + Len(p)) = p
    <3>1. 5 + 4 = 9 /\ 4 \in Nat /\ 4 + Len(p) <= Len(d)
      BY <1>3, <2>1
    <3>2. HoldsAt(d, 4, p)
      BY <1>1, <1>2, <1>3, <3>1 DEF HasPath
    <3>. QED  BY <1>1, <1>3, <3>1, <3>2, SliceHeld
  <2>4. Number(d, 4 + Len(p)) = r.offset
    <3>1. /\ 5 + (4 + Len(p)) = 9 + Len(p) /\ 4 + Len(p) \in Nat
          /\ (4 + Len(p)) + Len(Uint32(r.offset)) <= Len(d)
      BY <1>3, <1>4, <2>1
    <3>2. HoldsAt(d, 4 + Len(p), Uint32(r.offset))
      BY <1>2, <1>3, <1>4, <3>1
    <3>. QED  BY <1>1, <3>1, <3>2, NumberHeld
  <2>5. Number(d, (4 + Len(p)) + 4) = r.numBytes
    <3>1. /\ 5 + ((4 + Len(p)) + 4) = 13 + Len(p) /\ (4 + Len(p)) + 4 \in Nat
          /\ ((4 + Len(p)) + 4) + Len(Uint32(r.numBytes)) <= Len(d)
      BY <1>3, <1>4, <2>1
    <3>2. HoldsAt(d, (4 + Len(p)) + 4, Uint32(r.numBytes))
      BY <1>2, <1>3, <1>4, <3>1
    <3>. QED  BY <1>1, <3>1, <3>2, NumberHeld
  <2>6. UnmarshalRequest(op, d) =
          [op |-> op, pathname |-> p, offset |-> r.offset, numBytes |-> r.numBytes]
    BY <1>1, <1>3, <2>3, <2>4, <2>5, Zenon DEF UnmarshalRequest
  <2>7. r = [op |-> op, pathname |-> p, offset |-> r.offset, numBytes |-> r.numBytes]
    BY <1>1 DEF p
  <2>. QED  BY <2>2, <2>6, <2>7
<1>6. ASSUME Len(b) > room + 5
      PROVE  ~validateMarshalledRequest(op, d)
  <2>1. Len(d) = room /\ room < 12 + Len(p)
    BY <1>2, <1>3, <1>6
  <2>. QED  BY <1>1, <1>3, <2>1 DEF validateMarshalledRequest, ContentLen
<1>7. ~SliceTooFar(op, d, room)
  BY <1>1 DEF SliceTooFar
<1>. QED  BY <1>1, <1>5, <1>6, <1>7, Zenon DEF Understands

LEMMA ContentUnderstood ==
  ASSUME NEW op \in {"WRITE", "REPLACE"}, NEW id \in Count,
         NEW r \in [op : {op}, pathname : Strings, offset : Count, content : Strings],
         NEW b, b = MarshalRequest(id, r),
         NEW room \in Nat, room >= 12, NEW w, NEW d, IsData(b, w, d, room)
  PROVE  Understands(r, b, d, room)
<1>. DEFINE p == r.pathname
            c == r.content
<1>1. /\ r.op = op /\ op \in Ops /\ HasContent(op) /\ Words(op) = 3
      /\ op \notin {"READ", "DELETE"}
      /\ p \in Strings /\ p \in Seq(Byte) /\ c \in Strings /\ c \in Seq(Byte)
      /\ r.offset \in Count /\ Len(c) \in Count
  BY DEF Ops, MessageType, HasContent, Words, Strings
<1>2. /\ HasPath(b, op, p) /\ Len(b) = (17 + Len(p)) + Len(c)
      /\ HoldsAt(b, 9 + Len(p), Uint32(r.offset))
      /\ HoldsAt(b, 13 + Len(p), Uint32(Len(c)))
      /\ HoldsAt(b, 17 + Len(p), c)
  BY ContentFields
<1>3. /\ d \in Seq(Byte) /\ Len(d) \in Nat /\ Len(p) \in Nat
      /\ Len(d) = IF Len(b) <= room + 5 THEN Len(b) - 5 ELSE room
      /\ \A at \in Nat : \A x \in Seq(Byte) :
           HoldsAt(b, 5 + at, x) /\ at + Len(x) <= Len(d) => HoldsAt(d, at, x)
      /\ PathnameLen(d) = Len(p)
  <2>1. DataHold(b, p, d, room)
    BY <1>1, <1>2, DataFields, Zenon
  <2>. QED  BY <2>1 DEF DataHold
<1>4. /\ Uint32(r.offset) \in Seq(Byte) /\ Len(Uint32(r.offset)) = 4
      /\ Uint32(Len(c)) \in Seq(Byte) /\ Len(Uint32(Len(c))) = 4
      /\ Len(c) \in Nat
  BY <1>1, Uint32Bytes
<1>. HIDE DEF p, c
<1>12. Len(p) \in Nat /\ Len(c) \in Nat /\ Len(d) \in Nat
  BY <1>3, <1>4
<1>5. Len(d) >= 12
  BY <1>2, <1>3, <1>4
<1>6. SliceTooFar(op, d, room) <=> 12 + Len(p) > room
  BY <1>1, <1>3, <1>5 DEF SliceTooFar
\* The content's length is there, unless the handler slices too far.
<1>7. ASSUME 12 + Len(p) <= room
      PROVE  ContentLen(op, d) = Len(c)
  <2>1. /\ 5 + (8 + Len(p)) = 13 + Len(p) /\ 8 + Len(p) \in Nat
        /\ (8 + Len(p)) + Len(Uint32(Len(c))) <= Len(d)
    BY <1>2, <1>3, <1>4, <1>7
  <2>2. HoldsAt(d, 8 + Len(p), Uint32(Len(c)))
    BY <1>2, <1>3, <1>4, <2>1
  <2>3. Number(d, 8 + Len(p)) = Len(c)
    BY <1>1, <2>1, <2>2, NumberHeld
  <2>. QED  BY <1>1, <1>3, <2>3 DEF ContentLen
<1>8. ASSUME Len(b) <= room + 5
      PROVE  validateMarshalledRequest(op, d) /\ UnmarshalRequest(op, d) = r
  <2>1. Len(d) = (12 + Len(p)) + Len(c) /\ 12 + Len(p) <= room
    BY <1>2, <1>3, <1>4, <1>8
  <2>2. validateMarshalledRequest(op, d)
    <3>1. ContentLen(op, d) = Len(c) /\ PathnameLen(d) = Len(p) /\ Words(op) = 3
      BY <1>1, <1>3, <1>7, <2>1
    <3>. QED  BY <1>12, <2>1, <3>1 DEF validateMarshalledRequest
  <2>3. Slice(d, 4, 4 + Len(p)) = p
    <3>1. 5 + 4 = 9 /\ 4 \in Nat /\ 4 + Len(p) <= Len(d)
      BY <1>3, <1>4, <2>1
    <3>2. HoldsAt(d, 4, p)
      BY <1>1, <1>2, <1>3, <3>1 DEF HasPath
    <3>. QED  BY <1>1, <1>3, <3>1, <3>2, SliceHeld
  <2>4. Number(d, 4 + Len(p)) = r.offset
    <3>1. /\ 5 + (4 + Len(p)) = 9 + Len(p) /\ 4 + Len(p) \in Nat
          /\ (4 + Len(p)) + Len(Uint32(r.offset)) <= Len(d)
      BY <1>3, <1>4, <2>1
    <3>2. HoldsAt(d, 4 + Len(p), Uint32(r.offset))
      BY <1>2, <1>3, <1>4, <3>1
    <3>. QED  BY <1>1, <3>1, <3>2, NumberHeld
  <2>5. Slice(d, (4 + Len(p)) + 8, Len(d)) = c
    <3>1. /\ 5 + ((4 + Len(p)) + 8) = 17 + Len(p) /\ (4 + Len(p)) + 8 \in Nat
          /\ ((4 + Len(p)) + 8) + Len(c) = Len(d)
          /\ ((4 + Len(p)) + 8) + Len(c) <= Len(d)
      BY <1>12, <2>1
    <3>2. HoldsAt(d, (4 + Len(p)) + 8, c)
      BY <1>1, <1>2, <1>3, <3>1
    <3>3. Slice(d, (4 + Len(p)) + 8, ((4 + Len(p)) + 8) + Len(c)) = c
      BY <1>1, <1>3, <3>1, <3>2, SliceHeld
    <3>. QED  BY <3>1, <3>3
  <2>6. UnmarshalRequest(op, d) =
          [op |-> op, pathname |-> p, offset |-> r.offset, content |-> c]
    BY <1>1, <1>3, <2>3, <2>4, <2>5, Zenon DEF UnmarshalRequest, HasContent
  <2>7. r = [op |-> op, pathname |-> p, offset |-> r.offset, content |-> c]
    BY <1>1 DEF p, c
  <2>. QED  BY <2>2, <2>6, <2>7
<1>9. ASSUME Len(b) > room + 5
      PROVE  SliceTooFar(op, d, room) \/ ~validateMarshalledRequest(op, d)
  <2>1. Len(d) = room /\ room < (12 + Len(p)) + Len(c)
    BY <1>2, <1>3, <1>4, <1>9
  <2>2. CASE 12 + Len(p) <= room
    BY <1>1, <1>3, <1>4, <1>7, <2>1, <2>2 DEF validateMarshalledRequest
  <2>3. CASE 12 + Len(p) > room
    BY <1>6, <2>3
  <2>. QED  BY <1>3, <2>2, <2>3
<1>10. Len(b) <= room + 5 => 12 + Len(p) <= room
  BY <1>2, <1>3, <1>4
<1>11. Len(b) <= room + 5 => ~SliceTooFar(op, d, room)
  BY <1>3, <1>6, <1>10
<1>. QED  BY <1>1, <1>6, <1>8, <1>9, <1>11, Zenon DEF Understands, p

LEMMA SubscribeUnderstood ==
  ASSUME NEW id \in Count,
         NEW r \in [op : {"SUBSCRIBE"}, pathname : Strings,
                    monitorIntervalSeconds : Count],
         NEW b, b = MarshalRequest(id, r),
         NEW room \in Nat, room >= 12, NEW w, NEW d, IsData(b, w, d, room)
  PROVE  Understands(r, b, d, room)
<1>. DEFINE p == r.pathname
            op == "SUBSCRIBE"
            v == r.monitorIntervalSeconds
<1>1. /\ r.op = op /\ op \in Ops /\ ~HasContent(op) /\ Words(op) = 2
      /\ op \notin {"READ", "DELETE"}
      /\ p \in Strings /\ p \in Seq(Byte) /\ v \in Count
  BY DEF Ops, MessageType, HasContent, Words, Strings
<1>2. /\ HasPath(b, op, p) /\ Len(b) = 13 + Len(p)
      /\ HoldsAt(b, 9 + Len(p), Uint32(v))
  BY SubscribeFields
<1>3. /\ d \in Seq(Byte) /\ Len(d) \in Nat /\ Len(p) \in Nat
      /\ Len(d) = IF Len(b) <= room + 5 THEN Len(b) - 5 ELSE room
      /\ \A at \in Nat : \A x \in Seq(Byte) :
           HoldsAt(b, 5 + at, x) /\ at + Len(x) <= Len(d) => HoldsAt(d, at, x)
      /\ PathnameLen(d) = Len(p)
  <2>1. DataHold(b, p, d, room)
    BY <1>1, <1>2, DataFields
  <2>. QED  BY <2>1 DEF DataHold
<1>4. Uint32(v) \in Seq(Byte) /\ Len(Uint32(v)) = 4
  BY <1>1, Uint32Bytes
<1>. HIDE DEF p, v
<1>5. ASSUME Len(b) <= room + 5
      PROVE  validateMarshalledRequest(op, d) /\ UnmarshalRequest(op, d) = r
  <2>1. Len(d) = 8 + Len(p)
    BY <1>2, <1>3, <1>5
  <2>2. validateMarshalledRequest(op, d)
    BY <1>1, <1>3, <2>1 DEF validateMarshalledRequest, ContentLen
  <2>3. Slice(d, 4, 4 + Len(p)) = p
    <3>1. 5 + 4 = 9 /\ 4 \in Nat /\ 4 + Len(p) <= Len(d)
      BY <1>3, <2>1
    <3>2. HoldsAt(d, 4, p)
      BY <1>1, <1>2, <1>3, <3>1 DEF HasPath
    <3>. QED  BY <1>1, <1>3, <3>1, <3>2, SliceHeld
  <2>4. Number(d, 4 + Len(p)) = v
    <3>1. /\ 5 + (4 + Len(p)) = 9 + Len(p) /\ 4 + Len(p) \in Nat
          /\ (4 + Len(p)) + Len(Uint32(v)) <= Len(d)
      BY <1>3, <1>4, <2>1
    <3>2. HoldsAt(d, 4 + Len(p), Uint32(v))
      BY <1>2, <1>3, <1>4, <3>1
    <3>. QED  BY <1>1, <3>1, <3>2, NumberHeld
  <2>5. UnmarshalRequest(op, d) =
          [op |-> op, pathname |-> p, monitorIntervalSeconds |-> v]
    BY <1>1, <1>3, <2>3, <2>4, Zenon DEF UnmarshalRequest
  <2>6. r = [op |-> op, pathname |-> p, monitorIntervalSeconds |-> v]
    BY <1>1 DEF p, v
  <2>. QED  BY <2>2, <2>5, <2>6
<1>6. ASSUME Len(b) > room + 5
      PROVE  ~validateMarshalledRequest(op, d)
  <2>1. Len(d) = room /\ room < 8 + Len(p)
    BY <1>2, <1>3, <1>6
  <2>. QED  BY <1>1, <1>3, <2>1 DEF validateMarshalledRequest, ContentLen
<1>7. ~SliceTooFar(op, d, room)
  BY <1>1 DEF SliceTooFar
<1>. QED  BY <1>1, <1>5, <1>6, <1>7, Zenon DEF Understands

LEMMA TimeUnderstood ==
  ASSUME NEW id \in Count,
         NEW r \in [op : {"GET_LAST_MODIFIED_TIME"}, pathname : Strings],
         NEW b, b = MarshalRequest(id, r),
         NEW room \in Nat, room >= 12, NEW w, NEW d, IsData(b, w, d, room)
  PROVE  Understands(r, b, d, room)
<1>. DEFINE p == r.pathname
            op == "GET_LAST_MODIFIED_TIME"
<1>1. /\ r.op = op /\ op \in Ops /\ ~HasContent(op) /\ Words(op) = 1
      /\ op \notin {"READ", "DELETE"} /\ op # "SUBSCRIBE"
      /\ p \in Strings /\ p \in Seq(Byte)
  BY DEF Ops, MessageType, HasContent, Words, Strings
<1>2. HasPath(b, op, p) /\ Len(b) = 9 + Len(p)
  BY TimeFields
<1>3. /\ d \in Seq(Byte) /\ Len(d) \in Nat /\ Len(p) \in Nat
      /\ Len(d) = IF Len(b) <= room + 5 THEN Len(b) - 5 ELSE room
      /\ \A at \in Nat : \A x \in Seq(Byte) :
           HoldsAt(b, 5 + at, x) /\ at + Len(x) <= Len(d) => HoldsAt(d, at, x)
      /\ PathnameLen(d) = Len(p)
  <2>1. DataHold(b, p, d, room)
    BY <1>1, <1>2, DataFields
  <2>. QED  BY <2>1 DEF DataHold
<1>. HIDE DEF p
<1>4. ASSUME Len(b) <= room + 5
      PROVE  validateMarshalledRequest(op, d) /\ UnmarshalRequest(op, d) = r
  <2>1. Len(d) = 4 + Len(p)
    BY <1>2, <1>3, <1>4
  <2>2. validateMarshalledRequest(op, d)
    BY <1>1, <1>3, <2>1 DEF validateMarshalledRequest, ContentLen
  <2>3. Slice(d, 4, 4 + Len(p)) = p
    <3>1. 5 + 4 = 9 /\ 4 \in Nat /\ 4 + Len(p) <= Len(d)
      BY <1>3, <2>1
    <3>2. HoldsAt(d, 4, p)
      BY <1>1, <1>2, <1>3, <3>1 DEF HasPath
    <3>. QED  BY <1>1, <1>3, <3>1, <3>2, SliceHeld
  <2>4. UnmarshalRequest(op, d) = [op |-> op, pathname |-> p]
    BY <1>1, <1>3, <2>3, Zenon DEF UnmarshalRequest
  <2>5. r = [op |-> op, pathname |-> p]
    BY <1>1 DEF p
  <2>. QED  BY <2>2, <2>4, <2>5
<1>5. ASSUME Len(b) > room + 5
      PROVE  ~validateMarshalledRequest(op, d)
  <2>1. Len(d) = room /\ room < 4 + Len(p)
    BY <1>2, <1>3, <1>5
  <2>. QED  BY <1>1, <1>3, <2>1 DEF validateMarshalledRequest, ContentLen
<1>6. ~SliceTooFar(op, d, room)
  BY <1>1 DEF SliceTooFar
<1>. QED  BY <1>1, <1>4, <1>5, <1>6, Zenon DEF Understands

\* Whatever request the client marshals, the server routes it by its type, and
\* unmarshals that very request if it fits the receive buffer; if it does not,
\* it is refused, or the handler slices too far.
THEOREM RequestRoundTrip ==
  ASSUME NEW id \in Count, NEW r \in WireRequests, NEW b, b = MarshalRequest(id, r),
         NEW room \in Nat, room >= 12, NEW w, NEW d, IsData(b, w, d, room)
  PROVE  /\ b \in Seq(Byte) /\ r.op \in Ops /\ w[1] = MessageType[r.op]
         /\ Understands(r, b, d, room)
<1>1. CASE r \in [op : {"READ", "DELETE"}, pathname : Strings, offset : Count,
                  numBytes : Count]
  <2>. DEFINE op == r.op
  <2>1. /\ op \in {"READ", "DELETE"} /\ op \in Ops /\ r.pathname \in Strings
        /\ r \in [op : {op}, pathname : Strings, offset : Count, numBytes : Count]
    BY <1>1 DEF Ops, MessageType
  <2>. HIDE DEF op
  <2>2. HasPath(b, op, r.pathname)
    BY <2>1, SegmentFields
  <2>3. w[1] = MessageType[op]
    BY <2>1, <2>2, DataFields
  <2>4. Understands(r, b, d, room)
    BY <2>1, SegmentUnderstood
  <2>. QED  BY <2>1, <2>2, <2>3, <2>4 DEF op, HasPath
<1>2. CASE r \in [op : {"WRITE", "REPLACE"}, pathname : Strings, offset : Count,
                  content : Strings]
  <2>. DEFINE op == r.op
  <2>1. /\ op \in {"WRITE", "REPLACE"} /\ op \in Ops /\ r.pathname \in Strings
        /\ r \in [op : {op}, pathname : Strings, offset : Count, content : Strings]
    BY <1>2 DEF Ops, MessageType
  <2>. HIDE DEF op
  <2>2. HasPath(b, op, r.pathname)
    BY <2>1, ContentFields
  <2>3. w[1] = MessageType[op]
    BY <2>1, <2>2, DataFields
  <2>4. Understands(r, b, d, room)
    BY <2>1, ContentUnderstood
  <2>. QED  BY <2>1, <2>2, <2>3, <2>4 DEF op, HasPath
<1>3. CASE r \in [op : {"SUBSCRIBE"}, pathname : Strings,
                  monitorIntervalSeconds : Count]
  <2>1. r.op = "SUBSCRIBE" /\ r.op \in Ops /\ r.pathname \in Strings
    BY <1>3 DEF Ops, MessageType
  <2>2. HasPath(b, r.op, r.pathname)
    BY <1>3, <2>1, SubscribeFields
  <2>3. w[1] = MessageType[r.op]
    BY <2>1, <2>2, DataFields
  <2>4. Understands(r, b, d, room)
    BY <1>3, SubscribeUnderstood
  <2>. QED  BY <2>1, <2>2, <2>3, <2>4 DEF HasPath
<1>4. CASE r \in [op : {"GET_LAST_MODIFIED_TIME"}, pathname : Strings]
  <2>1. r.op = "GET_LAST_MODIFIED_TIME" /\ r.op \in Ops /\ r.pathname \in Strings
    BY <1>4 DEF Ops, MessageType
  <2>2. HasPath(b, r.op, r.pathname)
    BY <1>4, <2>1, TimeFields
  <2>3. w[1] = MessageType[r.op]
    BY <2>1, <2>2, DataFields
  <2>4. Understands(r, b, d, room)
    BY <1>4, TimeUnderstood
  <2>. QED  BY <2>1, <2>2, <2>3, <2>4 DEF HasPath
<1>. QED  BY <1>1, <1>2, <1>3, <1>4, Zenon DEF WireRequests

(***************************************************************************)
(* The identifier of a request.                                            *)
(***************************************************************************)

\* Every request has its identifier after its type, whatever fields follow.
LEMMA IdHeld ==
  ASSUME NEW id \in Count, NEW r \in WireRequests, NEW b, b = MarshalRequest(id, r)
  PROVE  b \in Seq(Byte) /\ HoldsAt(b, 1, Uint32(id))
<1>. DEFINE i == Uint32(id)
            h == Header(r.op, id)
            s == Str(r.pathname)
            HasId(a) == a \in Seq(Byte) /\ HoldsAt(a, 1, i)
<1>1. r.op \in Ops /\ r.pathname \in Strings
  BY DEF WireRequests, Ops, MessageType
<1>2. i \in Seq(Byte)
  BY Uint32Bytes
<1>3. \A a : HasId(a) => \A u \in Seq(Byte) : HasId(a \o u)
  BY <1>2, Appended, 1 \in Nat, Zenon
<1>4. HasId(h)
  <2>. DEFINE t == <<MessageType[r.op]>>
  <2>1. t \in Seq(Byte) /\ Len(t) = 1 /\ h = t \o i
    BY <1>1, OpByte DEF Header
  <2>. HIDE DEF t, i
  <2>2. t \o i \in Seq(Byte) /\ HoldsAt(t \o i, Len(t), i)
    BY <1>2, <2>1, Appended
  <2>. QED  BY <2>1, <2>2
<1>5. HasId(h \o s)
  BY <1>1, <1>3, <1>4, StrFields
<1>. HIDE DEF h, s, HasId
<1>6. HasId(b)
  <2>1. CASE r \in [op : {"READ", "DELETE"}, pathname : Strings, offset : Count,
                    numBytes : Count]
    <3>1. b = ((h \o s) \o Uint32(r.offset)) \o Uint32(r.numBytes)
      BY <2>1, Zenon DEF MarshalRequest, marshalReadRequest, marshalDeleteRequest, h, s
    <3>2. Uint32(r.offset) \in Seq(Byte) /\ Uint32(r.numBytes) \in Seq(Byte)
      BY <2>1, Uint32Bytes
    <3>. QED  BY <1>3, <1>5, <3>1, <3>2, Zenon
  <2>2. CASE r \in [op : {"WRITE", "REPLACE"}, pathname : Strings, offset : Count,
                    content : Strings]
    <3>1. b = ((h \o s) \o Uint32(r.offset)) \o Str(r.content)
      BY <2>2, Zenon DEF MarshalRequest, marshalWriteRequest, marshalReplaceRequest, h, s
    <3>2. Uint32(r.offset) \in Seq(Byte) /\ Str(r.content) \in Seq(Byte)
      BY <2>2, Uint32Bytes, StrFields
    <3>. QED  BY <1>3, <1>5, <3>1, <3>2, Zenon
  <2>3. CASE r \in [op : {"SUBSCRIBE"}, pathname : Strings,
                    monitorIntervalSeconds : Count]
    <3>1. b = (h \o s) \o Uint32(r.monitorIntervalSeconds)
      BY <2>3, Zenon DEF MarshalRequest, marshalSubscribeRequest, h, s
    <3>2. Uint32(r.monitorIntervalSeconds) \in Seq(Byte)
      BY <2>3, Uint32Bytes
    <3>. QED  BY <1>3, <1>5, <3>1, <3>2, Zenon
  <2>4. CASE r \in [op : {"GET_LAST_MODIFIED_TIME"}, pathname : Strings]
    <3>1. b = h \o s
      BY <2>4, Zenon DEF MarshalRequest, marshalGetLastModifiedTimeRequest, h, s
    <3>. QED  BY <1>5, <3>1
  <2>. QED  BY <2>1, <2>2, <2>3, <2>4, Zenon DEF WireRequests
<1>. QED  BY <1>6 DEF HasId

\* The server looks a request up under the very identifier the client counted,
\* also when the receive buffer has cut the request off behind its header, so
\* that a retry of it finds the stored response.
THEOREM MessageIdRoundTrip ==
  ASSUME NEW id \in Count, NEW r \in WireRequests, NEW size \in Nat, size >= 5
  PROVE  getMessageId(Cut(MarshalRequest(id, r), size)) = id
<1>. DEFINE b == MarshalRequest(id, r)
            w == Cut(b, size)
            i == Uint32(id)
<1>1. b \in Seq(Byte) /\ HoldsAt(b, 1, i)
  BY IdHeld
<1>2. Len(i) = 4
  BY Uint32Bytes
<1>3. Len(b) \in Nat /\ Len(b) >= 5
  <2>1. Len(b) \in Nat
    BY <1>1, LenProperties
  <2>. QED  BY <1>1, <1>2, <2>1 DEF HoldsAt
<1>. HIDE DEF b, i
<1>4. HoldsAt(w, 1, i)
  <2>1. CASE Len(b) <= size
    BY <1>1, <2>1 DEF Cut
  <2>2. CASE ~(Len(b) <= size)
    <3>1. w = Slice(b, 0, size)
      BY <2>2 DEF Cut
    <3>2. 0 \in Nat /\ 0 <= size /\ size <= Len(b)
      BY <1>3, <2>2
    <3>3. /\ Slice(b, 0, size) \in Seq(Byte) /\ Len(Slice(b, 0, size)) = size - 0
          /\ \A k \in 1..(size - 0) : Slice(b, 0, size)[k] = b[0 + k]
      BY <1>1, <3>2, SliceElements, Zenon
    <3>. HIDE DEF w
    <3>4. Len(w) = size /\ \A k \in 1..size : w[k] = b[k]
      BY <3>1, <3>3
    <3>. QED  BY <1>1, <1>2, <3>4 DEF HoldsAt
  <2>. QED  BY <2>1, <2>2
<1>5. HoldsAt(w, 1, Uint32(id))
  BY <1>4 DEF i
<1>. HIDE DEF w
<1>6. Number(w, 1) = id
  BY <1>5, NumberHeld
<1>. QED  BY <1>6 DEF getMessageId, w, b

\* Different calls never look the same on the wire: what is the same byte for
\* byte is the same request under the same identifier.
THEOREM DifferentBytes ==
  ASSUME NEW id \in Count, NEW r \in WireRequests,
         NEW id2 \in Count, NEW r2 \in WireRequests,
         MarshalRequest(id, r) = MarshalRequest(id2, r2)
  PROVE  id = id2 /\ r = r2
<1>. DEFINE b == MarshalRequest(id, r)
            room == Len(b) + 12
            w == Cut(b, room + 5)
            d == Slice(w, 5, Len(w))
<1>1. b \in Seq(Byte) /\ b = MarshalRequest(id2, r2)
  BY IdHeld
<1>2. Len(b) \in Nat
  BY <1>1, LenProperties
<1>3. room \in Nat /\ room >= 12 /\ Len(b) <= room + 5 /\ room + 5 >= 5
      /\ room + 5 \in Nat
  BY <1>2
<1>4. IsData(b, w, d, room)
  BY DEF IsData
<1>5. getMessageId(w) = id /\ getMessageId(w) = id2
  BY <1>1, <1>3, MessageIdRoundTrip
<1>. HIDE DEF b, room, w, d
<1>6. /\ r.op \in Ops /\ w[1] = MessageType[r.op] /\ Understands(r, b, d, room)
      /\ r2.op \in Ops /\ w[1] = MessageType[r2.op] /\ Understands(r2, b, d, room)
  <2>1. b = MarshalRequest(id, r) /\ b = MarshalRequest(id2, r2)
    BY <1>1 DEF b
  <2>. QED  BY <1>3, <1>4, <2>1, RequestRoundTrip
<1>7. r.op = r2.op
  <2>1. \A o, q \in Ops : MessageType[o] = MessageType[q] => o = q
    BY DEF Ops, MessageType
  <2>. QED  BY <1>6, <2>1
<1>8. r = UnmarshalRequest(r.op, d) /\ r2 = UnmarshalRequest(r2.op, d)
  BY <1>3, <1>6, Zenon DEF Understands
<1>. QED  BY <1>5, <1>7, <1>8, Zenon

(***************************************************************************)
(* Responses.                                                              *)
(***************************************************************************)

Timestamps == {t \in Seq(Byte) : Len(t) = 8}

WireErrors == {Error(m) : m \in Strings}

\* What a service of type op may answer.
WireResponses(op) ==
  WireErrors \cup
    IF op = "READ" THEN [result : {"content"}, content : Strings]
    ELSE IF op = "GET_LAST_MODIFIED_TIME" THEN [result : {"time"}, time : Timestamps]
    ELSE {Done}

\* A flag and a string: the string is taken out whole, or seen to be cut off.
LEMMA FlagAndString ==
  ASSUME NEW flag \in {0, 1}, NEW s \in Strings, NEW size \in Nat, size >= 5,
         NEW m, m = <<flag>> \o Str(s), NEW x, x = Cut(m, size)
  PROVE  /\ Len(m) <= size => HasString(x) /\ String(x) = s
         /\ Len(m) > size => ~HasString(x)
         /\ Failed(x) <=> flag = 0
         /\ Len(x) >= 5 /\ x # <<1>>
<1>. DEFINE u == Uint32(Len(s))
<1>1. /\ s \in Seq(Byte) /\ Len(s) \in Nat /\ Len(s) \in Count
      /\ Str(s) \in Seq(Byte) /\ Len(Str(s)) = 4 + Len(s)
      /\ HoldsAt(Str(s), 0, u) /\ HoldsAt(Str(s), 4, s)
  BY StrFields
<1>2. u \in Seq(Byte) /\ Len(u) = 4
  BY <1>1, Uint32Bytes
<1>3. <<flag>> \in Seq(Byte) /\ Len(<<flag>>) = 1 /\ <<flag>>[1] = flag
  BY DEF Byte
<1>. HIDE DEF u
<1>4. m \in Seq(Byte) /\ Len(m) = 5 + Len(s) /\ m[1] = flag
  <2>. DEFINE f == <<flag>>
              v == Str(s)
  <2>1. f \in Seq(Byte) /\ Len(f) = 1 /\ f[1] = flag /\ m = f \o v
    BY <1>3
  <2>2. v \in Seq(Byte) /\ Len(v) = 4 + Len(s)
    BY <1>1
  <2>. HIDE DEF f, v
  <2>3. f \o v \in Seq(Byte) /\ Len(f \o v) = Len(f) + Len(v)
    BY <2>1, <2>2, Appended
  <2>4. HoldsAt(f \o v, 0, f)
    BY <2>1, <2>2, HoldsWhole, HoldsLeft
  <2>5. \A k \in 1..1 : m[0 + k] = f[k]
    BY <2>1, <2>4 DEF HoldsAt
  <2>. QED  BY <1>1, <2>1, <2>2, <2>3, <2>5
<1>5. HoldsAt(m, 1, u) /\ HoldsAt(m, 5, s)
  <2>. DEFINE f == <<flag>>
  <2>1. f \in Seq(Byte) /\ Len(f) = 1 /\ m = f \o Str(s)
    BY <1>3
  <2>. HIDE DEF f
  <2>2. HoldsAt(m, Len(f) + 0, u) /\ HoldsAt(m, Len(f) + 4, s)
    BY <1>1, <1>2, <2>1, HoldsRight, Zenon
  <2>3. Len(f) + 0 = 1 /\ Len(f) + 4 = 5
    BY <2>1
  <2>. QED  BY <2>2, <2>3, Zenon
<1>6. ASSUME NEW y, y[1] = flag
      PROVE  Failed(y) <=> flag = 0
  BY <1>6 DEF Failed
<1>7. ASSUME Len(m) <= size
      PROVE  /\ HasString(x) /\ String(x) = s /\ x[1] = flag /\ Len(x) >= 5
  <2>1. x = m
    BY <1>7 DEF Cut
  <2>2. Number(m, 1) = Len(s)
    BY <1>1, <1>5, NumberHeld DEF u
  <2>3. HasString(x)
    <3>1. Len(m) >= 5 /\ Len(m) = 5 + Number(m, 1)
      BY <1>1, <1>4, <2>2
    <3>. QED  BY <2>1, <3>1, Zenon DEF HasString
  <2>4. Slice(m, 5, 5 + Len(s)) = s
    BY <1>1, <1>4, <1>5, SliceHeld
  <2>5. String(x) = s
    BY <1>4, <2>1, <2>4, Zenon DEF String
  <2>6. x[1] = flag
    BY <1>4, <2>1
  <2>7. Len(x) >= 5
    BY <1>1, <1>4, <2>1
  <2>. QED  BY <2>3, <2>5, <2>6, <2>7
<1>8. ASSUME Len(m) > size
      PROVE  ~HasString(x) /\ x[1] = flag /\ Len(x) >= 5
  <2>1. x = Slice(m, 0, size) /\ size <= Len(m) /\ 0 \in Nat /\ 0 <= size
    BY <1>1, <1>4, <1>8 DEF Cut
  <2>2. /\ Len(Slice(m, 0, size)) = size - 0
        /\ \A k \in 1..(size - 0) : Slice(m, 0, size)[k] = m[0 + k]
    BY <1>4, <2>1, SliceElements, Zenon
  <2>3. Len(x) = size /\ \A k \in 1..size : x[k] = m[k]
    <3>1. size - 0 = size /\ \A k \in 1..size : 0 + k = k
      OBVIOUS
    <3>. QED  BY <2>1, <2>2, <3>1, Zenon
  <2>4. x[1] = flag
    BY <1>4, <2>3
  <2>5. HoldsAt(x, 1, u)
    <3>1. 1 + Len(u) <= size
      BY <1>2
    <3>. QED  BY <1>2, <1>5, <2>3, <3>1 DEF HoldsAt
  <2>6. Number(x, 1) = Len(s)
    BY <1>1, <2>5, NumberHeld DEF u
  <2>. QED  BY <1>1, <1>4, <1>8, <2>3, <2>4, <2>6 DEF HasString
<1>9. x[1] = flag /\ Len(x) >= 5
  BY <1>1, <1>4, <1>7, <1>8
<1>10. Len(x) \in Nat
  <2>1. CASE Len(m) <= size
    BY <1>1, <1>4, <2>1 DEF Cut
  <2>2. CASE ~(Len(m) <= size)
    <3>1. x = Slice(m, 0, size) /\ size <= Len(m) /\ 0 \in Nat /\ 0 <= size
      BY <1>1, <1>4, <2>2 DEF Cut
    <3>2. Len(Slice(m, 0, size)) = size - 0
      BY <1>4, <3>1, SliceElements, Zenon
    <3>. QED  BY <3>1, <3>2
  <2>. QED  BY <2>1, <2>2
<1>11. x # <<1>>
  <2>1. Len(<<1>>) = 1
    OBVIOUS
  <2>2. Len(x) # 1
    <3>1. \A n \in Nat : n >= 5 => n # 1
      OBVIOUS
    <3>2. Len(x) \in Nat
      BY <1>10
    <3>. QED  BY <1>9, <3>1, <3>2, Zenon
  <2>. QED  BY <2>1, <2>2, Zenon
<1>12. Failed(x) <=> flag = 0
  BY <1>6, <1>9
<1>. QED  BY <1>7, <1>8, <1>9, <1>11, <1>12

LEMMA ErrorUnderstood ==
  ASSUME NEW op \in Ops, NEW s \in Strings, NEW size \in Nat, size > 9,
         NEW m, m = << 0 >> \o Str(s), NEW x, x = Cut(m, size)
  PROVE  UnmarshalResponse(op, x) = IF Len(m) <= size THEN Error(s) ELSE Thrown
<1>1. /\ Len(m) <= size => HasString(x) /\ String(x) = s
      /\ Len(m) > size => ~HasString(x)
      /\ Failed(x) /\ x # <<1>>
  <2>1. size >= 5 /\ 0 \in {0, 1}
    OBVIOUS
  <2>. QED  BY <2>1, FlagAndString, Zenon
<1>2. Len(m) <= size \/ Len(m) > size
  <2>1. Str(s) \in Seq(Byte) /\ <<0>> \in Seq(Byte)
    BY StrFields DEF Byte
  <2>2. m \in Seq(Byte)
    BY <2>1, ConcatProperties
  <2>. QED  BY <2>2, LenProperties
<1>3. Outcome(x) = IF HasString(x) THEN Error(String(x)) ELSE Thrown
  BY <1>1, Zenon DEF Outcome
<1>4. unmarshalReadResponse(x) = IF HasString(x) THEN Error(String(x)) ELSE Thrown
  BY <1>1, Zenon DEF unmarshalReadResponse
<1>5. unmarshalGetLastModifiedTimeResponse(x) =
        IF HasString(x) THEN Error(String(x)) ELSE Thrown
  BY <1>1, Zenon DEF unmarshalGetLastModifiedTimeResponse
<1>6. op \in {"READ", "WRITE", "REPLACE", "DELETE", "SUBSCRIBE",
              "GET_LAST_MODIFIED_TIME"}
  BY DEF Ops, MessageType
<1>7. UnmarshalResponse(op, x) = IF HasString(x) THEN Error(String(x)) ELSE Thrown
  BY <1>3, <1>4, <1>5, <1>6, Zenon
  DEF UnmarshalResponse, unmarshalWriteResponse, unmarshalReplaceResponse,
      unmarshalDeleteResponse, unmarshalSubscribeResponse
<1>8. CASE Len(m) <= size
  BY <1>1, <1>7, <1>8, Zenon
<1>9. CASE Len(m) > size
  <2>1. ~(Len(m) <= size)
    <3>1. Str(s) \in Seq(Byte) /\ <<0>> \in Seq(Byte)
      BY StrFields DEF Byte
    <3>2. m \in Seq(Byte)
      BY <3>1, ConcatProperties
    <3>. QED  BY <1>9, <3>2, LenProperties
  <2>. QED  BY <1>1, <1>7, <1>9, <2>1, Zenon
<1>. QED  BY <1>2, <1>8, <1>9

\* Whatever a service answers, the client unmarshals that very answer if it fits
\* the buffer, and throws if it does not: a part is never taken for the whole.
THEOREM ResponseRoundTrip ==
  ASSUME NEW op \in Ops, NEW res \in WireResponses(op), NEW size \in Nat, size > 9,
         NEW m, m = MarshalResponse(res), NEW x, x = Cut(m, size)
  PROVE  UnmarshalResponse(op, x) = IF Len(m) <= size THEN res ELSE Thrown
<1>1. CASE res \in WireErrors
  <2>1. PICK s \in Strings : res = Error(s)
    BY <1>1 DEF WireErrors
  <2>2. res.result = "error" /\ res.message = s
    BY <2>1 DEF Error
  <2>3. m = <<0>> \o Str(s)
    BY <2>2, Zenon DEF MarshalResponse
  <2>. QED  BY <2>1, <2>3, ErrorUnderstood
<1>2. CASE op = "READ" /\ res \in [result : {"content"}, content : Strings]
  <2>. DEFINE s == res.content
  <2>1. s \in Strings /\ res.result = "content"
    BY <1>2
  <2>2. m = <<1>> \o Str(s)
    BY <2>1, Zenon DEF MarshalResponse
  <2>. HIDE DEF s
  <2>3. /\ Len(m) <= size => HasString(x) /\ String(x) = s
        /\ Len(m) > size => ~HasString(x)
        /\ ~Failed(x)
    <3>1. size >= 5 /\ 1 \in {0, 1} /\ 1 # 0
      OBVIOUS
    <3>. QED  BY <2>1, <2>2, <3>1, FlagAndString, Zenon
  <2>4. UnmarshalResponse(op, x) =
          IF HasString(x) THEN [result |-> "content", content |-> String(x)] ELSE Thrown
    <3>1. unmarshalReadResponse(x) =
            IF HasString(x) THEN [result |-> "content", content |-> String(x)] ELSE Thrown
      BY <2>3, Zenon DEF unmarshalReadResponse
    <3>. QED  BY <1>2, <3>1, Zenon DEF UnmarshalResponse
  <2>5. res = [result |-> "content", content |-> s]
    BY <1>2 DEF s
  <2>6. Len(m) > size <=> ~(Len(m) <= size)
    <3>1. Str(s) \in Seq(Byte) /\ <<1>> \in Seq(Byte)
      BY <2>1, StrFields DEF Byte
    <3>2. m \in Seq(Byte)
      BY <2>2, <3>1, ConcatProperties
    <3>. QED  BY <3>2, LenProperties
  <2>. QED  BY <2>3, <2>4, <2>5, <2>6, Zenon
<1>3. CASE op = "GET_LAST_MODIFIED_TIME"
           /\ res \in [result : {"time"}, time : Timestamps]
  <2>. DEFINE t == res.time
  <2>1. t \in Seq(Byte) /\ Len(t) = 8 /\ res.result = "time"
    BY <1>3 DEF Timestamps
  <2>2. m = <<1>> \o t
    BY <2>1, Zenon DEF MarshalResponse
  <2>. HIDE DEF t
  <2>3. /\ m \in Seq(Byte) /\ Len(m) = 9 /\ m[1] = 1 /\ HoldsAt(m, 1, t)
    <3>. DEFINE f == <<1>>
    <3>1. f \in Seq(Byte) /\ Len(f) = 1 /\ f[1] = 1 /\ m = f \o t
      BY <2>2 DEF Byte
    <3>. HIDE DEF f
    <3>2. /\ f \o t \in Seq(Byte) /\ Len(f \o t) = Len(f) + Len(t)
          /\ \A k \in 1..(Len(f) + Len(t)) :
               (f \o t)[k] = IF k <= Len(f) THEN f[k] ELSE t[k - Len(f)]
      BY <2>1, <3>1, ConcatProperties, Zenon
    <3>3. HoldsAt(f \o t, Len(f), t)
      BY <2>1, <3>1, Appended
    <3>4. 1 \in 1..(Len(f) + Len(t)) /\ 1 <= Len(f) /\ Len(f) + Len(t) = 9
      BY <2>1, <3>1
    <3>. QED  BY <3>1, <3>2, <3>3, <3>4
  <2>4. x = m
    BY <2>3 DEF Cut
  <2>5. Slice(m, 1, 1 + Len(t)) = t
    BY <2>1, <2>3, SliceHeld
  <2>6. 1 + Len(t) = 9 /\ Len(m) <= size
    BY <2>1, <2>3
  <2>7. UnmarshalResponse(op, x) = [result |-> "time", time |-> t]
    <3>1. unmarshalGetLastModifiedTimeResponse(m) = [result |-> "time", time |-> t]
      BY <2>3, <2>5, <2>6, Zenon DEF unmarshalGetLastModifiedTimeResponse, Failed
    <3>. QED  BY <1>3, <2>4, <3>1, Zenon DEF UnmarshalResponse
  <2>8. res = [result |-> "time", time |-> t]
    BY <1>3 DEF t
  <2>. QED  BY <2>6, <2>7, <2>8
<1>4. CASE op \notin {"READ", "GET_LAST_MODIFIED_TIME"} /\ res = Done
  <2>1. m = <<1>>
    BY <1>4, Zenon DEF MarshalResponse, Done
  <2>2. x = m /\ Len(m) <= size
    BY <2>1 DEF Cut
  <2>3. Outcome(m) = Done
    <3>1. ~Failed(m)
      BY <2>1 DEF Failed
    <3>. QED  BY <2>1, <3>1, Zenon DEF Outcome
  <2>4. op \in {"WRITE", "REPLACE", "DELETE", "SUBSCRIBE"}
    BY <1>4 DEF Ops, MessageType
  <2>5. UnmarshalResponse(op, m) = Done
    BY <2>3, <2>4, Zenon
    DEF UnmarshalResponse, unmarshalWriteResponse, unmarshalReplaceResponse,
        unmarshalDeleteResponse, unmarshalSubscribeResponse
  <2>. QED  BY <1>4, <2>2, <2>5
<1>. QED  BY <1>1, <1>2, <1>3, <1>4 DEF WireResponses

=============================================================================
