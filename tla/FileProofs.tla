----------------------------- MODULE FileProofs -----------------------------
(***************************************************************************)
(* Proofs about FileOps and FileServer: for contents of any length and of  *)
(* any bytes, what the services build is what the operations mean.         *)
(***************************************************************************)
EXTENDS FileServer, SequenceTheorems, TLAPS

(***************************************************************************)
(* Parts of a content, and copy.                                           *)
(***************************************************************************)

LEMMA BeforeElements ==
  ASSUME NEW S, NEW f \in Seq(S), NEW o \in 0..Len(f)
  PROVE  /\ Before(f, o) \in Seq(S)
         /\ Len(Before(f, o)) = o
         /\ \A k \in 1..o : Before(f, o)[k] = f[k]
<1>1. \A k \in 1..o : f[k] \in S
  BY ElementOfSeq
<1>2. 1 \in Int /\ o \in Int /\ o >= 0
  BY LenProperties
<1>. QED  BY <1>1, <1>2, SubSeqProperties DEF Before

LEMMA AfterElements ==
  ASSUME NEW S, NEW f \in Seq(S), NEW o \in 0..Len(f)
  PROVE  /\ After(f, o) \in Seq(S)
         /\ Len(After(f, o)) = Len(f) - o
         /\ \A k \in 1..(Len(f) - o) : After(f, o)[k] = f[o + k]
<1>1. Len(f) \in Nat /\ o \in Nat /\ o + 1 \in Int
  BY LenProperties
<1>2. \A k \in (o + 1)..Len(f) : f[k] \in S
  BY <1>1, ElementOfSeq
<1>3. /\ After(f, o) \in Seq(S)
      /\ Len(After(f, o)) =
           IF o + 1 <= Len(f) THEN Len(f) - (o + 1) + 1 ELSE 0
      /\ \A k \in 1..(Len(f) - (o + 1) + 1) : After(f, o)[k] = f[(o + 1) + k - 1]
  BY <1>1, <1>2, SubSeqProperties DEF After
<1>. QED  BY <1>1, <1>3

LEMMA CopyElements ==
  ASSUME NEW S, NEW b \in Seq(S), NEW src \in Seq(S), NEW from \in Nat
  PROVE  /\ Copy(b, from, src) \in Seq(S)
         /\ Len(Copy(b, from, src)) = Len(b)
         /\ \A k \in 1..Len(b) : Copy(b, from, src)[k] =
              IF from < k /\ k <= from + Len(src) THEN src[k - from] ELSE b[k]
<1>1. Len(b) \in Nat /\ Len(src) \in Nat
  BY LenProperties
<1>. DEFINE e(k) == IF from < k /\ k <= from + Len(src) THEN src[k - from] ELSE b[k]
<1>2. \A k \in 1..Len(b) : e(k) \in S
  <2>. SUFFICES ASSUME NEW k \in 1..Len(b)
                PROVE  e(k) \in S
    OBVIOUS
  <2>1. CASE from < k /\ k <= from + Len(src)
    <3>1. k - from \in 1..Len(src)
      BY <1>1, <2>1
    <3>. QED  BY <2>1, <3>1, ElementOfSeq
  <2>2. CASE ~(from < k /\ k <= from + Len(src))
    BY <2>2, ElementOfSeq
  <2>. QED  BY <2>1, <2>2
<1>3. Copy(b, from, src) = [k \in 1..Len(b) |-> e(k)]
  BY DEF Copy
<1>. HIDE DEF e
<1>4. Copy(b, from, src) \in Seq(S) /\ Len(Copy(b, from, src)) = Len(b)
  BY <1>1, <1>2, <1>3
<1>5. \A k \in 1..Len(b) : Copy(b, from, src)[k] = e(k)
  BY <1>3
<1>. QED  BY <1>4, <1>5 DEF e

LEMMA ZerosElements ==
  ASSUME NEW m \in Nat
  PROVE  /\ Zeros(m) \in Seq({0})
         /\ Len(Zeros(m)) = m
BY DEF Zeros

\* The zero byte of a fresh buffer is among the bytes of the buffer.
LEMMA InLarger ==
  ASSUME NEW S, NEW T, S \subseteq T, NEW f \in Seq(S)
  PROVE  f \in Seq(T)
BY LenProperties

Joined(a, c, z) == (a \o c) \o z

\* j has the elements of a, then those of c, then those of z.
IsJoin(S, j, a, c, z) ==
  /\ j \in Seq(S)
  /\ Len(j) = Len(a) + Len(c) + Len(z)
  /\ \A k \in 1..(Len(a) + Len(c) + Len(z)) : j[k] =
       IF k <= Len(a) THEN a[k]
       ELSE IF k <= Len(a) + Len(c) THEN c[k - Len(a)]
       ELSE z[k - (Len(a) + Len(c))]

\* The concatenation of three contents, byte by byte.
LEMMA JoinElements ==
  ASSUME NEW S, NEW a \in Seq(S), NEW c \in Seq(S), NEW z \in Seq(S)
  PROVE  IsJoin(S, Joined(a, c, z), a, c, z)
<1>. DEFINE h == a \o c
<1>1. Len(a) \in Nat /\ Len(c) \in Nat /\ Len(z) \in Nat
  BY LenProperties
<1>2. /\ h \in Seq(S) /\ Len(h) = Len(a) + Len(c)
      /\ \A k \in 1..(Len(a) + Len(c)) :
           h[k] = IF k <= Len(a) THEN a[k] ELSE c[k - Len(a)]
  BY ConcatProperties
<1>. HIDE DEF h
<1>3. /\ h \o z \in Seq(S)
      /\ Len(h \o z) = Len(h) + Len(z)
      /\ \A k \in 1..(Len(h) + Len(z)) :
           (h \o z)[k] = IF k <= Len(h) THEN h[k] ELSE z[k - Len(h)]
  <2>1. h \in Seq(S)
    BY <1>2
  <2>. QED  BY <2>1, ConcatProperties
<1>4. ASSUME NEW k \in 1..(Len(a) + Len(c) + Len(z))
      PROVE  (h \o z)[k] =
               IF k <= Len(a) THEN a[k]
               ELSE IF k <= Len(a) + Len(c) THEN c[k - Len(a)]
               ELSE z[k - (Len(a) + Len(c))]
  BY <1>1, <1>2, <1>3
<1>. QED  BY <1>2, <1>3, <1>4 DEF h, Joined, IsJoin

(***************************************************************************)
(* The services.                                                           *)
(***************************************************************************)

\* The three copies fill the buffer: no byte of it is left zero, and none of
\* what is copied is copied over.
LEMMA AssembledIsJoin ==
  ASSUME NEW S, NEW f \in Seq(S), NEW c \in Seq(S), NEW z \in Seq(S),
         NEW o \in 0..Len(f), NEW size \in Nat, size = o + Len(c) + Len(z)
  PROVE  Assembled(size, f, o, c, z) = Joined(Before(f, o), c, z)
<1>. DEFINE T == S \cup {0}
            a == Before(f, o)
            b0 == Zeros(size)
            b1 == Copy(b0, 0, a)
            b2 == Copy(b1, o, c)
            b3 == Copy(b2, o + Len(c), z)
<1>1. Len(c) \in Nat /\ Len(z) \in Nat /\ o \in Nat /\ size \in Nat
  BY LenProperties
<1>2. a \in Seq(S) /\ Len(a) = o
  BY BeforeElements
<1>3. b3 = Assembled(size, f, o, c, z)
  BY DEF Assembled
<1>. HIDE DEF a
<1>4. a \in Seq(T) /\ c \in Seq(T) /\ z \in Seq(T)
  BY <1>2, InLarger
<1>5. b0 \in Seq(T) /\ Len(b0) = size
  BY <1>1, ZerosElements, InLarger
<1>. HIDE DEF T, b0
<1>6. /\ b1 \in Seq(T) /\ Len(b1) = size
      /\ \A k \in 1..size : b1[k] = IF k <= o THEN a[k] ELSE b0[k]
  <2>1. /\ b1 \in Seq(T) /\ Len(b1) = Len(b0)
        /\ \A k \in 1..Len(b0) : b1[k] =
             IF 0 < k /\ k <= 0 + Len(a) THEN a[k - 0] ELSE b0[k]
    BY <1>4, <1>5, CopyElements
  <2>. HIDE DEF b1
  <2>. QED  BY <1>1, <1>2, <1>5, <2>1
<1>. HIDE DEF b1
<1>7. /\ b2 \in Seq(T) /\ Len(b2) = size
      /\ \A k \in 1..size :
           b2[k] = IF o < k /\ k <= o + Len(c) THEN c[k - o] ELSE b1[k]
  BY <1>1, <1>4, <1>6, CopyElements
<1>. HIDE DEF b2
<1>8. /\ b3 \in Seq(T) /\ Len(b3) = size
      /\ \A k \in 1..size :
           b3[k] = IF o + Len(c) < k THEN z[k - (o + Len(c))] ELSE b2[k]
  <2>1. o + Len(c) \in Nat
    BY <1>1
  <2>2. /\ b3 \in Seq(T) /\ Len(b3) = Len(b2)
        /\ \A k \in 1..Len(b2) : b3[k] =
             IF o + Len(c) < k /\ k <= (o + Len(c)) + Len(z)
             THEN z[k - (o + Len(c))] ELSE b2[k]
    BY <1>4, <1>7, <2>1, CopyElements
  <2>. HIDE DEF b3
  <2>. QED  BY <1>1, <1>7, <2>2
<1>. HIDE DEF b3
<1>. DEFINE j == Joined(a, c, z)
<1>9. /\ j \in Seq(S) /\ Len(j) = size
      /\ \A k \in 1..size : j[k] =
           IF k <= o THEN a[k]
           ELSE IF k <= o + Len(c) THEN c[k - o] ELSE z[k - (o + Len(c))]
  <2>1. a \in Seq(S) /\ Len(a) = o /\ Len(a) + Len(c) + Len(z) = size
    BY <1>2
  <2>2. IsJoin(S, j, a, c, z)
    BY <2>1, JoinElements, Zenon
  <2>. HIDE DEF j
  <2>. QED  BY <2>1, <2>2 DEF IsJoin
<1>10. j \in Seq(T)
  BY <1>9, InLarger DEF T
<1>. HIDE DEF j
<1>11. ASSUME NEW k \in 1..size
       PROVE  b3[k] = j[k]
  <2>1. k \in Nat /\ o + Len(c) \in Nat
    BY <1>1
  <2>2. CASE k <= o
    <3>1. ~(o < k) /\ ~(o + Len(c) < k)
      BY <1>1, <2>1, <2>2
    <3>2. b3[k] = a[k]
      BY <1>6, <1>7, <1>8, <2>2, <3>1, Zenon
    <3>. QED  BY <1>9, <2>2, <3>2, Zenon
  <2>3. CASE ~(k <= o) /\ k <= o + Len(c)
    <3>1. o < k /\ ~(o + Len(c) < k)
      BY <1>1, <2>1, <2>3
    <3>2. b3[k] = c[k - o]
      BY <1>7, <1>8, <2>3, <3>1, Zenon
    <3>. QED  BY <1>9, <2>3, <3>2, Zenon
  <2>4. CASE ~(k <= o) /\ ~(k <= o + Len(c))
    <3>1. o + Len(c) < k
      BY <2>1, <2>4
    <3>2. b3[k] = z[k - (o + Len(c))]
      BY <1>8, <3>1, Zenon
    <3>. QED  BY <1>9, <2>4, <3>2, Zenon
  <2>. QED  BY <2>2, <2>3, <2>4, Zenon
<1>12. b3 = j
  <2>1. Len(b3) = Len(j) /\ \A k \in 1..Len(b3) : b3[k] = j[k]
    BY <1>8, <1>9, <1>11, Zenon
  <2>. QED  BY <1>8, <1>10, <2>1, SeqEqual
<1>. QED  BY <1>3, <1>12, Zenon DEF j, a

\* WRITE puts its content in at the offset and loses no byte of the file.
THEOREM WriteIsMeant ==
  ASSUME NEW S, NEW f \in Seq(S), NEW c \in Seq(S), NEW o \in 0..Len(f)
  PROVE  Inserted(f, o, c) = Splice(f, o, 0, c)
<1>1. Len(f) \in Nat /\ Len(c) \in Nat /\ o \in 0..Len(f)
  BY LenProperties
<1>. DEFINE z == After(f, o)
            size == Len(f) + Len(c)
<1>2. z \in Seq(S) /\ Len(z) = Len(f) - o
  BY AfterElements
<1>3. Inserted(f, o, c) = Joined(Before(f, o), c, z)
  <2>1. Inserted(f, o, c) = Assembled(size, f, o, c, z)
    BY DEF Inserted
  <2>. HIDE DEF z
  <2>2. /\ o \in 0..Len(f) /\ z \in Seq(S)
        /\ size \in Nat /\ size = o + Len(c) + Len(z)
    BY <1>1, <1>2
  <2>. HIDE DEF size
  <2>3. Assembled(size, f, o, c, z) = Joined(Before(f, o), c, z)
    BY <2>2, AssembledIsJoin, ZenonT(30)
  <2>. QED  BY <2>1, <2>3, Zenon
<1>4. o + 0 + 1 = o + 1
  OBVIOUS
<1>. QED  BY <1>3, <1>4, Zenon DEF Splice, Joined, Before, After

\* REPLACE puts its content over as many bytes, if they are in the file.
THEOREM ReplaceIsMeant ==
  ASSUME NEW S, NEW f \in Seq(S), NEW c \in Seq(S), NEW o \in Nat,
         o + Len(c) <= Len(f)
  PROVE  Overwritten(f, o, c) = Splice(f, o, Len(c), c)
<1>1. Len(f) \in Nat /\ Len(c) \in Nat /\ o \in 0..Len(f)
      /\ o + Len(c) \in 0..Len(f)
  BY LenProperties
<1>. DEFINE z == After(f, o + Len(c))
            size == Len(f)
<1>2. z \in Seq(S) /\ Len(z) = Len(f) - (o + Len(c))
  BY <1>1, AfterElements
<1>3. Overwritten(f, o, c) = Joined(Before(f, o), c, z)
  <2>1. Overwritten(f, o, c) = Assembled(size, f, o, c, z)
    BY DEF Overwritten
  <2>. HIDE DEF z
  <2>2. /\ o \in 0..Len(f) /\ z \in Seq(S)
        /\ size \in Nat /\ size = o + Len(c) + Len(z)
    BY <1>1, <1>2
  <2>. HIDE DEF size
  <2>3. Assembled(size, f, o, c, z) = Joined(Before(f, o), c, z)
    BY <2>2, AssembledIsJoin, ZenonT(30)
  <2>. QED  BY <2>1, <2>3, Zenon
<1>. QED  BY <1>3, Zenon DEF Splice, Joined, Before, After

\* DELETE takes its segment out and leaves the bytes before and after it.
THEOREM DeleteIsMeant ==
  ASSUME NEW S, NEW f \in Seq(S), NEW o \in Nat, NEW m \in Nat, o + m <= Len(f)
  PROVE  Deleted(f, o, m) = Splice(f, o, m, <<>>)
<1>1. Len(f) \in Nat /\ o \in 0..Len(f) /\ o + m \in 0..Len(f)
  BY LenProperties
<1>. DEFINE a == Before(f, o)
            z == After(f, o + m)
            j == (a \o <<>>) \o z
<1>2. /\ a \in Seq(S) /\ Len(a) = o
      /\ \A k \in 1..o : a[k] = f[k]
  BY <1>1, BeforeElements
<1>3. /\ z \in Seq(S) /\ Len(z) = Len(f) - (o + m)
      /\ \A k \in 1..(Len(f) - (o + m)) : z[k] = f[(o + m) + k]
  BY <1>1, AfterElements
<1>4. Splice(f, o, m, <<>>) = j
  BY DEF Splice, Before, After
<1>. HIDE DEF a, z
<1>5. a \o <<>> = a
  BY <1>2, ConcatEmptySeq
<1>6. /\ j \in Seq(S) /\ Len(j) = Len(f) - m
      /\ \A k \in 1..(Len(f) - m) : j[k] = IF k <= o THEN a[k] ELSE z[k - o]
  <2>1. /\ a \o z \in Seq(S) /\ Len(a \o z) = Len(a) + Len(z)
        /\ \A k \in 1..(Len(a) + Len(z)) :
             (a \o z)[k] = IF k <= Len(a) THEN a[k] ELSE z[k - Len(a)]
    <3>1. a \in Seq(S) /\ z \in Seq(S)
      BY <1>2, <1>3
    <3>. QED  BY <3>1, ConcatProperties
  <2>2. Len(a) + Len(z) = Len(f) - m
    BY <1>1, <1>2, <1>3
  <2>. QED  BY <1>2, <1>5, <2>1, <2>2
<1>. HIDE DEF j
<1>7. ASSUME NEW k \in 1..(Len(f) - m)
      PROVE  j[k] = IF k <= o THEN f[k] ELSE f[k + m]
  <2>1. CASE k <= o
    BY <1>1, <1>2, <1>6, <2>1
  <2>2. CASE ~(k <= o)
    <3>1. k - o \in 1..(Len(f) - (o + m)) /\ (o + m) + (k - o) = k + m
      BY <1>1, <2>2
    <3>2. z[k - o] = f[k + m]
      BY <1>3, <3>1
    <3>. QED  BY <1>6, <2>2, <3>2
  <2>. QED  BY <2>1, <2>2
<1>8. /\ DOMAIN j = 1..(Len(f) - m)
      /\ j = [k \in DOMAIN j |-> j[k]]
  BY <1>6, LenProperties
<1>9. Deleted(f, o, m) = j
  BY <1>7, <1>8 DEF Deleted
<1>. QED  BY <1>4, <1>9

(***************************************************************************)
(* The server.                                                             *)
(***************************************************************************)

LEMMA UpToIsSeq ==
  ASSUME NEW S, NEW n \in Nat, NEW x
  PROVE  x \in UpTo(S, n) <=> x \in Seq(S) /\ Len(x) <= n
<1>1. ASSUME x \in UpTo(S, n)
      PROVE  x \in Seq(S) /\ Len(x) <= n
  <2>1. PICK k \in 0..n : x \in [1..k -> S]
    BY <1>1 DEF UpTo
  <2>2. k \in Nat /\ x \in Seq(S) /\ Len(x) = k
    BY <2>1
  <2>. QED  BY <2>1, <2>2
<1>2. ASSUME x \in Seq(S), Len(x) <= n
      PROVE  x \in UpTo(S, n)
  <2>1. Len(x) \in 0..n /\ x \in [1..Len(x) -> S]
    BY <1>2, LenProperties
  <2>. QED  BY <2>1 DEF UpTo
<1>. QED  BY <1>1, <1>2

LEMMA ModSmall ==
  ASSUME NEW a \in Nat, NEW m \in Nat \ {0}, a < m
  PROVE  a % m = a
OBVIOUS

LEMMA SpliceIsSeq ==
  ASSUME NEW S, NEW f \in Seq(S), NEW c \in Seq(S), NEW o \in Nat, NEW m \in Nat,
         o + m <= Len(f)
  PROVE  Splice(f, o, m, c) \in Seq(S)
<1>1. o \in 0..Len(f) /\ o + m \in 0..Len(f)
  BY LenProperties
<1>2. Before(f, o) \in Seq(S) /\ After(f, o + m) \in Seq(S)
  BY <1>1, BeforeElements, AfterElements
<1>3. (Before(f, o) \o c) \o After(f, o + m) \in Seq(S)
  BY <1>2, ConcatProperties
<1>. QED  BY <1>3 DEF Splice, Before, After

\* A spliced content, byte by byte.
IsSplice(S, g, f, o, m, c) ==
  /\ g \in Seq(S)
  /\ Len(g) = (Len(f) - m) + Len(c)
  /\ \A k \in 1..((Len(f) - m) + Len(c)) : g[k] =
       IF k <= o THEN f[k]
       ELSE IF k <= o + Len(c) THEN c[k - o]
       ELSE f[(k - Len(c)) + m]

LEMMA SpliceElements ==
  ASSUME NEW S, NEW f \in Seq(S), NEW c \in Seq(S), NEW o \in Nat, NEW m \in Nat,
         o + m <= Len(f)
  PROVE  IsSplice(S, Splice(f, o, m, c), f, o, m, c)
<1>1. Len(f) \in Nat /\ Len(c) \in Nat /\ o \in 0..Len(f) /\ o + m \in 0..Len(f)
  BY LenProperties
<1>. DEFINE a == Before(f, o)
            z == After(f, o + m)
            g == Splice(f, o, m, c)
<1>2. a \in Seq(S) /\ Len(a) = o /\ \A k \in 1..o : a[k] = f[k]
  BY <1>1, BeforeElements
<1>3. /\ z \in Seq(S) /\ Len(z) = Len(f) - (o + m)
      /\ \A k \in 1..(Len(f) - (o + m)) : z[k] = f[(o + m) + k]
  BY <1>1, AfterElements
<1>4. g = Joined(a, c, z)
  BY DEF Joined, Splice, Before, After
<1>. HIDE DEF a, z, g
<1>5. IsJoin(S, g, a, c, z)
  BY <1>2, <1>3, <1>4, JoinElements, Zenon
<1>6. /\ g \in Seq(S) /\ Len(g) = (Len(f) - m) + Len(c)
      /\ \A k \in 1..((Len(f) - m) + Len(c)) : g[k] =
           IF k <= o THEN a[k]
           ELSE IF k <= o + Len(c) THEN c[k - o]
           ELSE z[k - (o + Len(c))]
  BY <1>1, <1>2, <1>3, <1>5 DEF IsJoin
<1>7. ASSUME NEW k \in 1..((Len(f) - m) + Len(c)), ~(k <= o), ~(k <= o + Len(c))
      PROVE  z[k - (o + Len(c))] = f[(k - Len(c)) + m]
  <2>1. /\ k - (o + Len(c)) \in 1..(Len(f) - (o + m))
        /\ (o + m) + (k - (o + Len(c))) = (k - Len(c)) + m
    BY <1>1, <1>7
  <2>. QED  BY <1>3, <2>1
<1>8. ASSUME NEW k \in 1..((Len(f) - m) + Len(c)), k <= o
      PROVE  a[k] = f[k]
  BY <1>1, <1>2, <1>8
<1>9. \A k \in 1..((Len(f) - m) + Len(c)) : g[k] =
        IF k <= o THEN f[k]
        ELSE IF k <= o + Len(c) THEN c[k - o]
        ELSE f[(k - Len(c)) + m]
  BY <1>6, <1>7, <1>8, Zenon
<1>. QED  BY <1>6, <1>9, Zenon DEF IsSplice, g

\* A content that is put in the place of itself changes nothing.
LEMMA SpliceTwice ==
  ASSUME NEW S, NEW f \in Seq(S), NEW c \in Seq(S), NEW o \in Nat,
         o + Len(c) <= Len(f), NEW g, g = Splice(f, o, Len(c), c)
  PROVE  g \in Seq(S) /\ Len(g) = Len(f) /\ Splice(g, o, Len(c), c) = g
<1>1. Len(f) \in Nat /\ Len(c) \in Nat
  BY LenProperties
<1>2. IsSplice(S, g, f, o, Len(c), c)
  BY <1>1, SpliceElements
<1>3. /\ g \in Seq(S) /\ Len(g) = Len(f)
      /\ \A k \in 1..Len(f) :
           k <= o + Len(c) /\ ~(k <= o) => g[k] = c[k - o]
  BY <1>1, <1>2 DEF IsSplice
<1>. DEFINE h == Splice(g, o, Len(c), c)
<1>4. IsSplice(S, h, g, o, Len(c), c)
  BY <1>1, <1>3, SpliceElements
<1>. HIDE DEF h
<1>5. /\ h \in Seq(S) /\ Len(h) = Len(f)
      /\ \A k \in 1..Len(f) : h[k] =
           IF k <= o THEN g[k] ELSE IF k <= o + Len(c) THEN c[k - o]
           ELSE g[(k - Len(c)) + Len(c)]
  BY <1>1, <1>3, <1>4 DEF IsSplice
<1>6. \A k \in 1..Len(f) : (k - Len(c)) + Len(c) = k
  BY <1>1
<1>7. \A k \in 1..Len(f) : h[k] = g[k]
  BY <1>3, <1>5, <1>6, Zenon
<1>8. h = g
  BY <1>3, <1>5, <1>7, SeqEqual
<1>. QED  BY <1>3, <1>8 DEF h

\* A content that was put in is taken out again.
LEMMA SpliceBack ==
  ASSUME NEW S, NEW f \in Seq(S), NEW c \in Seq(S), NEW o \in Nat, o <= Len(f),
         NEW g, g = Splice(f, o, 0, c)
  PROVE  /\ g \in Seq(S) /\ Len(g) = Len(f) + Len(c)
         /\ Splice(g, o, Len(c), <<>>) = f
<1>1. Len(f) \in Nat /\ Len(c) \in Nat /\ <<>> \in Seq(S) /\ Len(<<>>) = 0
  BY LenProperties, EmptySeq
<1>2. IsSplice(S, g, f, o, 0, c)
  <2>1. 0 \in Nat /\ o + 0 <= Len(f)
    BY <1>1
  <2>. QED  BY <2>1, SpliceElements
<1>3. /\ g \in Seq(S) /\ Len(g) = Len(f) + Len(c)
      /\ \A k \in 1..(Len(f) + Len(c)) : g[k] =
           IF k <= o THEN f[k] ELSE IF k <= o + Len(c) THEN c[k - o]
           ELSE f[k - Len(c)]
  BY <1>1, <1>2 DEF IsSplice
<1>. DEFINE h == Splice(g, o, Len(c), <<>>)
<1>4. IsSplice(S, h, g, o, Len(c), <<>>)
  <2>1. g \in Seq(S) /\ o + Len(c) <= Len(g)
    BY <1>1, <1>3
  <2>. HIDE DEF h
  <2>2. IsSplice(S, Splice(g, o, Len(c), <<>>), g, o, Len(c), <<>>)
    BY <1>1, <2>1, SpliceElements, Zenon
  <2>. QED  BY <2>2, Zenon DEF h
<1>. HIDE DEF h
<1>5. /\ h \in Seq(S) /\ Len(h) = Len(f)
      /\ \A k \in 1..Len(f) : h[k] = IF k <= o THEN g[k] ELSE g[k + Len(c)]
  BY <1>1, <1>3, <1>4 DEF IsSplice
<1>6. ASSUME NEW k \in 1..Len(f)
      PROVE  h[k] = f[k]
  <2>1. CASE k <= o
    <3>1. k \in 1..(Len(f) + Len(c))
      BY <1>1
    <3>. QED  BY <1>3, <1>5, <2>1, <3>1, Zenon
  <2>2. CASE ~(k <= o)
    <3>1. /\ k + Len(c) \in 1..(Len(f) + Len(c))
          /\ ~(k + Len(c) <= o) /\ ~(k + Len(c) <= o + Len(c))
          /\ (k + Len(c)) - Len(c) = k
      BY <1>1, <2>2
    <3>2. g[k + Len(c)] = f[k]
      BY <1>3, <3>1, Zenon
    <3>. QED  BY <1>5, <2>2, <3>2, Zenon
  <2>. QED  BY <2>1, <2>2
<1>7. h = f
  BY <1>5, <1>6, SeqEqual
<1>. QED  BY <1>3, <1>7 DEF h

LEMMA EmptyIsContent == <<>> \in Contents
<1>1. <<>> \in Seq(Bytes) /\ Len(<<>>) = 0
  BY EmptySeq
<1>2. MaxLen \in Nat /\ Len(<<>>) <= MaxLen
  BY <1>1, FileServerAssumption
<1>. QED  BY <1>1, <1>2, UpToIsSeq, Zenon DEF Contents

LEMMA WholeIsPrefix ==
  ASSUME NEW b \in Contents
  PROVE  Len(b) \in Nat /\ SubSeq(b, 1, Len(b)) = b
<1>1. b \in Seq(Bytes) /\ Len(b) \in Nat
  BY FileServerAssumption, UpToIsSeq, LenProperties DEF Contents
<1>2. /\ Before(b, Len(b)) \in Seq(Bytes)
      /\ Len(Before(b, Len(b))) = Len(b)
      /\ \A k \in 1..Len(b) : Before(b, Len(b))[k] = b[k]
  BY <1>1, BeforeElements
<1>3. Before(b, Len(b)) = b
  BY <1>1, <1>2, SeqEqual
<1>. QED  BY <1>1, <1>3 DEF Before

\* No sum in a request wraps round, as long as its offset is in the file.
LEMMA EndIsSum ==
  ASSUME NEW r \in Requests, NEW f \in Contents, r.offset <= Len(f)
  PROVE  /\ r.offset \in Nat
         /\ r.op \in {"READ", "DELETE"} =>
              r.numBytes \in Nat /\ End(r) = r.offset + r.numBytes
         /\ r.op \in {"WRITE", "REPLACE"} =>
              r.content \in Seq(Bytes) /\ End(r) = r.offset + Len(r.content)
<1>1. /\ WordSize \in Nat \ {0} /\ MaxLen \in Nat /\ MaxContent \in Nat
      /\ MaxLen + MaxContent < WordSize
      /\ \A k \in Inputs : k \in Nat /\ k + k < WordSize
  BY WordAssumption, FileServerAssumption
<1>2. r.offset \in Inputs
  BY DEF Requests
<1>3. Len(f) \in Nat /\ Len(f) <= MaxLen
  BY <1>1, UpToIsSeq, LenProperties DEF Contents
<1>4. ASSUME r.op \in {"READ", "DELETE"}
      PROVE  r.numBytes \in Nat /\ End(r) = r.offset + r.numBytes
  <2>1. r.numBytes \in Inputs
    BY <1>4 DEF Requests
  <2>2. r.offset + r.numBytes \in Nat /\ r.offset + r.numBytes < WordSize
    BY <1>1, <1>2, <2>1
  <2>3. End(r) = (r.offset + r.numBytes) % WordSize
    BY <1>4 DEF End
  <2>. QED  BY <1>1, <2>1, <2>2, <2>3, ModSmall
<1>5. ASSUME r.op \in {"WRITE", "REPLACE"}
      PROVE  r.content \in Seq(Bytes) /\ End(r) = r.offset + Len(r.content)
  <2>1. r.content \in Payloads
    BY <1>5 DEF Requests
  <2>2. r.content \in Seq(Bytes) /\ Len(r.content) <= MaxContent
    BY <1>1, <2>1, UpToIsSeq DEF Payloads
  <2>3. /\ r.offset + Len(r.content) \in Nat
        /\ r.offset + Len(r.content) < WordSize
    BY <1>1, <1>2, <1>3, <2>2, LenProperties
  <2>4. End(r) = (r.offset + Len(r.content)) % WordSize
    BY <1>5 DEF End
  <2>. QED  BY <1>1, <2>2, <2>3, <2>4, ModSmall
<1>. QED  BY <1>1, <1>2, <1>4, <1>5

\* An update that passes the checks and does not panic is computed as meant.
LEMMA UpdatedIsMeant ==
  ASSUME NEW r \in Requests, NEW f \in Contents,
         r.op # "READ", ~Fails(r, f), ~Panics(r, f)
  PROVE  Updated(r, f) = Meant(r, f) /\ Updated(r, f) \in Seq(Bytes)
<1>1. f \in Seq(Bytes) /\ Len(f) \in Nat
  BY FileServerAssumption, UpToIsSeq, LenProperties DEF Contents
<1>2. r.offset \in Nat /\ r.offset <= Len(f)
  <2>1. r.offset \in Nat
    BY FileServerAssumption DEF Requests
  <2>. QED  BY <1>1, <2>1 DEF Fails
<1>3. /\ r.op \in {"READ", "DELETE"} =>
           r.numBytes \in Nat /\ End(r) = r.offset + r.numBytes
      /\ r.op \in {"WRITE", "REPLACE"} =>
           r.content \in Seq(Bytes) /\ End(r) = r.offset + Len(r.content)
  BY <1>2, EndIsSum
<1>4. r.op \in {"WRITE", "REPLACE", "DELETE"}
  BY DEF Requests
<1>5. CASE r.op = "WRITE"
  <2>1. r.content \in Seq(Bytes) /\ r.offset \in 0..Len(f) /\ r.offset + 0 <= Len(f)
    BY <1>1, <1>2, <1>3, <1>5
  <2>2. Inserted(f, r.offset, r.content) = Splice(f, r.offset, 0, r.content)
    BY <1>1, <2>1, WriteIsMeant
  <2>3. Splice(f, r.offset, 0, r.content) \in Seq(Bytes)
    BY <1>1, <1>2, <2>1, SpliceIsSeq
  <2>. QED  BY <1>5, <2>2, <2>3 DEF Updated, Meant
<1>6. CASE r.op = "REPLACE"
  <2>1. r.content \in Seq(Bytes) /\ r.offset + Len(r.content) <= Len(f)
    BY <1>1, <1>2, <1>3, <1>6 DEF Panics
  <2>2. Overwritten(f, r.offset, r.content) =
          Splice(f, r.offset, Len(r.content), r.content)
    BY <1>1, <1>2, <2>1, ReplaceIsMeant
  <2>3. Splice(f, r.offset, Len(r.content), r.content) \in Seq(Bytes)
    BY <1>1, <1>2, <2>1, LenProperties, SpliceIsSeq
  <2>. QED  BY <1>6, <2>2, <2>3 DEF Updated, Meant
<1>7. CASE r.op = "DELETE"
  <2>1. r.numBytes \in Nat /\ r.offset + r.numBytes <= Len(f)
    BY <1>1, <1>2, <1>3, <1>7 DEF Fails
  <2>2. Deleted(f, r.offset, r.numBytes) = Splice(f, r.offset, r.numBytes, <<>>)
    BY <1>1, <1>2, <2>1, DeleteIsMeant
  <2>3. Splice(f, r.offset, r.numBytes, <<>>) \in Seq(Bytes)
    BY <1>1, <1>2, <2>1, EmptySeq, SpliceIsSeq
  <2>. QED  BY <1>7, <2>2, <2>3 DEF Updated, Meant
<1>. QED  BY <1>4, <1>5, <1>6, <1>7

\* The inductive invariant.  While an update is under way the buffer holds what
\* it means, and the file what its stage says.
InUpdate ==
  /\ stage # "idle" =>
       /\ reply = "none"
       /\ request.op \in {"WRITE", "REPLACE", "DELETE"}
       /\ buf = Meant(request, before)
  /\ stage = "open" => disk[request.path] = before
  /\ stage = "write" => disk[request.path] = <<>>
  /\ stage = "notify" => disk[request.path] = buf

FileInv == TypeOK /\ InUpdate /\ UpdateIsMeant /\ TornIsPrefix

\* A part of the buffer, written to an empty file, is a prefix of it.
LEMMA WrittenIsPrefix ==
  ASSUME buf \in Contents, NEW p, disk[p] = <<>>, NEW k \in 0..Len(buf)
  PROVE  /\ Written(p, k) \in Contents
         /\ Len(Written(p, k)) = k
         /\ Written(p, k) = SubSeq(buf, 1, Len(Written(p, k)))
<1>1. buf \in Seq(Bytes) /\ Len(buf) \in Nat /\ Len(buf) <= MaxLen
  BY FileServerAssumption, UpToIsSeq, LenProperties DEF Contents
<1>2. Before(buf, k) \in Seq(Bytes) /\ Len(Before(buf, k)) = k
  BY <1>1, BeforeElements
<1>3. After(<<>>, k) = <<>>
  BY <1>1 DEF After
<1>4. Written(p, k) = Before(buf, k)
  <2>1. Before(buf, k) \o <<>> = Before(buf, k)
    BY <1>2, ConcatEmptySeq
  <2>. QED  BY <1>3, <2>1, Zenon DEF Written, Before
<1>5. Before(buf, k) \in Contents
  BY <1>1, <1>2, FileServerAssumption, UpToIsSeq DEF Contents
<1>6. SubSeq(buf, 1, k) = Before(buf, k)
  BY DEF Before
<1>. QED  BY <1>2, <1>4, <1>5, <1>6

LEMMA WrittenIsAll ==
  ASSUME buf \in Contents, NEW p, disk[p] = <<>>
  PROVE  Written(p, Len(buf)) = buf
<1>1. buf \in Seq(Bytes) /\ Len(buf) \in Nat
  BY FileServerAssumption, UpToIsSeq, LenProperties DEF Contents
<1>2. /\ Written(p, Len(buf)) \in Contents
      /\ Len(Written(p, Len(buf))) = Len(buf)
      /\ Written(p, Len(buf)) = SubSeq(buf, 1, Len(Written(p, Len(buf))))
  BY <1>1, WrittenIsPrefix
<1>. QED  BY <1>2, WholeIsPrefix

LEMMA FileInvInit == Init => FileInv
<1>. SUFFICES ASSUME Init
              PROVE  FileInv
  OBVIOUS
<1>1. <<>> \in Contents
  BY EmptyIsContent
<1>2. TypeOK
  BY <1>1 DEF Init, TypeOK
<1>. QED  BY <1>2 DEF Init, FileInv, InUpdate, UpdateIsMeant, TornIsPrefix, Done, NoRequest

\* A request that ends at once: the file is as it was.
LEMMA EndsAtOnce ==
  ASSUME FileInv, NEW r \in Requests,
         request' = r, disk' = disk, buf' = <<>>, notified' = {},
         stage' = "idle", up' \in BOOLEAN, reply' \in {"none", "ok", "failed"},
         before' \in Contents,
         r.path \in Files => before' = disk[r.path],
         reply' = "ok" => r.op = "READ"
  PROVE  FileInv'
<1>1. TypeOK'
  BY EmptyIsContent DEF FileInv, TypeOK
<1>2. InUpdate'
  BY DEF InUpdate
<1>3. UpdateIsMeant'
  BY DEF UpdateIsMeant, Done
<1>4. TornIsPrefix'
  BY DEF TornIsPrefix
<1>. QED  BY <1>1, <1>2, <1>3, <1>4 DEF FileInv

LEMMA FileInvStep == FileInv /\ [Next]_vars => FileInv'
<1>. SUFFICES ASSUME FileInv, [Next]_vars
              PROVE  FileInv'
  OBVIOUS
<1>. USE DEF FileInv
<1>1. ASSUME NEW r \in Requests, NoSuchFile(r)
      PROVE  FileInv'
  <2>1. <<>> \in Contents
    BY EmptyIsContent
  <2>2. up' \in BOOLEAN
    BY <1>1 DEF NoSuchFile, TypeOK
  <2>. QED  BY <1>1, <2>1, <2>2, EndsAtOnce DEF NoSuchFile, Handle, Respond
<1>2. ASSUME NEW r \in Requests, r.path \in Files
      PROVE  disk[r.path] \in Contents
  BY <1>2 DEF TypeOK
<1>3. ASSUME NEW r \in Requests, Refuse(r)
      PROVE  FileInv'
  <2>1. up' \in BOOLEAN
    BY <1>3 DEF Refuse, TypeOK
  <2>. QED  BY <1>2, <1>3, <2>1, EndsAtOnce DEF Refuse, Serve, Handle, Respond
<1>4. ASSUME NEW r \in Requests, Panic(r)
      PROVE  FileInv'
  BY <1>2, <1>4, EndsAtOnce DEF Panic, Serve, Handle, Respond
<1>5. ASSUME NEW r \in Requests, Read(r)
      PROVE  FileInv'
  <2>1. up' \in BOOLEAN
    BY <1>5 DEF Read, TypeOK
  <2>. QED  BY <1>2, <1>5, <2>1, EndsAtOnce DEF Read, Serve, Handle, Respond
<1>6. ASSUME NEW r \in Requests, Prepare(r)
      PROVE  FileInv'
  <2>. DEFINE f == disk[r.path]
  <2>1. /\ r.path \in Files /\ r.op # "READ" /\ ~Fails(r, f) /\ ~Panics(r, f)
        /\ Len(Updated(r, f)) <= MaxLen
        /\ request' = r /\ before' = f /\ buf' = Updated(r, f)
        /\ stage' = "open" /\ reply' = "none"
        /\ disk' = disk /\ up' = up /\ notified' = {}
    BY <1>6 DEF Prepare, Serve, Handle
  <2>2. f \in Contents
    BY <1>2, <2>1
  <2>3. r.op \in {"WRITE", "REPLACE", "DELETE"}
    BY <2>1 DEF Requests
  <2>. HIDE DEF f
  <2>4. Updated(r, f) = Meant(r, f) /\ Updated(r, f) \in Seq(Bytes)
    BY <2>1, <2>2, UpdatedIsMeant
  <2>5. Updated(r, f) \in Contents
    BY <2>1, <2>4, FileServerAssumption, UpToIsSeq DEF Contents
  <2>6. TypeOK'
    <3>1. r # NoRequest
      BY <2>3 DEF NoRequest
    <3>. QED  BY <2>1, <2>2, <2>5, <3>1 DEF TypeOK
  <2>7. Meant(request, before)' = Meant(r, f)
    BY <2>1 DEF Meant, Splice
  <2>8. InUpdate'
    BY <2>1, <2>3, <2>4, <2>7 DEF InUpdate, f
  <2>9. UpdateIsMeant' /\ TornIsPrefix'
    BY <2>1 DEF UpdateIsMeant, TornIsPrefix, Done
  <2>. QED  BY <2>6, <2>8, <2>9
<1>7. CASE OpenFile
  <2>1. /\ stage = "open" /\ stage' = "write"
        /\ disk' = [disk EXCEPT ![request.path] = <<>>]
        /\ UNCHANGED <<up, request, buf, reply, before, notified>>
        /\ request.path \in Files
    BY <1>7 DEF OpenFile, Opened, TypeOK
  <2>2. <<>> \in Contents
    BY EmptyIsContent
  <2>3. TypeOK'
    BY <2>1, <2>2 DEF TypeOK
  <2>4. disk'[request'.path] = <<>>
    BY <2>1 DEF TypeOK
  <2>5. Meant(request, before)' = Meant(request, before)
    BY <2>1 DEF Meant, Splice
  <2>6. InUpdate'
    BY <2>1, <2>4, <2>5 DEF InUpdate
  <2>7. UpdateIsMeant' /\ TornIsPrefix'
    BY <2>1 DEF InUpdate, UpdateIsMeant, TornIsPrefix, Done
  <2>. QED  BY <2>3, <2>6, <2>7
<1>8. CASE OpenFails
  <2>1. /\ stage = "open" /\ stage' = "idle" /\ reply' = "failed"
        /\ UNCHANGED <<disk, up, request, buf, before, notified>>
        /\ disk[request.path] = before
    BY <1>8 DEF OpenFails, Respond, InUpdate
  <2>2. TypeOK'
    BY <2>1 DEF TypeOK
  <2>3. InUpdate' /\ UpdateIsMeant' /\ TornIsPrefix'
    BY <2>1 DEF InUpdate, UpdateIsMeant, TornIsPrefix, Done
  <2>. QED  BY <2>2, <2>3
<1>9. CASE WriteFile
  <2>1. /\ stage = "write" /\ stage' = "notify" /\ request.path \in Files
        /\ disk[request.path] = <<>> /\ buf \in Contents
        /\ disk' = [disk EXCEPT ![request.path] = Written(request.path, Len(buf))]
        /\ UNCHANGED <<up, request, buf, reply, before, notified>>
    BY <1>9 DEF WriteFile, InUpdate, TypeOK
  <2>2. Written(request.path, Len(buf)) = buf
    BY <2>1, WrittenIsAll
  <2>3. TypeOK'
    BY <2>1, <2>2 DEF TypeOK
  <2>4. disk'[request'.path] = buf
    BY <2>1, <2>2 DEF TypeOK
  <2>5. Meant(request, before)' = Meant(request, before)
    BY <2>1 DEF Meant, Splice
  <2>6. InUpdate'
    BY <2>1, <2>4, <2>5 DEF InUpdate
  <2>7. UpdateIsMeant' /\ TornIsPrefix'
    BY <2>1 DEF InUpdate, UpdateIsMeant, TornIsPrefix, Done
  <2>. QED  BY <2>3, <2>6, <2>7
<1>10. CASE WriteFails
  <2>1. /\ stage = "write" /\ stage' = "idle" /\ reply' = "failed"
        /\ request.path \in Files /\ disk[request.path] = <<>> /\ buf \in Contents
        /\ UNCHANGED <<up, request, buf, before, notified>>
    BY <1>10 DEF WriteFails, Respond, InUpdate, TypeOK
  <2>2. PICK k \in 0..Len(buf) :
          /\ k < Len(buf)
          /\ disk' = [disk EXCEPT ![request.path] = Written(request.path, k)]
    BY <1>10 DEF WriteFails
  <2>3. /\ Written(request.path, k) \in Contents
        /\ Len(Written(request.path, k)) = k
        /\ Written(request.path, k) = SubSeq(buf, 1, Len(Written(request.path, k)))
    BY <2>1, WrittenIsPrefix
  <2>4. TypeOK'
    BY <2>1, <2>2, <2>3 DEF TypeOK
  <2>5. disk'[request'.path] = Written(request.path, k)
    BY <2>1, <2>2 DEF TypeOK
  <2>6. InUpdate' /\ UpdateIsMeant'
    BY <2>1 DEF InUpdate, UpdateIsMeant, Done
  <2>7. k <= Len(buf)
    BY <2>1, <2>2
  <2>8. TornIsPrefix'
    BY <2>1, <2>3, <2>5, <2>7 DEF TornIsPrefix
  <2>. QED  BY <2>4, <2>6, <2>8
<1>11. CASE HandleNotification
  <2>1. /\ stage = "notify" /\ stage' = "idle" /\ reply' = "ok"
        /\ request.path \in Files /\ buf \in Contents
        /\ disk[request.path] = buf /\ buf = Meant(request, before)
        /\ notified' = {buf}
        /\ UNCHANGED <<disk, up, request, buf, before>>
    BY <1>11 DEF HandleNotification, Respond, Update, InUpdate, TypeOK
  <2>2. TypeOK'
    BY <2>1 DEF TypeOK
  <2>3. Meant(request, before)' = Meant(request, before)
    BY <2>1 DEF Meant, Splice
  <2>4. InUpdate' /\ UpdateIsMeant'
    BY <2>1, <2>3 DEF InUpdate, UpdateIsMeant
  <2>5. Len(buf) <= Len(buf) /\ buf = SubSeq(buf, 1, Len(buf))
    BY <2>1, WholeIsPrefix
  <2>6. TornIsPrefix'
    BY <2>1, <2>5 DEF TornIsPrefix
  <2>. QED  BY <2>2, <2>4, <2>6
<1>12. CASE Crash
  <2>1. /\ up' = FALSE /\ stage' = "idle"
        /\ UNCHANGED <<disk, request, buf, reply, before, notified>>
    BY <1>12 DEF Crash
  <2>2. TypeOK'
    BY <2>1 DEF TypeOK
  <2>3. InUpdate' /\ UpdateIsMeant'
    BY <2>1 DEF InUpdate, UpdateIsMeant, Done, Meant, Splice
  <2>4. TornIsPrefix'
    <3>1. buf \in Contents
      BY DEF TypeOK
    <3>2. Len(<<>>) <= Len(buf) /\ <<>> = SubSeq(buf, 1, Len(<<>>))
      BY <3>1, WholeIsPrefix
    <3>3. Len(buf) <= Len(buf) /\ buf = SubSeq(buf, 1, Len(buf))
      BY <3>1, WholeIsPrefix
    <3>4. stage \in {"idle", "open", "write", "notify"}
      BY DEF TypeOK
    <3>. QED  BY <2>1, <3>2, <3>3, <3>4 DEF TornIsPrefix, InUpdate
  <2>. QED  BY <2>2, <2>3, <2>4
<1>13. CASE Restart
  <2>1. up' = TRUE /\ UNCHANGED <<disk, stage, request, buf, reply, before, notified>>
    BY <1>13 DEF Restart
  <2>. QED  BY <2>1 DEF TypeOK, InUpdate, UpdateIsMeant, TornIsPrefix, Done, Meant, Splice
<1>14. CASE UNCHANGED vars
  BY <1>14 DEF vars, TypeOK, InUpdate, UpdateIsMeant, TornIsPrefix, Done, Meant, Splice
<1>. QED
  BY <1>1, <1>3, <1>4, <1>5, <1>6, <1>7, <1>8, <1>9, <1>10, <1>11, <1>12, <1>13, <1>14
  DEF Next

LEMMA FileInvHolds == Spec => []FileInv
BY FileInvInit, FileInvStep, PTL DEF Spec

\* Every variable keeps its type, contents their bytes and their bound.
THEOREM TypeInvariant == Spec => []TypeOK
BY FileInvHolds, PTL DEF FileInv

\* A WRITE, REPLACE or DELETE answered with success has put into the file what
\* the operation means: every other byte is where it was, whatever the file,
\* the content and the offset.
THEOREM UpdateIsMeantHolds == Spec => []UpdateIsMeant
BY FileInvHolds, PTL DEF FileInv

\* Whenever an update ends, or is cut off, the file holds the old content or a
\* part, from its start, of the new one.
THEOREM TornIsPrefixHolds == Spec => []TornIsPrefix
BY FileInvHolds, PTL DEF FileInv

-----------------------------------------------------------------------------
\* Until the handler of an update is through, no one has been sent anything.
Untold == stage # "idle" => notified = {}

NotificationInv == Untold /\ NotifiedIsOnDisk

LEMMA NotificationInvStep ==
  ASSUME FileInv, NotificationInv, [Next]_vars
  PROVE  NotificationInv'
<1>. DEFINE Updates == {"WRITE", "REPLACE", "DELETE"}
<1>1. ASSUME NEW r \in Requests, NoSuchFile(r) \/ Refuse(r) \/ Panic(r) \/ Read(r)
      PROVE  NotificationInv'
  <2>1. /\ stage' = "idle" /\ notified' = {} /\ request' = r
        /\ reply' = "ok" => r.op = "READ"
    BY <1>1 DEF NoSuchFile, Refuse, Panic, Read, Serve, Handle, Respond
  <2>2. \A op \in Updates : ~Done(op)'
    BY <2>1 DEF Done
  <2>. QED  BY <2>1, <2>2 DEF NotificationInv, Untold, NotifiedIsOnDisk
<1>2. ASSUME NEW r \in Requests, Prepare(r)
      PROVE  NotificationInv'
  BY <1>2 DEF NotificationInv, Untold, NotifiedIsOnDisk, Prepare, Serve, Handle
<1>3. CASE OpenFile \/ WriteFile
  BY <1>3 DEF NotificationInv, Untold, NotifiedIsOnDisk, OpenFile, WriteFile
<1>4. CASE OpenFails \/ WriteFails
  <2>1. stage' = "idle" /\ reply' = "failed" /\ notified' = {}
    BY <1>4 DEF NotificationInv, Untold, OpenFails, WriteFails, Respond
  <2>2. \A op \in Updates : ~Done(op)'
    BY <2>1 DEF Done
  <2>. QED  BY <2>1, <2>2 DEF NotificationInv, Untold, NotifiedIsOnDisk
<1>5. CASE HandleNotification
  <2>1. /\ stage' = "idle" /\ reply' = "ok" /\ notified' = {buf}
        /\ request' = request /\ disk' = disk
        /\ disk[request.path] = buf /\ request.op \in Updates
    BY <1>5 DEF FileInv, InUpdate, HandleNotification, Respond, Update
  <2>2. \E op \in Updates : Done(op)'
    BY <2>1 DEF Done
  <2>. QED  BY <2>1, <2>2 DEF NotificationInv, Untold, NotifiedIsOnDisk
<1>6. CASE Crash
  <2>1. /\ stage' = "idle" /\ UNCHANGED <<disk, request, reply, notified>>
    BY <1>6 DEF Crash
  <2>2. \A op \in Updates : Done(op)' <=> Done(op)
    BY <2>1 DEF Done
  <2>3. CASE stage = "idle"
    BY <2>1, <2>2, <2>3 DEF NotificationInv, Untold, NotifiedIsOnDisk
  <2>4. CASE stage # "idle"
    <3>1. notified = {} /\ \A op \in Updates : ~Done(op)
      BY <2>4 DEF NotificationInv, Untold, FileInv, InUpdate, Done
    <3>. QED  BY <2>1, <2>2, <3>1 DEF NotificationInv, Untold, NotifiedIsOnDisk
  <2>. QED  BY <2>3, <2>4
<1>7. CASE Restart \/ UNCHANGED vars
  <2>1. UNCHANGED <<disk, stage, request, reply, notified>>
    BY <1>7 DEF Restart, vars
  <2>2. \A op \in Updates : Done(op)' <=> Done(op)
    BY <2>1 DEF Done
  <2>. QED  BY <2>1, <2>2 DEF NotificationInv, Untold, NotifiedIsOnDisk
<1>. QED  BY <1>1, <1>2, <1>3, <1>4, <1>5, <1>6, <1>7 DEF Next

\* Subscribers are sent what a successful update left on disk, and nothing else,
\* through failing writes and crashes.
THEOREM NotifiedIsOnDiskHolds == Spec => []NotifiedIsOnDisk
<1>1. Init => NotificationInv
  BY DEF Init, NotificationInv, Untold, NotifiedIsOnDisk, Done
<1>2. FileInv /\ NotificationInv /\ [Next]_vars => NotificationInv'
  BY NotificationInvStep
<1>3. NotificationInv => NotifiedIsOnDisk
  BY DEF NotificationInv
<1>. QED  BY <1>1, <1>2, <1>3, FileInvHolds, PTL DEF Spec

\* No request of the shipped client makes a service panic, but a REPLACE that
\* runs over the end of the file.
THEOREM OnlyOverrunPanicsHolds == Spec => OnlyOverrunPanics
<1>1. ASSUME TypeOK, TypeOK', request' # NoRequest, Panic(request')
      PROVE  /\ request'.op = "REPLACE"
             /\ request'.offset + Len(request'.content) > Len(disk[request'.path])
  <2>. DEFINE r == request'
              f == disk[r.path]
  <2>1. r \in Requests /\ r.path \in Files /\ Panics(r, f)
    BY <1>1 DEF Panic, Serve, TypeOK
  <2>2. f \in Contents
    BY <1>1, <2>1 DEF TypeOK
  <2>3. Len(f) \in Nat
    BY <2>2, FileServerAssumption, UpToIsSeq, LenProperties DEF Contents
  <2>. HIDE DEF r, f
  <2>4. r.offset \in Nat /\ r.offset <= Len(f)
    <3>1. r.offset \in Nat
      BY <2>1, FileServerAssumption DEF Requests
    <3>. QED  BY <2>1, <2>3, <3>1 DEF Panics, Fails
  <2>5. /\ r.op \in {"READ", "DELETE"} =>
             r.numBytes \in Nat /\ End(r) = r.offset + r.numBytes
        /\ r.op \in {"WRITE", "REPLACE"} =>
             r.content \in Seq(Bytes) /\ End(r) = r.offset + Len(r.content)
    BY <2>1, <2>2, <2>4, EndIsSum
  <2>6. r.op \notin {"READ", "DELETE"}
    BY <2>1, <2>3, <2>4, <2>5 DEF Panics, Fails
  <2>7. r.op = "REPLACE"
    BY <2>1, <2>6 DEF Panics, Requests
  <2>8. Len(r.content) \in Nat
    BY <2>5, <2>7, LenProperties
  <2>9. r.offset + Len(r.content) > Len(f)
    BY <2>1, <2>3, <2>4, <2>5, <2>7, <2>8 DEF Panics
  <2>. QED  BY <2>7, <2>9 DEF r, f
<1>. QED  BY <1>1, TypeInvariant, PTL DEF Spec, OnlyOverrunPanics

-----------------------------------------------------------------------------
\* A request that is answered with success, or on its way to it, has passed the
\* checks.
Passed ==
  stage # "idle" \/ reply = "ok" =>
    /\ request \in Requests /\ request.path \in Files
    /\ ~Fails(request, before) /\ ~Panics(request, before)

LEMMA PassedStep ==
  ASSUME TypeOK, Passed, [Next]_vars
  PROVE  Passed'
<1>1. ASSUME NEW r \in Requests, NoSuchFile(r) \/ Refuse(r) \/ Panic(r)
      PROVE  Passed'
  BY <1>1 DEF Passed, NoSuchFile, Refuse, Panic, Respond
<1>2. ASSUME NEW r \in Requests, Read(r) \/ Prepare(r)
      PROVE  Passed'
  <2>1. /\ request' = r /\ r.path \in Files /\ before' = disk[r.path]
        /\ ~Fails(r, disk[r.path]) /\ ~Panics(r, disk[r.path])
    BY <1>2 DEF Read, Prepare, Serve, Handle
  <2>. QED  BY <2>1 DEF Passed
<1>3. ASSUME request' = request, before' = before,
             stage' # "idle" \/ reply' = "ok" => stage # "idle" \/ reply = "ok"
      PROVE  Passed'
  BY <1>3 DEF Passed
<1>4. CASE OpenFile \/ OpenFails \/ WriteFile \/ WriteFails \/ HandleNotification
  BY <1>3, <1>4
  DEF OpenFile, OpenFails, WriteFile, WriteFails, HandleNotification, Respond
<1>5. CASE Crash \/ Restart \/ UNCHANGED vars
  BY <1>3, <1>5 DEF Crash, Restart, vars
<1>. QED  BY <1>1, <1>2, <1>4, <1>5 DEF Next

LEMMA PassedHolds == Spec => []Passed
<1>1. Init => Passed
  BY DEF Init, Passed
<1>. QED  BY <1>1, PassedStep, TypeInvariant, PTL DEF Spec

\* What is known of a request that was answered with success.
LEMMA WhenDone ==
  ASSUME FileInv, Passed, reply = "ok"
  PROVE  /\ request \in Requests /\ request.path \in Files
         /\ before \in Contents /\ disk[request.path] \in Contents
         /\ before \in Seq(Bytes) /\ Len(before) \in Nat /\ Len(before) <= MaxLen
         /\ Len(disk[request.path]) <= MaxLen
         /\ request.offset \in Nat /\ request.offset <= Len(before)
<1>1. /\ request \in Requests /\ request.path \in Files
      /\ ~Fails(request, before)
  BY DEF Passed
<1>2. before \in Contents /\ disk[request.path] \in Contents
  BY <1>1 DEF FileInv, TypeOK
<1>3. /\ before \in Seq(Bytes) /\ Len(before) \in Nat /\ Len(before) <= MaxLen
      /\ Len(disk[request.path]) <= MaxLen
  BY <1>2, FileServerAssumption, UpToIsSeq, LenProperties DEF Contents
<1>4. request.offset \in Nat
  BY <1>1, FileServerAssumption DEF Requests
<1>5. request.offset <= Len(before)
  BY <1>1, <1>3, <1>4 DEF Fails
<1>. QED  BY <1>1, <1>2, <1>3, <1>4, <1>5

\* A REPLACE that is executed again, as a retry may make it, passes its checks
\* and changes nothing more: at-least-once does no harm to it.
THEOREM ReplaceMayRepeatHolds == Spec => []ReplaceMayRepeat
<1>1. ASSUME FileInv, Passed, Done("REPLACE")
      PROVE  LET f == disk[request.path]
             IN  ~Fails(request, f) /\ ~Panics(request, f) /\ Updated(request, f) = f
  <2>. DEFINE r == request
              c == request.content
              o == request.offset
              g == disk[request.path]
  <2>1. /\ r \in Requests /\ r.op = "REPLACE" /\ g \in Contents
        /\ before \in Contents /\ before \in Seq(Bytes) /\ Len(before) \in Nat
        /\ o \in Nat /\ o <= Len(before)
    BY <1>1, WhenDone DEF Done
  <2>2. ~Fails(r, before) /\ ~Panics(r, before)
    BY <1>1 DEF Passed, Done
  <2>3. g = Splice(before, o, Len(c), c)
    BY <1>1, <2>1 DEF FileInv, UpdateIsMeant, Meant
  <2>. HIDE DEF g
  <2>4. c \in Seq(Bytes) /\ Len(c) \in Nat /\ End(r) = o + Len(c)
    BY <2>1, EndIsSum, LenProperties
  <2>5. o + Len(c) <= Len(before)
    BY <2>1, <2>2, <2>4 DEF Panics
  <2>6. g \in Seq(Bytes) /\ Len(g) = Len(before) /\ Splice(g, o, Len(c), c) = g
    BY <2>1, <2>3, <2>4, <2>5, SpliceTwice
  <2>7. ~Fails(r, g) /\ ~Panics(r, g)
    BY <2>1, <2>4, <2>5, <2>6 DEF Fails, Panics
  <2>8. Updated(r, g) = Meant(r, g)
    BY <2>1, <2>7, UpdatedIsMeant
  <2>9. Updated(r, g) = g
    BY <2>1, <2>6, <2>8 DEF Meant
  <2>. QED  BY <2>7, <2>9 DEF g
<1>2. FileInv /\ Passed => ReplaceMayRepeat
  BY <1>1 DEF ReplaceMayRepeat
<1>. QED  BY <1>2, FileInvHolds, PassedHolds, PTL

\* A WRITE is undone by the DELETE of as many bytes at its offset: no byte of the
\* file was lost or moved for good.
THEOREM DeleteUndoesWriteHolds == Spec => []DeleteUndoesWrite
<1>1. ASSUME FileInv, Passed, Done("WRITE"), NEW undo,
             undo = [op |-> "DELETE", path |-> request.path,
                     offset |-> request.offset, numBytes |-> Len(request.content)]
      PROVE  LET f == disk[request.path]
             IN  ~Fails(undo, f) /\ ~Panics(undo, f) /\ Updated(undo, f) = before
  <2>. DEFINE r == request
              c == request.content
              o == request.offset
              g == disk[request.path]
  <2>1. /\ r \in Requests /\ r.op = "WRITE" /\ Len(g) <= MaxLen
        /\ before \in Contents /\ before \in Seq(Bytes) /\ Len(before) \in Nat
        /\ o \in Nat /\ o <= Len(before)
    BY <1>1, WhenDone DEF Done
  <2>2. g = Splice(before, o, 0, c)
    BY <1>1, <2>1 DEF FileInv, UpdateIsMeant, Meant
  <2>. HIDE DEF g
  <2>3. c \in Seq(Bytes) /\ Len(c) \in Nat
    BY <2>1, EndIsSum, LenProperties
  <2>4. /\ g \in Seq(Bytes) /\ Len(g) = Len(before) + Len(c)
        /\ Splice(g, o, Len(c), <<>>) = before
    <3>. HIDE DEF c, o
    <3>1. c \in Seq(Bytes) /\ o \in Nat /\ o <= Len(before) /\ g = Splice(before, o, 0, c)
      BY <2>1, <2>2, <2>3
    <3>2. before \in Seq(Bytes)
      BY <2>1
    <3>. QED  BY <3>1, <3>2, SpliceBack, SMTT(30)
  <2>5. undo.op = "DELETE" /\ undo.offset = o /\ undo.numBytes = Len(c)
    BY <1>1
  <2>6. End(undo) = o + Len(c)
    <3>1. End(undo) = (o + Len(c)) % WordSize
      BY <2>5 DEF End
    <3>2. o + Len(c) \in Nat /\ o + Len(c) < WordSize
      BY <2>1, <2>3, <2>4, FileServerAssumption, WordAssumption
    <3>. QED  BY <3>1, <3>2, ModSmall, WordAssumption
  <2>7. ~Fails(undo, g) /\ ~Panics(undo, g)
    BY <2>1, <2>3, <2>4, <2>5, <2>6 DEF Fails, Panics
  <2>8. Deleted(g, o, Len(c)) = Splice(g, o, Len(c), <<>>)
    BY <2>1, <2>3, <2>4, DeleteIsMeant
  <2>9. Updated(undo, g) = before
    BY <2>4, <2>5, <2>8 DEF Updated
  <2>. QED  BY <2>7, <2>9 DEF g
<1>2. FileInv /\ Passed => DeleteUndoesWrite
  BY <1>1, Zenon DEF DeleteUndoesWrite
<1>. QED  BY <1>2, FileInvHolds, PassedHolds, PTL

-----------------------------------------------------------------------------
(***************************************************************************)
(* FileServer implements FileStore.                                        *)
(***************************************************************************)

\* What a request of the abstract store would find in each file.
Seen == [p \in Files |-> Found(p)]

\* An update that ends is one of the three of the store.
LEMMA UpdateEnds ==
  ASSUME FileInv, Passed, stage # "idle", Store!Ends(request.path, buf)
  PROVE  Store!Next
<1>. DEFINE p == request.path
<1>1. /\ request \in Requests /\ p \in Files
      /\ ~Fails(request, before) /\ ~Panics(request, before)
      /\ request.op \in {"WRITE", "REPLACE", "DELETE"}
      /\ buf = Meant(request, before)
      /\ before \in Contents
  BY DEF Passed, FileInv, InUpdate, TypeOK
<1>2. Seen[p] = before
  BY <1>1 DEF Seen, Found
<1>3. before \in Seq(Bytes) /\ Len(before) \in Nat
  BY <1>1, FileServerAssumption, UpToIsSeq, LenProperties DEF Contents
<1>4. request.offset \in Inputs /\ request.offset \in Nat
  BY <1>1, FileServerAssumption DEF Requests
<1>5. request.offset <= Len(before)
  BY <1>1, <1>3, <1>4 DEF Fails
<1>6. /\ request.op = "DELETE" => request.numBytes \in Nat
                                  /\ End(request) = request.offset + request.numBytes
      /\ request.op = "REPLACE" => request.content \in Seq(Bytes)
                                   /\ End(request) = request.offset + Len(request.content)
  BY <1>1, <1>4, <1>5, EndIsSum
<1>7. CASE request.op = "WRITE"
  <2>1. request.content \in Payloads
    BY <1>1, <1>7 DEF Requests
  <2>2. buf = Store!Splice(Seen[p], request.offset, 0, request.content)
    BY <1>1, <1>2, <1>7 DEF Meant, Splice, Store!Splice
  <2>3. Store!Insert(p)
    BY <1>2, <1>4, <1>5, <2>1, <2>2 DEF Store!Insert, Seen
  <2>. QED  BY <1>1, <2>3 DEF Store!Next
<1>8. CASE request.op = "REPLACE"
  <2>1. request.content \in Payloads
    BY <1>1, <1>8 DEF Requests
  <2>2. request.offset + Len(request.content) <= Len(before)
    <3>1. Len(request.content) \in Nat
      BY <1>6, <1>8, LenProperties
    <3>. QED  BY <1>1, <1>3, <1>4, <1>6, <1>8, <3>1 DEF Panics
  <2>3. buf = Store!Splice(Seen[p], request.offset, Len(request.content),
                           request.content)
    BY <1>1, <1>2, <1>8 DEF Meant, Splice, Store!Splice
  <2>4. Store!Replace(p)
    BY <1>2, <1>4, <2>1, <2>2, <2>3 DEF Store!Replace, Seen
  <2>. QED  BY <1>1, <2>4 DEF Store!Next
<1>9. CASE request.op = "DELETE"
  <2>1. request.numBytes \in Inputs
    BY <1>1, <1>9 DEF Requests
  <2>2. request.offset + request.numBytes <= Len(before)
    BY <1>1, <1>3, <1>4, <1>6, <1>9 DEF Fails
  <2>3. buf = Store!Splice(Seen[p], request.offset, request.numBytes, <<>>)
    BY <1>1, <1>2, <1>9 DEF Meant, Splice, Store!Splice
  <2>4. Store!Delete(p)
    BY <1>2, <1>4, <2>1, <2>2, <2>3 DEF Store!Delete, Seen
  <2>. QED  BY <1>1, <2>4 DEF Store!Next
<1>. QED  BY <1>1, <1>7, <1>8, <1>9

\* When the handler of an update ends or is cut off, its file is as disk says,
\* and for every other file nothing has changed.
LEMMA SeenAtEnd ==
  ASSUME TypeOK, request.path \in Files, stage # "idle", stage' = "idle", NEW g,
         disk' = [disk EXCEPT ![request.path] = g]
  PROVE  Seen' = [Seen EXCEPT ![request.path] = g]
<1>1. Seen' = [q \in Files |-> disk'[q]]
  BY DEF Seen, Found
<1>2. ASSUME NEW q \in Files
      PROVE  disk'[q] = IF q = request.path THEN g ELSE Seen[q]
  BY DEF Seen, Found, TypeOK
<1>. QED  BY <1>1, <1>2 DEF Seen

\* An update that breaks off with a prefix of its content on disk.
LEMMA UpdateBreaks ==
  ASSUME FileInv, Passed, Untold, stage # "idle", stage' = "idle",
         WriteMayFail \/ MayCrash, notified' = notified,
         NEW k \in 0..Len(buf),
         disk' = [disk EXCEPT ![request.path] = SubSeq(buf, 1, k)]
  PROVE  Store!Next
<1>1. request.path \in Files /\ TypeOK /\ notified = {}
  BY DEF Passed, FileInv, Untold
<1>2. Seen' = [Seen EXCEPT ![request.path] = SubSeq(buf, 1, k)]
  BY <1>1, SeenAtEnd
<1>3. Store!Ends(request.path, buf)
  BY <1>1, <1>2 DEF Store!Ends, Seen
<1>. QED  BY <1>3, UpdateEnds

LEMMA StoreStep ==
  ASSUME FileInv, Passed, Untold, [Next]_vars
  PROVE  [Store!Next]_(Store!vars)
<1>1. TypeOK /\ InUpdate
  BY DEF FileInv
<1>2. ASSUME Seen' = Seen, notified' = notified
      PROVE  UNCHANGED Store!vars
  BY <1>2 DEF Store!vars, Seen
<1>3. ASSUME stage = "idle", Seen' = Seen, notified' = {}
      PROVE  Store!Next
  BY <1>3 DEF Store!Next, Store!Attend, Seen
<1>4. ASSUME NEW r \in Requests, NoSuchFile(r) \/ Refuse(r) \/ Panic(r) \/ Read(r)
      PROVE  Store!Next
  <2>1. stage = "idle" /\ stage' = "idle" /\ disk' = disk /\ notified' = {}
    BY <1>4 DEF NoSuchFile, Refuse, Panic, Read, Serve, Handle, Listening, Respond
  <2>2. Seen' = Seen
    BY <2>1 DEF Seen, Found
  <2>. QED  BY <1>3, <2>1, <2>2
<1>5. ASSUME NEW r \in Requests, Prepare(r)
      PROVE  Store!Next
  <2>1. /\ stage = "idle" /\ disk' = disk /\ notified' = {}
        /\ request' = r /\ before' = disk[r.path]
    BY <1>5 DEF Prepare, Serve, Handle, Listening
  <2>2. Seen' = Seen
    BY <2>1 DEF Seen, Found
  <2>. QED  BY <1>3, <2>1, <2>2
<1>6. CASE OpenFile \/ WriteFile
  <2>1. /\ stage # "idle" /\ stage' # "idle" /\ notified' = notified
        /\ request' = request /\ before' = before
        /\ \A q \in Files : q # request.path => disk'[q] = disk[q]
    BY <1>1, <1>6 DEF OpenFile, WriteFile, TypeOK
  <2>2. Seen' = Seen
    BY <2>1 DEF Seen, Found
  <2>. QED  BY <1>2, <2>1, <2>2
<1>7. ASSUME stage = "open", stage' = "idle", disk' = disk, notified' = notified
      PROVE  UNCHANGED Store!vars
  <2>1. disk[request.path] = before
    BY <1>1, <1>7 DEF InUpdate
  <2>2. Seen' = Seen
    BY <1>7, <2>1 DEF Seen, Found
  <2>. QED  BY <1>2, <1>7, <2>2
<1>8. CASE OpenFails
  BY <1>7, <1>8 DEF OpenFails, Respond
<1>9. CASE WriteFails
  <2>1. /\ WriteMayFail /\ stage = "write" /\ stage' = "idle"
        /\ notified' = notified
    BY <1>9 DEF WriteFails, Respond
  <2>2. PICK k \in 0..Len(buf) :
          disk' = [disk EXCEPT ![request.path] = Written(request.path, k)]
    BY <1>9 DEF WriteFails
  <2>3. Written(request.path, k) = SubSeq(buf, 1, k)
    <3>1. buf \in Contents /\ disk[request.path] = <<>>
      BY <1>1, <2>1 DEF TypeOK, InUpdate
    <3>2. /\ Len(Written(request.path, k)) = k
          /\ Written(request.path, k) =
               SubSeq(buf, 1, Len(Written(request.path, k)))
      BY <3>1, WrittenIsPrefix
    <3>. QED  BY <3>2
  <2>. QED  BY <2>1, <2>2, <2>3, UpdateBreaks
<1>10. CASE HandleNotification
  <2>1. /\ stage = "notify" /\ stage' = "idle" /\ notified' = {buf}
        /\ disk' = disk
    BY <1>10 DEF HandleNotification, Respond, Update
  <2>2. request.path \in Files /\ disk[request.path] = buf
    BY <1>1, <2>1 DEF Passed, InUpdate
  <2>3. disk' = [disk EXCEPT ![request.path] = buf]
    BY <1>1, <2>1, <2>2 DEF TypeOK
  <2>4. Seen' = [Seen EXCEPT ![request.path] = buf]
    BY <1>1, <2>1, <2>2, <2>3, SeenAtEnd
  <2>5. Store!Ends(request.path, buf)
    BY <2>1, <2>4 DEF Store!Ends, Seen
  <2>. QED  BY <2>1, <2>5, UpdateEnds
<1>11. CASE Crash
  <2>1. /\ MayCrash /\ stage' = "idle" /\ disk' = disk /\ notified' = notified
    BY <1>11 DEF Crash
  <2>2. CASE stage = "idle"
    <3>1. Seen' = Seen
      BY <2>1, <2>2 DEF Seen, Found
    <3>. QED  BY <1>2, <2>1, <3>1
  <2>3. CASE stage = "open"
    BY <1>7, <2>1, <2>3
  <2>4. CASE stage \in {"write", "notify"}
    <3>1. buf \in Contents /\ request.path \in Files
      BY <1>1, <2>4 DEF TypeOK, Passed
    <3>2. Len(buf) \in Nat /\ SubSeq(buf, 1, Len(buf)) = buf
      BY <3>1, WholeIsPrefix
    <3>3. SubSeq(buf, 1, 0) = <<>>
      OBVIOUS
    <3>4. PICK k \in 0..Len(buf) : disk[request.path] = SubSeq(buf, 1, k)
      <4>1. 0 \in 0..Len(buf) /\ Len(buf) \in 0..Len(buf)
        BY <3>2
      <4>2. disk[request.path] = <<>> \/ disk[request.path] = buf
        BY <1>1, <2>4 DEF InUpdate
      <4>. QED  BY <3>2, <3>3, <4>1, <4>2
    <3>5. disk' = [disk EXCEPT ![request.path] = SubSeq(buf, 1, k)]
      BY <1>1, <2>1, <3>1, <3>4 DEF TypeOK
    <3>. QED  BY <2>1, <2>4, <3>5, UpdateBreaks
  <2>. QED  BY <1>1, <2>2, <2>3, <2>4 DEF TypeOK
<1>12. CASE Restart \/ UNCHANGED vars
  <2>1. UNCHANGED <<disk, stage, request, before, notified>>
    BY <1>12 DEF Restart, vars
  <2>2. Seen' = Seen
    BY <2>1 DEF Seen, Found
  <2>. QED  BY <1>2, <2>1, <2>2
<1>. QED
  BY <1>4, <1>5, <1>6, <1>8, <1>9, <1>10, <1>11, <1>12 DEF Next

\* The services, on a disk that truncates before it writes, in a process that can
\* be killed anywhere, are the store of FileStore: updates that are whole and
\* announced, or cut short and announced to no one, one file at a time.
THEOREM Refinement == Spec => ImplementsFileStore
<1>1. Init => Store!Init
  <2>. SUFFICES ASSUME Init
                PROVE  Store!Init
    OBVIOUS
  <2>1. \A p \in Files : Found(p) = <<>>
    BY DEF Init, Found
  <2>. QED  BY <2>1 DEF Init, Store!Init
<1>2. Init => NotificationInv
  BY DEF Init, NotificationInv, Untold, NotifiedIsOnDisk, Done
<1>3. FileInv /\ NotificationInv /\ [Next]_vars => NotificationInv'
  BY NotificationInvStep
<1>4. FileInv /\ Passed /\ NotificationInv /\ [Next]_vars
        => [Store!Next]_(Store!vars)
  BY StoreStep DEF NotificationInv
<1>. QED
  BY <1>1, <1>2, <1>3, <1>4, FileInvHolds, PassedHolds, PTL
  DEF Spec, ImplementsFileStore, Store!Spec

=============================================================================
