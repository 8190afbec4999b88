---------------------------- MODULE CacheProofs ----------------------------
(***************************************************************************)
(* Proofs about Cache, for every freshness interval, file, clock and       *)
(* number of updates.                                                      *)
(***************************************************************************)
EXTENDS Cache, TLAPS

LEMMA SecondsOfTime ==
  ASSUME NEW t \in Times
  PROVE  t \div Second \in Times
<1>1. t \in Nat /\ t <= MaxTime /\ MaxTime \in Nat /\ Second \in Nat \ {0}
  BY CacheAssumption DEF Times
<1>2. t \div Second \in Nat /\ t \div Second <= t
  BY <1>1
<1>. QED  BY <1>1, <1>2 DEF Times

(***************************************************************************)
(* Types, and where a slice starts.                                        *)
(***************************************************************************)

\* An entry's index is that of its content; a response is to the request.
Aligned ==
  /\ cache # None => cache.startIdx = cache.content.from
  /\ stage = "content" /\ answer \in Slices =>
       answer.from = request.offset /\ answer.count = request.numBytes

TypeInv == TypeOK /\ Aligned /\ PrefixIsRead

LEMMA CacheReadType ==
  ASSUME TypeInv, NEW r \in Reads, fileInCache(r), r.offset <= cache.content.count
  PROVE  /\ cacheRead(r) \in Slices
         /\ cacheRead(r).version = cache.content.version
         /\ cache.startIdx = 0 =>
              cacheRead(r).from = r.offset /\ cacheRead(r).count = r.numBytes
<1>. DEFINE o == r.offset
            n == r.numBytes
            c == cache.content
<1>1. /\ o \in 0..MaxSize /\ n \in 0..MaxSize /\ MaxSize \in Nat
  BY CacheAssumption DEF Reads
<1>2. /\ cache \in Entries /\ c.version \in Versions
      /\ c.from \in 0..MaxSize /\ c.count \in 0..MaxSize
      /\ c.from + c.count <= MaxSize
      /\ cache.startIdx = c.from
      /\ c.from <= o /\ o + n <= c.from + c.count /\ o <= c.count
  BY DEF TypeInv, TypeOK, Aligned, fileInCache, Entries, Slices
<1>3. Least(n, c.count - o) \in 0..MaxSize /\ Least(n, c.count - o) <= c.count - o
  BY <1>1, <1>2 DEF Least
<1>4. c.from + o \in 0..MaxSize /\ c.from + o + Least(n, c.count - o) <= MaxSize
  BY <1>1, <1>2, <1>3
<1>5. c.from = 0 => c.from + o = o /\ Least(n, c.count - o) = n
  BY <1>1, <1>2 DEF Least
<1>6. cacheRead(r) =
        [version |-> c.version, from |-> c.from + o, count |-> Least(n, c.count - o)]
  BY DEF cacheRead
<1>. HIDE DEF o, n, c
<1>7. cacheRead(r) \in Slices
  BY <1>2, <1>3, <1>4, <1>6 DEF Slices
<1>. QED  BY <1>2, <1>5, <1>6, <1>7 DEF o, n, c

LEMMA CacheWriteType ==
  ASSUME TypeInv, NEW c \in Slices, NEW tm \in Times, NEW start \in 0..MaxSize
  PROVE  /\ cacheWrite(c, tm, start) \in Entries
         /\ cacheWrite(c, tm, start).startIdx = start
         /\ cacheWrite(c, tm, start).content = c
BY DEF cacheWrite, Entries, TypeInv, TypeOK

\* What the two ways of ending a read from the cache leave.
LEMMA ShowCachedType ==
  ASSUME TypeInv, NEW r \in Reads, fileInCache(r), ShowCached(r) \/ Throw(r)
  PROVE  /\ stage' \in {"idle", "ended"} /\ request' = None /\ answer' = None
         /\ tmserver' = 0
         /\ shown' = None \/ shown' \in Shown
         /\ cache.startIdx = 0 =>
              stage' = "idle" /\ shown'.content.from = r.offset
                              /\ shown'.content.count = r.numBytes
                              /\ shown'.read = r
<1>1. CASE ShowCached(r)
  <2>1. /\ cacheRead(r) \in Slices
        /\ cache.startIdx = 0 =>
             cacheRead(r).from = r.offset /\ cacheRead(r).count = r.numBytes
    BY <1>1, CacheReadType DEF ShowCached
  <2>2. shown' = [how |-> "cache", read |-> r, content |-> cacheRead(r), at |-> now]
    BY <1>1 DEF ShowCached
  <2>3. shown' \in Shown
    BY <2>1, <2>2 DEF Shown, TypeInv, TypeOK
  <2>. QED  BY <1>1, <2>1, <2>2, <2>3 DEF ShowCached, LeaveCase
<1>2. CASE Throw(r)
  <2>1. cache.startIdx # 0
    <3>1. /\ r.offset \in Nat /\ r.numBytes \in Nat /\ cache.content.count \in Nat
          /\ cache.startIdx \in Nat
      BY DEF TypeInv, TypeOK, Entries, Slices, Reads, fileInCache
    <3>2. r.offset > cache.content.count
      BY <1>2 DEF Throw
    <3>3. r.offset + r.numBytes <= cache.startIdx + cache.content.count
      BY DEF fileInCache
    <3>. QED  BY <3>1, <3>2, <3>3
  <2>. QED  BY <1>2, <2>1 DEF Throw, LeaveCase, TypeInv, TypeOK
<1>. QED  BY <1>1, <1>2

LEMMA TypeInvInit == Init => TypeInv
<1>. SUFFICES ASSUME Init PROVE TypeInv
  OBVIOUS
<1>1. 0 \in Times /\ 0 \in Versions
  BY CacheAssumption DEF Times, Versions
<1>. QED  BY <1>1 DEF Init, TypeInv, TypeOK, Aligned, PrefixIsRead, FromCache

LEMMA TypeInvStep == TypeInv /\ [Next]_vars => TypeInv'
<1>. SUFFICES ASSUME TypeInv, [Next]_vars
              PROVE  TypeInv'
  OBVIOUS
<1>0. MaxSize \in Nat /\ MaxTime \in Nat /\ MaxVersion \in Nat /\ 0 \in Times
  BY CacheAssumption DEF Times
<1>1. ASSUME NEW r \in Reads, ReadCached(r)
      PROVE  TypeInv'
  <2>1. /\ fileInCache(r)
        /\ ShowCached(r) \/ Throw(r)
        /\ UNCHANGED <<now, file, cache, asked, valid>>
    BY <1>1 DEF ReadCached
  <2>2. cache # None
    BY <2>1 DEF fileInCache
  <2>3. TypeOK'
    BY <1>0, <2>1, ShowCachedType DEF TypeInv, TypeOK
  <2>4. Aligned'
    BY <2>1, ShowCachedType DEF TypeInv, Aligned
  <2>5. PrefixIsRead'
    BY <2>1, ShowCachedType DEF PrefixIsRead, FromCache, AnswersRead
  <2>. QED  BY <2>3, <2>4, <2>5 DEF TypeInv
<1>2. ASSUME NEW r \in Reads, AskTime(r)
      PROVE  TypeInv'
  BY <1>2
  DEF AskTime, Ask, TypeInv, TypeOK, Aligned, PrefixIsRead, FromCache, AnswersRead
<1>3. CASE TimeFails
  BY <1>0, <1>3
  DEF TimeFails, LeaveCase, TypeInv, TypeOK, Aligned, PrefixIsRead, FromCache,
      AnswersRead
<1>4. CASE AskContent
  <2>1. None \notin Slices
    BY NoneAssumption
  <2>. QED
    BY <1>4, <2>1
    DEF AskContent, Ask, TypeInv, TypeOK, Aligned, PrefixIsRead, FromCache, AnswersRead
<1>5. CASE Revalidate
  <2>1. /\ fileInCache(request) /\ request \in Reads
        /\ ShowCached(request) \/ Throw(request)
        /\ cache' = [cache EXCEPT !.tc = now]
        /\ valid' = [since |-> asked, at |-> now]
        /\ UNCHANGED <<now, file, asked>>
    BY <1>5 DEF Revalidate, TypeInv, TypeOK
  <2>2. /\ cache \in Entries /\ cache' \in Entries
        /\ cache'.startIdx = cache.startIdx /\ cache'.content = cache.content
    BY <2>1 DEF TypeInv, TypeOK, Entries, fileInCache
  <2>3. cache # None
    BY <2>1 DEF fileInCache
  <2>4. valid' \in [since : Versions, at : Times]
    BY <2>1 DEF TypeInv, TypeOK
  <2>5. TypeOK'
    BY <1>0, <2>1, <2>2, <2>4, ShowCachedType DEF TypeInv, TypeOK
  <2>6. Aligned'
    BY <2>1, <2>2, <2>3, ShowCachedType DEF TypeInv, Aligned
  <2>7. PrefixIsRead'
    BY <2>1, <2>2, ShowCachedType DEF PrefixIsRead, FromCache, AnswersRead
  <2>. QED  BY <2>5, <2>6, <2>7 DEF TypeInv
<1>6. CASE TakeContent
  <2>1. /\ answer \in Slices /\ tmserver \in Times /\ request \in Reads
        /\ request.offset \in 0..MaxSize
        /\ answer.from = request.offset
        /\ cache' = cacheWrite(answer, tmserver, request.offset)
        /\ valid' = [since |-> asked, at |-> now]
        /\ stage' = "idle" /\ request' = None /\ answer' = None /\ tmserver' = 0
        /\ shown' = [how |-> "server", read |-> request, content |-> answer, at |-> now]
        /\ UNCHANGED <<now, file, asked>>
    BY <1>6 DEF TakeContent, LeaveCase, TypeInv, TypeOK, Aligned, Reads
  <2>2. /\ cache' \in Entries
        /\ cache'.startIdx = request.offset
        /\ cache'.content = answer
    BY <2>1, CacheWriteType
  <2>3. shown' \in Shown /\ shown'.how = "server"
    BY <2>1 DEF Shown, TypeInv, TypeOK
  <2>4. valid' \in [since : Versions, at : Times]
    BY <2>1 DEF TypeInv, TypeOK
  <2>5. TypeOK'
    BY <1>0, <2>1, <2>2, <2>3, <2>4 DEF TypeInv, TypeOK
  <2>. QED  BY <2>1, <2>2, <2>3, <2>5 DEF TypeInv, Aligned, PrefixIsRead, FromCache
<1>7. CASE ContentFails
  BY <1>0, <1>7
  DEF ContentFails, LeaveCase, TypeInv, TypeOK, Aligned, PrefixIsRead, FromCache,
      AnswersRead
<1>8. CASE StartClient
  BY <1>8 DEF StartClient, TypeInv, TypeOK, Aligned, PrefixIsRead
<1>9. CASE ServeTime
  BY <1>9
  DEF ServeTime, TypeInv, TypeOK, Aligned, PrefixIsRead, FromCache, AnswersRead
<1>10. CASE ServeContent
  <2>1. /\ stage = "content" /\ request \in Reads
        /\ UNCHANGED <<now, file, cache, stage, request, tmserver, shown, asked, valid>>
        /\ answer' = IF InFile(request)
                     THEN [version |-> file.version, from |-> request.offset,
                           count |-> request.numBytes]
                     ELSE Failed
    BY <1>10 DEF ServeContent, TypeInv, TypeOK
  <2>2. answer' = Failed \/ /\ answer' \in Slices
                            /\ answer'.from = request.offset
                            /\ answer'.count = request.numBytes
    BY <1>0, <2>1 DEF InFile, Slices, Reads, TypeInv, TypeOK
  <2>3. Failed \notin Slices
    BY NoneAssumption
  <2>4. TypeOK'
    BY <2>1, <2>2 DEF TypeInv, TypeOK
  <2>5. Aligned' /\ PrefixIsRead'
    BY <2>1, <2>2, <2>3 DEF TypeInv, Aligned, PrefixIsRead, FromCache, AnswersRead
  <2>. QED  BY <2>4, <2>5 DEF TypeInv
<1>11. ASSUME NEW size \in 0..MaxSize, Update(size)
       PROVE  TypeInv'
  <2>1. /\ file.version \in Versions /\ file.version < MaxVersion /\ now \in Times
        /\ file' = [version |-> file.version + 1, size |-> size,
                    mtime |-> now \div Second]
        /\ UNCHANGED <<now, cache, stage, request, answer, tmserver, shown, asked, valid>>
    BY <1>11 DEF Update, TypeInv, TypeOK
  <2>2. file.version + 1 \in Versions /\ now \div Second \in Times
    BY <1>0, <2>1, SecondsOfTime DEF Versions
  <2>. QED
    BY <2>1, <2>2 DEF TypeInv, TypeOK, Aligned, PrefixIsRead, FromCache, AnswersRead
<1>12. CASE Tick
  <2>1. now + 1 \in Times
    BY <1>0, <1>12 DEF Tick, TypeInv, TypeOK, Times
  <2>. QED
    BY <1>12, <2>1
    DEF Tick, TypeInv, TypeOK, Aligned, PrefixIsRead, FromCache, AnswersRead
<1>13. CASE UNCHANGED vars
  BY <1>13 DEF vars, TypeInv, TypeOK, Aligned, PrefixIsRead, FromCache, AnswersRead
<1>. QED
  BY <1>1, <1>2, <1>3, <1>4, <1>5, <1>6, <1>7, <1>8, <1>9, <1>10, <1>11, <1>12,
     <1>13 DEF Next

LEMMA TypeInvHolds == Spec => []TypeInv
BY TypeInvInit, TypeInvStep, PTL DEF Spec

\* Every variable keeps its type, and an entry its slice of the file.
THEOREM TypeInvariant == Spec => []TypeOK
BY TypeInvHolds, PTL DEF TypeInv

\* An entry from the file's first byte on answers with the bytes asked for.
THEOREM PrefixIsReadHolds == Spec => []PrefixIsRead
BY TypeInvHolds, PTL DEF TypeInv

(***************************************************************************)
(* Versions.  When no two versions have the same modification time, the    *)
(* time tells the version.                                                 *)
(***************************************************************************)

\* The entry's time may be older than its content, but then it is not that of
\* the file; and the content was there when its exchange began, or later.
EntryInv ==
  /\ valid.at <= now
  /\ cache # None =>
       /\ cache.content.version \in valid.since..file.version
       /\ cache.tmclient <= file.mtime
       /\ cache.tmclient = file.mtime => cache.content.version = file.version
       /\ cache.tc <= valid.at

\* A time on its way that is the entry's was that of the entry's version; a
\* content on its way is no older than the time fetched before.
ExchangeInv ==
  /\ stage \in {"time", "content"} =>
       /\ asked <= file.version
       /\ cache # None => cache.content.version <= asked
  /\ stage = "time" /\ answer # None =>
       /\ answer <= file.mtime
       /\ cache # None /\ answer = cache.tmclient => cache.content.version = asked
  /\ stage = "content" =>
       /\ tmserver <= file.mtime
       /\ answer \in Slices =>
            /\ answer.version \in asked..file.version
            /\ tmserver = file.mtime => answer.version = file.version

\* What was shown last is of the version that is cached.
ShownInv ==
  shown # None =>
    /\ cache # None /\ cache.content.version = shown.content.version
    /\ shown.at <= now
    /\ shown.at <= valid.at \/ shown.at < valid.at + fInterval

VersionInv == TypeInv /\ EntryInv /\ ExchangeInv /\ ShownInv

\* The versions and times the invariant compares are numbers.
LEMMA Numbers ==
  ASSUME TypeInv
  PROVE  /\ now \in Nat /\ file.version \in Nat /\ file.mtime \in Nat
         /\ asked \in Nat /\ tmserver \in Nat /\ fInterval \in Nat
         /\ valid.since \in Nat /\ valid.at \in Nat
         /\ cache # None => /\ cache.content.version \in Nat
                            /\ cache.tc \in Nat /\ cache.tmclient \in Nat
         /\ shown # None => shown.content.version \in Nat /\ shown.at \in Nat
         /\ stage = "time" /\ answer # None => answer \in Nat
         /\ stage = "content" /\ answer \in Slices => answer.version \in Nat
BY CacheAssumption
DEF TypeInv, TypeOK, Entries, Shown, Slices, Times, Versions

LEMMA VersionInvInit == Init => VersionInv
<1>1. Init => 0 <= 0 /\ EntryInv /\ ExchangeInv /\ ShownInv
  BY DEF Init, EntryInv, ExchangeInv, ShownInv
<1>. QED  BY <1>1, TypeInvInit DEF VersionInv

\* A read answered from the entry.
LEMMA ShowCachedVersion ==
  ASSUME TypeInv, NEW r \in Reads, fileInCache(r), ShowCached(r) \/ Throw(r)
  PROVE  \/ UNCHANGED shown
         \/ /\ shown' # None
            /\ shown'.content.version = cache.content.version
            /\ shown'.at = now
<1>1. CASE ShowCached(r)
  <2>1. shown' = [how |-> "cache", read |-> r, content |-> cacheRead(r), at |-> now]
    BY <1>1 DEF ShowCached
  <2>2. shown'.content.version = cache.content.version /\ shown'.at = now
    BY <2>1 DEF cacheRead
  <2>3. shown' # None
    <3>1. cacheRead(r) \in Slices
      BY <1>1, CacheReadType DEF ShowCached
    <3>2. shown' \in Shown
      BY <2>1, <3>1 DEF Shown, TypeInv, TypeOK
    <3>. QED  BY <3>2, NoneAssumption
  <2>. QED  BY <2>2, <2>3
<1>2. CASE Throw(r)
  BY <1>2 DEF Throw
<1>. QED  BY <1>1, <1>2

LEMMA VersionInvStep ==
  ASSUME DistinctTimes, VersionInv, [Next]_vars
  PROVE  VersionInv'
<1>1. TypeInv /\ TypeInv'
  BY TypeInvStep DEF VersionInv
<1>. DEFINE Rest == EntryInv /\ ExchangeInv /\ ShownInv
<1>. SUFFICES Rest'
  BY <1>1 DEF VersionInv
<1>2. EntryInv /\ ExchangeInv /\ ShownInv
  BY DEF VersionInv
<1>3. ASSUME NEW r \in Reads, ReadCached(r)
      PROVE  Rest'
  <2>1. /\ fileInCache(r) /\ ~cacheExpired(now)
        /\ ShowCached(r) \/ Throw(r)
        /\ stage' \in {"idle", "ended"}
        /\ UNCHANGED <<now, file, cache, asked, valid>>
    BY <1>3 DEF ReadCached, ShowCached, Throw, LeaveCase
  <2>2. cache # None /\ now < cache.tc + fInterval
    BY <2>1 DEF fileInCache, cacheExpired
  <2>3. now < valid.at + fInterval
    BY <1>1, <1>2, <2>2, Numbers DEF EntryInv
  <2>4. ShownInv'
    <3>1. CASE UNCHANGED shown
      BY <1>2, <2>1, <3>1 DEF ShownInv
    <3>2. CASE /\ shown' # None
               /\ shown'.content.version = cache.content.version
               /\ shown'.at = now
      BY <1>1, <2>1, <2>2, <2>3, <3>2, Numbers DEF ShownInv
    <3>. QED  BY <1>1, <2>1, <3>1, <3>2, ShowCachedVersion
  <2>. QED  BY <1>2, <2>1, <2>4 DEF EntryInv, ExchangeInv
<1>4. ASSUME NEW r \in Reads, AskTime(r)
      PROVE  Rest'
  <2>1. /\ stage' = "time" /\ answer' = None /\ asked' = file.version
        /\ UNCHANGED <<now, file, cache, shown, valid>>
    BY <1>4 DEF AskTime, Ask
  <2>2. ExchangeInv'
    BY <1>1, <1>2, <2>1, Numbers DEF EntryInv, ExchangeInv
  <2>. QED  BY <1>2, <2>1, <2>2 DEF EntryInv, ShownInv
<1>5. CASE TimeFails \/ ContentFails
  BY <1>2, <1>5
  DEF TimeFails, ContentFails, LeaveCase, EntryInv, ExchangeInv, ShownInv
<1>6. CASE AskContent
  <2>1. /\ stage = "time" /\ answer # None /\ tmserver' = answer
        /\ stage' = "content" /\ answer' = None /\ asked' = file.version
        /\ UNCHANGED <<now, file, cache, shown, valid>>
    BY <1>6 DEF AskContent, Ask
  <2>2. ExchangeInv'
    BY <1>1, <1>2, <2>1, Numbers, NoneAssumption DEF EntryInv, ExchangeInv
  <2>. QED  BY <1>2, <2>1, <2>2 DEF EntryInv, ShownInv
<1>7. CASE Revalidate
  <2>1. /\ stage = "time" /\ answer # None /\ request \in Reads
        /\ fileInCache(request) /\ answer = cache.tmclient
        /\ ShowCached(request) \/ Throw(request)
        /\ stage' \in {"idle", "ended"}
        /\ cache' = [cache EXCEPT !.tc = now]
        /\ valid' = [since |-> asked, at |-> now]
        /\ UNCHANGED <<now, file, asked>>
    BY <1>1, <1>7
    DEF Revalidate, fileChangedAtServer, ShowCached, Throw, LeaveCase, TypeInv, TypeOK
  <2>2. cache # None /\ cache \in Entries
    BY <1>1, <2>1 DEF fileInCache, TypeInv, TypeOK
  <2>3. /\ cache'.content = cache.content /\ cache'.tmclient = cache.tmclient
        /\ cache'.tc = now /\ cache' # None
        /\ valid'.since = asked /\ valid'.at = now
    <3>1. cache' \in Entries
      BY <1>1, <2>1, <2>2 DEF Entries, TypeInv, TypeOK
    <3>. QED  BY <2>1, <2>2, <3>1, NoneAssumption DEF Entries
  <2>4. cache.content.version = asked /\ asked <= file.version
    BY <1>2, <2>1, <2>2 DEF ExchangeInv
  <2>5. EntryInv'
    BY <1>1, <1>2, <2>1, <2>2, <2>3, <2>4, Numbers DEF EntryInv
  <2>6. ShownInv'
    <3>1. CASE UNCHANGED shown
      BY <1>1, <1>2, <2>1, <2>3, <3>1, Numbers DEF ShownInv
    <3>2. CASE /\ shown' # None
               /\ shown'.content.version = cache.content.version
               /\ shown'.at = now
      BY <1>1, <2>1, <2>3, <3>2, Numbers DEF ShownInv
    <3>. QED  BY <1>1, <2>1, <3>1, <3>2, ShowCachedVersion
  <2>. QED  BY <2>1, <2>5, <2>6 DEF ExchangeInv
<1>8. CASE TakeContent
  <2>1. /\ stage = "content" /\ answer \in Slices /\ tmserver \in Times
        /\ request.offset \in 0..MaxSize
        /\ cache' = cacheWrite(answer, tmserver, request.offset)
        /\ valid' = [since |-> asked, at |-> now]
        /\ stage' = "idle"
        /\ shown' = [how |-> "server", read |-> request, content |-> answer, at |-> now]
        /\ UNCHANGED <<now, file, asked>>
    BY <1>1, <1>8 DEF TakeContent, LeaveCase, TypeInv, TypeOK, Reads
  <2>2. /\ answer.version \in asked..file.version /\ tmserver <= file.mtime
        /\ tmserver = file.mtime => answer.version = file.version
        /\ cache # None => cache.content.version <= asked
    BY <1>2, <2>1 DEF ExchangeInv
  <2>3. cache' \in Entries /\ cache'.content = answer
    BY <1>1, <2>1, CacheWriteType
  <2>4. cache' # None /\ valid'.since = asked /\ valid'.at = now
    BY <2>1, <2>3, NoneAssumption
  <2>5. CASE cache = None
    <3>1. cache'.tc = now /\ cache'.tmclient = tmserver
      BY <2>1, <2>5 DEF cacheWrite
    <3>. QED
      BY <1>1, <2>1, <2>2, <2>3, <2>4, <3>1, Numbers DEF EntryInv, ExchangeInv, ShownInv
  <2>6. CASE cache # None
    <3>1. cache'.tc = cache.tc /\ cache'.tmclient = cache.tmclient
      BY <1>1, <2>1, <2>6 DEF cacheWrite, Entries, TypeInv, TypeOK
    <3>2. cache.tmclient = file.mtime => answer.version = file.version
      BY <1>1, <1>2, <2>1, <2>2, <2>6, Numbers DEF EntryInv
    <3>3. EntryInv'
      BY <1>1, <1>2, <2>1, <2>2, <2>3, <2>4, <2>6, <3>1, <3>2, Numbers DEF EntryInv
    <3>4. ExchangeInv' /\ ShownInv'
      BY <1>1, <2>1, <2>3, <2>4, Numbers DEF ExchangeInv, ShownInv
    <3>. QED  BY <3>3, <3>4
  <2>. QED  BY <2>5, <2>6
<1>9. CASE StartClient
  BY <1>2, <1>9 DEF StartClient, EntryInv, ExchangeInv, ShownInv
<1>10. CASE ServeTime
  <2>1. /\ stage = "time" /\ answer' = file.mtime
        /\ UNCHANGED <<now, file, cache, stage, request, tmserver, shown, asked, valid>>
    BY <1>10 DEF ServeTime
  <2>2. ExchangeInv'
    BY <1>1, <1>2, <2>1, Numbers DEF EntryInv, ExchangeInv
  <2>. QED  BY <1>2, <2>1, <2>2 DEF EntryInv, ShownInv
<1>11. CASE ServeContent
  <2>1. /\ stage = "content"
        /\ answer' \in Slices => answer'.version = file.version
        /\ UNCHANGED <<now, file, cache, stage, request, tmserver, shown, asked, valid>>
    BY <1>11, NoneAssumption DEF ServeContent
  <2>2. ExchangeInv'
    BY <1>1, <1>2, <2>1, Numbers DEF ExchangeInv
  <2>. QED  BY <1>2, <2>1, <2>2 DEF EntryInv, ShownInv
<1>12. ASSUME NEW size \in 0..MaxSize, Update(size)
       PROVE  Rest'
  <2>1. /\ file'.version = file.version + 1 /\ file.mtime < file'.mtime
        /\ UNCHANGED <<now, cache, stage, request, answer, tmserver, shown, asked, valid>>
    BY <1>12 DEF Update
  <2>2. file'.mtime \in Nat
    BY <1>1 DEF TypeInv, TypeOK, Times
  <2>3. EntryInv'
    BY <1>1, <1>2, <2>1, <2>2, Numbers DEF EntryInv
  <2>4. ExchangeInv'
    BY <1>1, <1>2, <2>1, <2>2, Numbers DEF ExchangeInv
  <2>. QED  BY <1>2, <2>1, <2>3, <2>4 DEF ShownInv
<1>13. CASE Tick
  <2>1. /\ now' = now + 1
        /\ UNCHANGED <<file, cache, stage, request, answer, tmserver, shown, asked, valid>>
    BY <1>13 DEF Tick
  <2>2. EntryInv'
    BY <1>1, <1>2, <2>1, Numbers DEF EntryInv
  <2>3. ShownInv'
    BY <1>1, <1>2, <2>1, Numbers DEF ShownInv
  <2>. QED  BY <1>2, <2>1, <2>2, <2>3 DEF ExchangeInv
<1>14. CASE UNCHANGED vars
  BY <1>2, <1>14 DEF vars, EntryInv, ExchangeInv, ShownInv
<1>. QED
  BY <1>3, <1>4, <1>5, <1>6, <1>7, <1>8, <1>9, <1>10, <1>11, <1>12, <1>13, <1>14
  DEF Next

LEMMA VersionInvHolds ==
  ASSUME DistinctTimes
  PROVE  Spec => []VersionInv
BY VersionInvInit, VersionInvStep, PTL DEF Spec

\* With modification times that tell versions apart, a cached content was in
\* the file when the exchange that wrote or validated it began, or later.
THEOREM EntryWasCurrentHolds ==
  ASSUME DistinctTimes
  PROVE  Spec => []EntryWasCurrent
<1>1. VersionInv => EntryWasCurrent
  BY DEF VersionInv, EntryInv, EntryWasCurrent
<1>. QED  BY <1>1, VersionInvHolds, PTL

\* Then what the cache answers with is at most the freshness interval old.
THEOREM ServedIsRecentHolds ==
  ASSUME DistinctTimes
  PROVE  Spec => []ServedIsRecent
<1>1. VersionInv => ServedIsRecent
  BY DEF VersionInv, EntryInv, ShownInv, ServedIsRecent, FromCache
<1>. QED  BY <1>1, VersionInvHolds, PTL

\* Then a client's reads never go back to an older version.
THEOREM ReadsGoForwardHolds ==
  ASSUME DistinctTimes
  PROVE  Spec => ReadsGoForward
<1>1. ASSUME VersionInv, VersionInv', [Next]_vars, shown # None, shown' # None
      PROVE  shown.content.version <= shown'.content.version
  <2>1. /\ cache # None /\ cache.content.version = shown.content.version
        /\ cache'.content.version = shown'.content.version
    BY <1>1 DEF VersionInv, ShownInv
  <2>2. cache \in Entries /\ cache.content.version \in Nat
    BY <1>1, <2>1, Numbers DEF VersionInv, TypeInv, TypeOK
  <2>3. CASE TakeContent
    <3>1. /\ stage = "content" /\ answer \in Slices /\ tmserver \in Times
          /\ request.offset \in 0..MaxSize
          /\ cache' = cacheWrite(answer, tmserver, request.offset)
      BY <1>1, <2>3 DEF TakeContent, VersionInv, TypeInv, TypeOK, Reads
    <3>2. cache'.content = answer
      BY <1>1, <3>1, CacheWriteType DEF VersionInv
    <3>3. asked \in Nat /\ answer.version \in Nat /\ file.version \in Nat
          /\ cache.content.version <= asked /\ answer.version \in asked..file.version
      BY <1>1, <2>1, <3>1, Numbers DEF VersionInv, ExchangeInv
    <3>. QED  BY <2>1, <2>2, <3>2, <3>3
  <2>4. CASE Revalidate
    <3>1. cache'.content = cache.content
      BY <2>2, <2>4 DEF Revalidate, Entries
    <3>. QED  BY <2>1, <2>2, <3>1
  <2>5. CASE UNCHANGED cache
    BY <2>1, <2>2, <2>5
  <2>6. TakeContent \/ Revalidate \/ UNCHANGED cache
    BY <1>1
    DEF Next, ReadCached, AskTime, TimeFails, AskContent, ContentFails, StartClient,
        ServeTime, ServeContent, Update, Tick, vars
  <2>. QED  BY <2>3, <2>4, <2>5, <2>6
<1>. QED  BY <1>1, VersionInvHolds, PTL DEF Spec, ReadsGoForward

-----------------------------------------------------------------------------
(***************************************************************************)
(* The cache implements RecentReads, when modification times tell versions *)
(* apart.                                                                  *)
(***************************************************************************)

Busy == stage \in {"time", "content"}

Seen ==
  IF shown = None THEN None
  ELSE [version |-> shown.content.version, at |-> shown.at]

\* A client that has an entry has shown something.
Held == cache # None => shown # None

LEMMA SeenShown ==
  ASSUME TypeInv
  PROVE  /\ Seen = None <=> shown = None
         /\ shown # None => /\ Seen.version = shown.content.version
                            /\ Seen.at = shown.at
<1>1. ASSUME shown # None
      PROVE  Seen \in [version : Versions, at : Times]
  BY <1>1 DEF Seen, TypeInv, TypeOK, Shown, Slices
<1>. QED  BY <1>1, NoneAssumption DEF Seen

\* What TakeContent shows.
LEMMA TakeContentShows ==
  ASSUME TypeInv, TakeContent
  PROVE  /\ answer \in Slices
         /\ shown' = [how |-> "server", read |-> request, content |-> answer, at |-> now]
         /\ shown' # None
<1>1. /\ answer \in Slices /\ request \in Reads /\ now \in Times
      /\ shown' = [how |-> "server", read |-> request, content |-> answer, at |-> now]
  BY DEF TakeContent, TypeInv, TypeOK
<1>2. shown' \in Shown
  BY <1>1 DEF Shown
<1>. QED  BY <1>1, <1>2, NoneAssumption

LEMMA HeldNext ==
  ASSUME TypeInv, Held, [Next]_vars
  PROVE  Held'
<1>1. CASE TakeContent
  BY <1>1, TakeContentShows DEF Held
<1>2. CASE StartClient
  BY <1>2 DEF StartClient, Held
<1>3. ASSUME NEW r \in Reads, ReadCached(r)
      PROVE  Held'
  BY <1>3, ShowCachedVersion DEF ReadCached, Held
<1>4. CASE Revalidate
  <2>1. /\ request \in Reads /\ fileInCache(request) /\ cache # None
        /\ ShowCached(request) \/ Throw(request)
    BY <1>4 DEF Revalidate, fileInCache, TypeInv, TypeOK
  <2>. QED  BY <2>1, ShowCachedVersion DEF Held
<1>5. CASE UNCHANGED <<cache, shown>>
  BY <1>5 DEF Held
<1>. QED
  BY <1>1, <1>2, <1>3, <1>4, <1>5
  DEF Next, AskTime, TimeFails, AskContent, ContentFails, ServeTime, ServeContent,
      Update, Tick, vars

LEMMA ReadingStep ==
  ASSUME VersionInv, VersionInv', Held, [Next]_vars
  PROVE  [Reading!Next]_(Reading!vars)
<1>. DEFINE View == <<now, file.version, Busy, asked, valid, Seen>>
<1>1. TypeInv /\ TypeInv' /\ EntryInv /\ ExchangeInv /\ ShownInv
  BY DEF VersionInv
<1>3. ASSUME UNCHANGED View
      PROVE  UNCHANGED Reading!vars
  BY <1>3 DEF Reading!vars, Busy, Seen
<1>4. ASSUME NEW r \in Reads, ReadCached(r)
      PROVE  Reading!Recall \/ UNCHANGED View
  <2>1. /\ fileInCache(r) /\ cache # None /\ now < cache.tc + fInterval
        /\ ShowCached(r) \/ Throw(r)
        /\ stage = "idle" /\ stage' \in {"idle", "ended"}
        /\ UNCHANGED <<now, file, cache, asked, valid>>
    BY <1>4 DEF ReadCached, fileInCache, cacheExpired, ShowCached, Throw, LeaveCase
  <2>2. ~Busy /\ ~Busy'
    BY <2>1 DEF Busy
  <2>3. /\ shown # None /\ cache.content.version = shown.content.version
        /\ now < valid.at + fInterval /\ shown.content.version >= valid.since
    BY <1>1, <2>1, Numbers DEF Held, ShownInv, EntryInv
  <2>4. CASE UNCHANGED shown
    BY <2>1, <2>4 DEF Seen, Busy
  <2>5. CASE /\ shown' # None
             /\ shown'.content.version = cache.content.version
             /\ shown'.at = now
    <3>1. /\ Seen # None /\ Seen.version = shown.content.version
          /\ Seen' = [version |-> Seen.version, at |-> now]
      BY <1>1, <2>3, <2>5, SeenShown DEF Seen
    <3>. QED
      BY <2>1, <2>2, <2>3, <3>1 DEF Reading!Recall, Reading!Show, Seen, Busy
  <2>. QED  BY <1>1, <2>1, <2>4, <2>5, ShowCachedVersion
<1>5. ASSUME NEW r \in Reads, AskTime(r)
      PROVE  Reading!Ask
  BY <1>5 DEF AskTime, Ask, Reading!Ask
<1>6. ASSUME TimeFails \/ ContentFails
      PROVE  Reading!Fail
  BY <1>6 DEF TimeFails, ContentFails, LeaveCase, Reading!Fail
<1>7. ASSUME AskContent
      PROVE  Reading!Ask
  BY <1>7 DEF AskContent, Ask, Reading!Ask
<1>8. ASSUME Revalidate
      PROVE  Reading!Confirm
  <2>1. /\ stage = "time" /\ answer # None /\ request \in Reads
        /\ fileInCache(request) /\ cache # None /\ answer = cache.tmclient
        /\ ShowCached(request) \/ Throw(request)
        /\ stage' \in {"idle", "ended"}
        /\ valid' = [since |-> asked, at |-> now]
        /\ UNCHANGED <<now, file, asked>>
    BY <1>1, <1>8
    DEF Revalidate, fileInCache, fileChangedAtServer, ShowCached, Throw, LeaveCase,
        TypeInv, TypeOK
  <2>2. Busy /\ ~Busy'
    BY <2>1 DEF Busy
  <2>3. shown # None /\ shown.content.version = asked /\ cache.content.version = asked
    BY <1>1, <2>1 DEF Held, ShownInv, ExchangeInv
  <2>4. Seen # None /\ Seen.version = asked
    BY <1>1, <2>3, SeenShown
  <2>5. Seen' = [version |-> Seen.version, at |-> now] \/ UNCHANGED Seen
    <3>1. CASE UNCHANGED shown
      BY <3>1 DEF Seen
    <3>2. CASE /\ shown' # None
               /\ shown'.content.version = cache.content.version
               /\ shown'.at = now
      BY <2>3, <2>4, <3>2 DEF Seen
    <3>. QED  BY <1>1, <2>1, <3>1, <3>2, ShowCachedVersion
  <2>. QED
    BY <2>1, <2>2, <2>4, <2>5
    DEF Reading!Confirm, Reading!Show, Reading!Vouch, Seen, Busy
<1>9. ASSUME TakeContent
      PROVE  \E v \in asked..file.version : Reading!Fetch(v)
  <2>1. /\ answer \in Slices /\ shown' # None
        /\ shown'.content.version = answer.version /\ shown'.at = now
    BY <1>1, <1>9, TakeContentShows
  <2>2. /\ stage = "content" /\ stage' = "idle"
        /\ valid' = [since |-> asked, at |-> now]
        /\ UNCHANGED <<now, file, asked>>
    BY <1>9 DEF TakeContent, LeaveCase
  <2>3. Busy /\ ~Busy'
    BY <2>2 DEF Busy
  <2>4. answer.version \in asked..file.version
    BY <1>1, <2>1, <2>2 DEF ExchangeInv
  <2>5. Seen # None => Seen.version <= answer.version
    <3>. SUFFICES ASSUME Seen # None
                  PROVE  Seen.version <= answer.version
      OBVIOUS
    <3>1. shown # None /\ Seen.version = shown.content.version
      BY <1>1, SeenShown
    <3>2. cache # None /\ cache.content.version = Seen.version
          /\ cache.content.version <= asked
      BY <1>1, <2>2, <3>1 DEF ShownInv, ExchangeInv
    <3>. QED  BY <1>1, <2>1, <2>2, <2>4, <3>2, Numbers
  <2>6. Seen' = [version |-> answer.version, at |-> now]
    BY <2>1 DEF Seen
  <2>7. answer.version >= asked /\ answer.version <= file.version
    BY <1>1, <2>1, <2>2, <2>4, Numbers
  <2>8. Reading!Fetch(answer.version)
    BY <2>2, <2>3, <2>5, <2>6, <2>7
    DEF Reading!Fetch, Reading!Show, Reading!Vouch, Seen, Busy
  <2>. QED  BY <2>4, <2>8 DEF Reading!Fetch
<1>10. ASSUME StartClient
       PROVE  Reading!Forget
  BY <1>10 DEF StartClient, Reading!Forget
<1>11. ASSUME ServeTime \/ ServeContent
       PROVE  UNCHANGED View
  BY <1>11 DEF ServeTime, ServeContent, Busy, Seen
<1>12. ASSUME NEW size \in 0..MaxSize, Update(size)
       PROVE  Reading!Update
  BY <1>12 DEF Update, Reading!Update
<1>13. ASSUME Tick
       PROVE  Reading!Tick
  BY <1>13 DEF Tick, Reading!Tick
<1>14. ASSUME UNCHANGED vars
       PROVE  UNCHANGED View
  BY <1>14 DEF vars, Busy, Seen
<1>. HIDE DEF View
<1>. QED
  BY <1>3, <1>4, <1>5, <1>6, <1>7, <1>8, <1>9, <1>10, <1>11, <1>12, <1>13, <1>14
  DEF Next, Reading!Next

\* With modification times that tell versions apart, the cache, its validation
\* and the two-step exchange together are a client of RecentReads: no order of
\* updates, exchanges, expiries and failures shows anything older than promised.
THEOREM Refinement ==
  ASSUME DistinctTimes
  PROVE  Spec => ImplementsRecentReads
<1>1. Init => Reading!Init
  BY DEF Init, Reading!Init
<1>2. Init => Held
  BY DEF Init, Held
<1>3. VersionInv /\ Held /\ [Next]_vars => Held'
  BY HeldNext DEF VersionInv
<1>4. VersionInv /\ VersionInv' /\ Held /\ [Next]_vars
        => [Reading!Next]_(Reading!vars)
  BY ReadingStep
<1>. QED
  BY <1>1, <1>2, <1>3, <1>4, VersionInvHolds, PTL
  DEF Spec, ImplementsRecentReads, Reading!Spec

=============================================================================
