------------------------------- MODULE Cache -------------------------------
(***************************************************************************)
(* The client's cache of one file (client/cache/cache.cpp) and the READ    *)
(* choice of the menu that uses it (client/client_udp.cpp): when an entry  *)
(* answers a read, when the server is asked for the time of the last       *)
(* modification, when for the content, and what is stored then.            *)
(*                                                                         *)
(* A content is abstracted to a slice: which version of the file it was    *)
(* taken from, at which index it starts and how many bytes it has.  An     *)
(* exchange with the server is the retry loop of module Invocation: the    *)
(* request is served while the client waits, once or again after a loss,   *)
(* and the last response made is the one received.                         *)
(***************************************************************************)
EXTENDS Naturals

CONSTANTS
  fInterval,      \* the client's freshness interval, in clock units
  Second,         \* clock units in the granularity of a modification time
  DistinctTimes,  \* TRUE: no two versions have the same modification time
  None,           \* no entry, no response
  Failed,         \* a response that is not successful
  MaxSize,        \* bound: size of the file
  MaxTime,        \* bound: the clock
  MaxVersion      \* bound: versions of the file

ASSUME CacheAssumption ==
  /\ fInterval \in Nat /\ Second \in Nat \ {0}
  /\ DistinctTimes \in BOOLEAN
  /\ MaxSize \in Nat /\ MaxTime \in Nat /\ MaxVersion \in Nat

VARIABLES
  now,      \* the clock
  file,     \* the file at the server
  cache,    \* the client's entry for it
  stage,    \* what the client waits for: "idle" (nothing), "time", "content",
            \*   or it has "ended"
  request,  \* the read an exchange is for
  answer,   \* the response on its way
  tmserver, \* timeResp.lastModifiedUnixTime of this read
  shown,    \* history: the last content shown, with the read it answers
  asked,    \* history: the version there was when the exchange began
  valid     \* history: the last exchange that validated or wrote the entry:
            \*   the version there was when it began, the time it ended

vars == <<now, file, cache, stage, request, answer, tmserver, shown, asked, valid>>

Reads == [offset : 0..MaxSize, numBytes : 0..MaxSize]
Versions == 0..MaxVersion
Times == 0..MaxTime
Slices == {s \in [version : Versions, from : 0..MaxSize, count : 0..MaxSize] :
             s.from + s.count <= MaxSize}

Shown == [how : {"cache", "server"}, read : Reads, content : Slices, at : Times]

Entries == [tc : Times, tmclient : Times, startIdx : 0..MaxSize, content : Slices]

ASSUME NoneAssumption ==
  /\ None \notin Times /\ None \notin Slices /\ None \notin Entries
  /\ None \notin Shown /\ None # Failed /\ Failed \notin Slices
  /\ None \notin [version : Versions, at : Times]

TypeOK ==
  /\ now \in Times
  /\ file \in [version : Versions, size : 0..MaxSize, mtime : Times]
  /\ cache = None \/ cache \in Entries
  /\ stage \in {"idle", "time", "content", "ended"}
  /\ request \in Reads \cup {None}
  /\ stage \in {"time", "content"} => request \in Reads
  /\ stage = "time" => answer = None \/ answer \in Times
  /\ stage = "content" => answer \in {None, Failed} \/ answer \in Slices
  /\ tmserver \in Times
  /\ shown = None \/ shown \in Shown
  /\ asked \in Versions
  /\ valid \in [since : Versions, at : Times]

Init ==
  /\ now = 0
  /\ file \in [version : {0}, size : 0..MaxSize, mtime : {0}]
  /\ cache = None
  /\ stage = "idle"
  /\ request = None
  /\ answer = None
  /\ tmserver = 0
  /\ shown = None
  /\ asked = 0
  /\ valid = [since |-> 0, at |-> 0]

-----------------------------------------------------------------------------
(***************************************************************************)
(* The functions of cache.cpp.                                             *)
(***************************************************************************)

StartIdxOnly(r) == cache # None /\ cache.startIdx <= r.offset

fileInCache(r) ==
  /\ cache # None
  /\ cache.startIdx <= r.offset
  /\ r.offset + r.numBytes <= cache.startIdx + cache.content.count

ClocksSwapped(t) == ~(cache.tc < t + fInterval)

cacheExpired(t) == ~(t < cache.tc + fInterval)

ChangedIfOlder(tm) == tm < cache.tmclient

fileChangedAtServer(tm) == tm # cache.tmclient

KeepsContent(c, tm, start) ==
  IF cache = None
  THEN [tc |-> now, tmclient |-> tm, startIdx |-> start, content |-> c]
  ELSE [cache EXCEPT !.tc = now, !.tmclient = tm]

\* The entry after cacheWrite.  That of a file already in the cache keeps its
\* timestamps: the new ones are computed, and put only in a copy.
cacheWrite(c, tm, start) ==
  IF cache = None
  THEN [tc |-> now, tmclient |-> tm, startIdx |-> start, content |-> c]
  ELSE [cache EXCEPT !.startIdx = start, !.content = c]

Least(m, n) == IF m < n THEN m ELSE n

\* data.substr(offset, bytesToRead) of the content, which starts at startIdx.
cacheRead(r) ==
  [version |-> cache.content.version,
   from    |-> cache.content.from + r.offset,
   count   |-> Least(r.numBytes, cache.content.count - r.offset)]

-----------------------------------------------------------------------------
(***************************************************************************)
(* The READ choice of the menu.                                            *)
(***************************************************************************)

\* The case of the menu is left: what is local to it is gone.
LeaveCase(next) ==
  /\ stage' = next
  /\ request' = None
  /\ answer' = None
  /\ tmserver' = 0

\* The read ends with the cached content.
ShowCached(r) ==
  /\ r.offset <= cache.content.count
  /\ LeaveCase("idle")
  /\ shown' = [how |-> "cache", read |-> r, content |-> cacheRead(r), at |-> now]

\* substr throws out_of_range, which nothing catches: the client ends.
Throw(r) ==
  /\ r.offset > cache.content.count
  /\ LeaveCase("ended")
  /\ UNCHANGED shown

\* The entry answers without an exchange.
ReadCached(r) ==
  /\ stage = "idle"
  /\ fileInCache(r) /\ ~cacheExpired(now)
  /\ ShowCached(r) \/ Throw(r)
  /\ UNCHANGED <<now, file, cache, asked, valid>>

Ask(what) ==
  /\ stage' = what
  /\ answer' = None
  /\ asked' = file.version

\* The range is not cached or the entry expired: the time is asked for.
AskTime(r) ==
  /\ stage = "idle"
  /\ fileInCache(r) => cacheExpired(now)
  /\ request' = r
  /\ Ask("time")
  /\ UNCHANGED <<now, file, cache, tmserver, shown, valid>>

\* The server could not stat the file: an error message.
TimeFails ==
  /\ stage = "time"
  /\ LeaveCase("idle")
  /\ UNCHANGED <<now, file, cache, shown, asked, valid>>

\* The time arrives, for a range not cached or of a changed file: the content
\* is asked for.
AskContent ==
  /\ stage = "time" /\ answer # None
  /\ fileInCache(request) => fileChangedAtServer(answer)
  /\ tmserver' = answer
  /\ Ask("content")
  /\ UNCHANGED <<now, file, cache, request, shown, valid>>

\* The time arrives and is that of the entry, which is validated and answers.
Revalidate ==
  /\ stage = "time" /\ answer # None
  /\ fileInCache(request) /\ ~fileChangedAtServer(answer)
  /\ cache' = [cache EXCEPT !.tc = now]
  /\ valid' = [since |-> asked, at |-> now]
  /\ ShowCached(request) \/ Throw(request)
  /\ UNCHANGED <<now, file, asked>>

\* The content arrives: it is shown and written to the cache.
TakeContent ==
  /\ stage = "content" /\ answer \notin {None, Failed}
  /\ cache' = cacheWrite(answer, tmserver, request.offset)
  /\ valid' = [since |-> asked, at |-> now]
  /\ LeaveCase("idle")
  /\ shown' = [how |-> "server", read |-> request, content |-> answer, at |-> now]
  /\ UNCHANGED <<now, file, asked>>

\* The server refused the range: an error message.
ContentFails ==
  /\ stage = "content" /\ answer = Failed
  /\ LeaveCase("idle")
  /\ UNCHANGED <<now, file, cache, shown, asked, valid>>

\* The client is started again, with an empty cache.
StartClient ==
  /\ stage = "ended"
  /\ stage' = "idle"
  /\ cache' = None
  /\ shown' = None
  /\ UNCHANGED <<now, file, request, answer, tmserver, asked, valid>>

-----------------------------------------------------------------------------
(***************************************************************************)
(* The server, and what other clients do there.                            *)
(***************************************************************************)

\* GET_LAST_MODIFIED_TIME.
ServeTime ==
  /\ stage = "time"
  /\ answer' = file.mtime
  /\ UNCHANGED <<now, file, cache, stage, request, tmserver, shown, asked, valid>>

OffsetInFile(r) == r.offset <= file.size

\* READ's check.
InFile(r) == r.offset <= file.size /\ r.offset + r.numBytes <= file.size

\* READ.
ServeContent ==
  /\ stage = "content"
  /\ answer' =
       IF InFile(request)
       THEN [version |-> file.version, from |-> request.offset,
             count |-> request.numBytes]
       ELSE Failed
  /\ UNCHANGED <<now, file, cache, stage, request, tmserver, shown, asked, valid>>

\* WRITE, REPLACE or DELETE, of any client.
Update(size) ==
  /\ file.version < MaxVersion
  /\ DistinctTimes => file.mtime < now \div Second
  /\ file' = [version |-> file.version + 1, size |-> size, mtime |-> now \div Second]
  /\ UNCHANGED <<now, cache, stage, request, answer, tmserver, shown, asked, valid>>

Tick ==
  /\ now < MaxTime
  /\ now' = now + 1
  /\ UNCHANGED <<file, cache, stage, request, answer, tmserver, shown, asked, valid>>

Next ==
  \/ \E r \in Reads : ReadCached(r) \/ AskTime(r)
  \/ TimeFails \/ AskContent \/ Revalidate \/ TakeContent \/ ContentFails
  \/ StartClient
  \/ ServeTime \/ ServeContent
  \/ \E size \in 0..MaxSize : Update(size)
  \/ Tick

Spec == Init /\ [][Next]_vars

-----------------------------------------------------------------------------
(***************************************************************************)
(* Properties.                                                             *)
(***************************************************************************)

\* What is cached was in the file when the exchange that last wrote or
\* validated the entry began, or later, although the time and the content are
\* fetched one after the other, and cacheWrite keeps old timestamps.
EntryWasCurrent ==
  cache # None /\ cache.content.count > 0 =>
    cache.content.version \in valid.since..file.version

FromCache == shown # None /\ shown.how = "cache"

\* A read answered from the cache shows a content that exchange vouches for,
\* and it ended less than the freshness interval ago.
ServedIsRecent ==
  FromCache =>
    /\ shown.content.version \in valid.since..file.version
    /\ shown.at <= valid.at \/ shown.at < valid.at + fInterval

\* Reads of one client never go back to an older version of the file, whether
\* the cache answers or the server.
ReadsGoForward ==
  [][shown # None /\ shown' # None
       => shown.content.version <= shown'.content.version]_vars

AnswersRead == shown.read.numBytes > 0 =>
  /\ shown.content.from = shown.read.offset
  /\ shown.content.count = shown.read.numBytes

\* An entry that starts at the file's first byte answers with the bytes asked
\* for, all of them, and never makes the client end.
PrefixIsRead ==
  cache # None /\ cache.startIdx = 0 =>
    /\ stage # "ended"
    /\ FromCache => AnswersRead

\* Whatever the entry holds, a read answered from it shows the bytes asked for.
RangeIsRead == FromCache => AnswersRead

\* To its user the client with its cache is a client of RecentReads: a read
\* without an exchange shows the version shown last, soon enough after an
\* exchange that vouched for it, and an exchange shows nothing older than the
\* version there was when it began (READ in client_udp.cpp:124-264).
Reading == INSTANCE RecentReads WITH
  version <- file.version,
  busy <- stage \in {"time", "content"},
  shown <- IF shown = None THEN None
           ELSE [version |-> shown.content.version, at |-> shown.at]
ImplementsRecentReads == Reading!Spec

=============================================================================
