# A TLA+ model of the remote file service

The repository is a distributed file service: a Go server (`src/server`) keeps
files, and C++ clients (`src/client`) read, change and monitor them over UDP.
This directory holds TLA+ modules translated from that code, TLC configurations
that check them on small instances, and proofs, checked by TLAPS, that some of
the properties hold for every value of the constants. All paths below are
relative to `src/`.

Contents: [1 inventory](#1-inventory), [2 plan](#2-plan), [3 the modules and the
code](#3-the-modules-and-the-code), [4 the runs](#4-the-runs), [5 fairness and
assumptions](#5-fairness-and-assumptions), [6 the proofs](#6-the-proofs), [7
disagreements found](#7-disagreements-found), [8 what is left out](#8-what-is-left-out),
[9 running it](#9-running-it).

## 1 Inventory

### How the system works

A client process is one thread: a menu loop (`client/client_udp.cpp:52-474`)
takes a choice from the keyboard, marshals a request with the next message
identifier, and sends it again and again until *some* datagram arrives on its
socket (a *retry loop*, e.g. `client_udp.cpp:298-313`). At most one request of a
client is outstanding. The server is one packet loop (`server/main.go:96-99`)
that handles a packet to its end before it reads the next
(`main.go:41-75`): it may pretend to lose the request, routes it
(`apis/request_router.go`) to the handler of its type, and may pretend to lose
the reply. The only other threads are the goroutines that end subscriptions.
Everything but the files lives in memory and is gone after a restart.

    menu -> retry loop ==request==> packet loop -> router (table of responses)
      |         ^                                     |
      |         '====reply=============================' handler -> service -> disk
      v                                                             |
    client cache          monitor window <==notification== NotifySubscribers
                                                                    ^ lock
                                              expiry goroutines ----'

### Components

| Component | State | Operations | Interacts with | What is hard | What makes it correct |
|---|---|---|---|---|---|
| Remote invocation (`client_udp.cpp` retry loops, `server/main.go`, `network/network.go`, `apis/request_router.go`) | client: identifier counter, outstanding request; server: `messageResponses` | send, time out and resend, receive; lose request, route, run handler, lose reply, reply | the network, every handler | losses, duplicates, late replies, restarts, identifiers that several clients share or that wrap round | the reply belongs to the request; executed at least once, or exactly once; a retry loop ends |
| Subscriptions (`apis/subscribe/service/subscribe.go`) | a map of slices under a mutex; a goroutine per subscription | subscribe, notify (a loop that removes while it iterates), expire | updates of the file services, the clock, the socket | interleaving of rounds and goroutines over shared backing arrays; a send that fails halfway | an active subscriber is registered and is told exactly once per update; one that is over is removed |
| File services (`apis/{read,write,replace,delete}/service`) | the files | check, assemble a new content, `os.WriteFile`, notify | disk, subscriptions | off-by-one and overflow in slices; torn writes; panics | an update changes the segment it names and nothing else; subscribers get what is on disk; the server goes on |
| GET_LAST_MODIFIED_TIME (`apis/get_last_modified_time/service`) | none | stat, in seconds | client cache | granularity | versions are told apart |
| Client cache and READ (`client/cache/cache.cpp`, `client_udp.cpp:74-288`) | per pathname: server time, validation time, start index, content | range check, freshness check, validation, fetch, write, read | both exchanges with the server, updates of other clients, the clock | staleness; the time and the content come from two exchanges; ranges; keeping old timestamps | what is shown is at most the freshness interval old; it is the range asked for; reads do not go back |
| Monitor window (`client_udp.cpp:361-386`) | start of the window | receive and print notifications | subscriptions; shares the socket with replies | the timeout starts anew with each notification; replies and notifications are taken for each other | it closes in time, and when it does the server has stopped notifying |
| Wire formats (`client/messages`, `server/apis/*/messages`) | none | marshal, unmarshal, validate | everything | datagrams cut off by the receive buffers (1024 and 5000 bytes), length fields that then point past the data | round trip; refusal of what does not parse, never a misreading |
| Server handlers (`apis/*/main.go`) | none | unmarshal, call the service, marshal the answer | router, services | requests that are cut off; slicing before checking; answers too long to be sent | an answer to every request |
| Client menu and input | none | prompts, parsing of numbers | everything | unsigned values from signed input | only what the server expects is sent |
| Command lines, socket set-up; manual message tests | flags | — | — | — | — |

`PROJECT.json` lists the same components with their status, and, under
`hazards`, each thing in this code that is hard to test, at its line, with the
properties that would notice it going wrong.

## 2 Plan

Done:

1. `RemoteCall` (abstract) and `Invocation`: the protocol on which every other
   operation of the client rests. Proofs: `InvocationProofs`.
2. `Registry` (abstract) and `Subscription`: the only concurrent code of the
   server. Proofs: `SubscriptionProofs`.
3. `FileOps` (pure) and `FileServer`: what the requests do to the disk, with
   crashes, and `FileStore` (abstract), which it implements. Proofs:
   `FileProofs`.
4. `RecentReads` (abstract) and `Cache`: the client's cache against other clients'
   updates. Proofs: `CacheProofs`.
5. `Wire` (pure): the bytes of every request and response, both ways. Proofs:
   `WireProofs`, the round trips.
6. `Client`: one client from its menu to the handlers and back on `Wire`'s bytes,
   with the monitor window and notifications on the socket of the replies.
   Proofs: `ClientProofs`.

Left:

7. A `System` of several clients that composes `Client` with the rounds of
   `Subscription` and the table of `Invocation`: `Client` has one client, and
   leaves the updates of others and the stored responses to those modules.

## 3 The modules and the code

Names are those of the code where TLA+ allows it (`messageResponses`,
`fileInCache`, `cacheWrite`, `HandleNotification`). `PROJECT.json` maps every
definition to its lines. History variables, marked as such, only serve the
properties.

### `RemoteCall`, `Invocation`

`RemoteCall` is what a caller expects: a call is made, executed while its caller
waits (once; any number of times when `Repeatable`) and returns, executed, with
its own answer.

`Invocation` is the code. A call is `<<c, n>>`, the n-th request of client
process c; `MessageId` is what is sent of that, n - 1 modulo `IdSpace`, for
every client counts from 0 (`client_udp.cpp:32`) in a `uint32_t`. `requests` and
`replies` count the copies of each datagram in flight; any copy may be taken
next, so datagrams are reordered, and copies are lost by `LoseRequest` and
`LoseReply`. Retries create the duplicates.

| Action | Code |
|---|---|
| `Call` | the menu case up to the first `sendto` |
| `Timeout` | `recvfrom` returns -1, the loop sends the same bytes again |
| `Receive` | `recvfrom` returns a datagram, *whichever*, and the loop ends |
| `LoseRequest` | `main.go:48-55`, the simulated loss; a loss on the network looks the same |
| `ServeAndLoseReply`, `ServeAndReply` | the rest of `handlePacket`, with `RouteRequest` (`request_router.go:37-74`) |
| `RestartServer` | the process ends and is started again, the table is empty |

The table is filled under both semantics and consulted under at-most-once only,
as in the code. `Timely` is not in the code: it is the assumption under which
the protocol is right (section 5).

### `Registry`, `Subscription`

`Registry` is what the packet loop and the subscribers count on: a set of
subscriptions per file. A round takes the set of one file, sends to each member
that is active and drops each that has expired, in any order, and is over when
none is left; a goroutine drops its own. After a send has failed the promise is
weaker, and `Registry` says how: what was dropped may come back, but only if it
had expired, and a member may have to be dropped twice. `Subscription`
implements it (`ImplementsRegistry`, with the mapping `Sets`: the members of a
file are what its slice holds, the round's own slice while there is one, and
those still due are what the loop's index has not reached).

A Go slice is a backing array and a length; the module has both, because
`NotifySubscribers` (`subscribe.go:68-101`) shortens a slice of its own *in
place* and puts it into the map only at the end. `i`, `n` and `notifying` are
the loop's state; each iteration is an action (`Send`, `SendFails`, `Drop`) and
`Finish` the end with the unlock, so that time passes between iterations.
`Subscribe` and the body of the goroutine (`Expire`, after its sleep) hold the
lock throughout and are atomic. `LockFree` guards `Expire`; `Subscribe` and
`Notify` come from the packet loop, which runs one handler at a time. A
subscription is a number in the order of making, since the code compares
pointers: a client that asks twice has two. `SendFails` is the error of
`WriteToUDP`: a notification carries the whole file, and a datagram of more than
65507 bytes cannot be sent. An array the map grows out of is not kept apart from
its successor: `append` happens under `Subscribe` only, between rounds.

### `FileStore`, `FileOps`, `FileServer`

`FileOps` has what the services compute, as operators on sequences of bytes:
their checks with `uint32` sums modulo `WordSize` (`Fails`), where a slice
expression is out of bounds (`Panics`), and the new content as the code builds
it, with `make`, `copy` and `append` (`Inserted`, `Overwritten`, `Deleted`).
`Splice` and `Meant` are the reference: what the operation should do.

`FileStore` is what clients and subscribers may count on: one insertion,
replacement or deletion at a time, in one file, all at once and together with
its announcement; or, if something may break, a part of it announced to no one.
`FileServer` implements it (`ImplementsFileStore`): `Found` maps the disk to what
the next request would find, which is the old content until the handler is
through, for the packet loop serves nothing in between.

`FileServer` runs the services. A request that passes the checks goes through the stages
of `os.WriteFile`: open with `O_TRUNC`, write (perhaps only a part, with an
error), then `HandleNotification` and the reply. The process can be killed in
any stage, and a panic ends it, for nothing recovers one. `Requests` is what the
shipped client sends: its prompts read an `int` and refuse negative numbers, so
two of them never overflow a `uint32`; the assumption on `Inputs` says so.

### `RecentReads`, `Cache`

One file and one client's entry for it. The functions of `cache.cpp` keep their
names. A content is abstracted to a slice `[version, from, count]`: the
properties need only know which version it is from and which bytes it has. The
READ case is cut where it waits: `AskTime` (`client_udp.cpp:79-113` and `169-201`),
`AskContent` or `Revalidate`, `TakeContent`; `ReadCached` is the case without an
exchange. While the client waits, others `Update` the file and the clock ticks.
`cacheWrite` keeps the old timestamps of an existing entry, as the code does by
assigning to a copy. `cacheRead` applies the offset in the file to a content
that starts at `startIdx`; `Throw` is `substr`'s `out_of_range`, which nothing
catches. An exchange may be served twice, after a loss: the last response made
is the one received, which is what the proof about `Invocation` allows.

`RecentReads` is the promise about age in one piece: an exchange ends with a
version that was current when it began or later, never older than what was shown
before, or confirms that what was shown last was current then; for less than the
freshness interval afterwards that may be shown again. It has no entries, contents
or modification times. `Cache` implements it (`ImplementsRecentReads`), provided
that times tell versions apart.

### `Wire`

Byte vectors are sequences of numbers below 256, strings the sequences of their
bytes. The functions keep the names they have in `client/messages/*.cpp`; the
server's six `validateMarshalledRequest`s differ only in how many `uint32`s they
expect and in whether a content follows, so they are one operator with the type
as a parameter, and so are its `UnmarshalRequest`s and `MarshalResponse`s.
A response is a record that says what it is (`"done"`, `"content"`, `"time"`,
`"error"`), and `Thrown` is what the client makes of a vector that its
validation rejects. `SliceTooFar` is where the server's validation of WRITE and
REPLACE slices before it checks (`request.go:23-24`): a Go slice expression may
reach past the length of the data as far as its capacity, the receive buffer,
and panics beyond. `Cut` is what a receive buffer keeps of a datagram.

### `Client`

`state` is where the client's only thread waits: at the menu, in a retry loop,
between the two exchanges of a READ (`"timed"`; the cache decides there, which
is left open, see `Cache`), in the monitor window, or nowhere any more
(`"ended"`, `"died"`). The server's handlers are actions on the bytes received:
a request whose header names a type is refused, served, or makes the handler
panic; what the service answers is any answer of its type, since `FileServer`,
`Cache` and `Subscription` say which.

| Action | Code |
|---|---|
| `ChooseRead`, `ChooseWrite`, `ChooseMonitor`, `ChooseReplace`, `ChooseDelete`, `ChooseEnd` | the cases of the menu, from the prompts to the first `sendto` (`client_udp.cpp:74-467`) |
| `AskContent`, `ShowCached` | the second half of case `'1'` |
| `Timeout`, `Receive` | the retry loops, and the unmarshalling behind them, which nothing catches |
| `Show`, `ListenTimeout`, `EndIteration` | the loop of the window (`client_udp.cpp:365-386`) |
| `Refuse`, `Serve`, `Panic` | `handlePacket`, `RouteRequest` and the handler of the type |
| `Reply` | `SendToClient` (`main.go:69-75`): an answer too long for a datagram is logged and dropped |
| `Notify` | another client's update, while one of this client's subscriptions is active |
| `Lose`, `Tick` | the network and the simulated losses; the clock |

`left` is how much longer the subscription made by each call is active. `early`
and `strange` are history: how often a timeout fired while an answer was still
possible, and whether a datagram other than the reply was taken for it.

## 4 The runs

The MC modules only declare the symmetry sets and names TLC needs; the values
of the constants are in the .cfg files.

| Run (`.cfg`) | Bounds | Checks | Shows |
|---|---|---|---|
| `alo_timely` (`Invocation_alo_timely`) | 2 clients, 3 calls each, 2 identifiers, 2 copies, 1 restart | `TypeOK`, `AnsweredIsExecuted`, `OwnAnswer`, `ImplementsRemoteCall` | at-least-once works when timeouts are not premature, even with a restart |
| `amo_free` (`Invocation_amo_free`) | 2 clients, 3 calls each, 2 identifiers, 1 copy, premature timeouts, no restart; fairness | `IdExecutedOnce`, `AnswerWasMade`, `EveryCallReturns` | the table works, wrong answers are real and old ones, and retry loops end whatever the network does |
| `stale_reply`, `shared_ids` | as small as the case | one property each, violated | section 7 |
| `registry` (`Subscription_registry`) | 2 files, 3 subscriptions, clock to 2, intervals 0 to 2, sends that fail; fairness | `TypeOK`, `ActiveIsRegistered`, `Reaped`, `NoDuplicates`, `RoundComplete`, `RoundReaches`, `ImplementsRegistry`, `EventuallyRemoved` | rounds and goroutines do not disturb each other, and the slices behave as sets; no active subscription is lost even when a send fails, the rounds after it still reach all of them, and as long as none has, every subscription goes in the end |
| `updates` (`FileServer_updates`) | 1 file and a missing one, 4 bytes, payloads to 2, offsets and counts 0 to 4 and 7, failing writes, crashes | `TypeOK`, `UpdateIsMeant`, `NotifiedIsOnDisk`, `ReplaceMayRepeat`, `DeleteUndoesWrite`, `TornIsPrefix`, `OnlyOverrunPanics`, `ImplementsFileStore` | the buffers and copies are right; what a crash or a failing write leaves; only one kind of request makes the server panic; updates look atomic from outside |
| `stops` (`FileServer_stops`) | the same without failures | `AlwaysUp`, violated | section 7 |
| `cached_reads` (`Cache_safety`) | 2 bytes, clock to 3, 3 versions, freshness 2 | `TypeOK`, `EntryWasCurrent`, `ServedIsRecent`, `PrefixIsRead`, `ReadsGoForward`, `ImplementsRecentReads` | the cache keeps its promise when modification times differ |
| `session` (`Client_session`) | 2 calls, buffers of 24 and 12 bytes, datagrams of at most 15, 2 in the inbox, 1 premature timeout; fairness | `TypeOK`, `RequestUnderstood`, `ReplyUnderstood`, `OnlyLongPathPanics`, `WindowBounded`, `OnlyStrangersKill`, `SilentAfterWindow`, `EveryCallReturns` | both sides understand each other or refuse; windows close in time and leave nothing behind; what ends a client or the server is named; retry loops end |
| `keeps_accepting` (`Client_keeps_accepting`) | short texts and contents, timely timeouts | `KeepsAccepting`, violated | section 7 |
| `same_second` (`Cache_same_second`), `cached_range` (`Cache_offset`) | as small as the case | one property each, violated | section 7 |

Why the bounds are enough to be of interest:

* `Invocation`: with two copies a duplicate can outlive its call, with three
  calls and two identifiers one is used again, and with two clients
  identifiers collide. Execution counts stop at 2, "more than once".
  At-most-once semantics with timely timeouts has no run of its own: its
  properties are proved (`Refinement`, `SingleClientRefinement`).
* `Subscription`: three subscriptions give a round an element before, at and
  after a removal; intervals of 0, 1 and 2 let them end in any order, during a
  round too, and 0 ends at once. Two files show that a round keeps to its own.
* `FileServer`: offsets at the start, inside, at the end, one beyond and far
  beyond a file of any length to 4; two byte values tell positions apart. The
  file starts empty and grows by the requests themselves. `WordSize` 16 is small
  but, as in the code, more than twice any input.
* `Cache`: three versions let an update fall before, between and after the two
  exchanges of a read; the clock passes the freshness boundary; two bytes give
  entries that start at 0, at 1, and are empty.
* `Client`: the code's buffers of 1024 and 5000 bytes are scaled down to 24 and
  12, which keeps what matters: there is a pathname for which a DELETE fits and a
  WRITE is cut off, a WRITE whose pathname alone fills the buffer, a WRITE whose
  content is cut off, a content that fits the client's buffer, one that is cut
  off there, and one that cannot be sent at all. Of the two calls the second
  meets what the first left behind. Windows of 0 and of 2 seconds; an inbox of 2
  holds a reply and a notification, or two replies. `ClientProofs` has no bound
  on any of these.

Deadlock is checked except for `Invocation`, where the models stop when every
client has made `MaxCalls` calls and nothing is in flight: the real client has
no such limit, it waits for a user.

## 5 Fairness and assumptions

* `Invocation!FairSpec`: the client's retry loop never gives up, so a timeout
  that can fire does (weak fairness). A request that reaches the server again and
  again is answered some time, and a reply that is again and again on its way is
  received some time (strong fairness): losses may be as many as they like, but
  not all. The simulated losses are an operator's choice at a prompt
  (`main.go:48-67`), who is assumed not to say "lose it" for ever.
* `Subscription!FairSpec`: time passes and a loop runs on (weak fairness). The
  goroutine's lock needs strong fairness, for rounds may take the lock again and
  again; Go's `sync.Mutex` hands it to a waiter that has starved for a
  millisecond.
* `Client!FairSpec`: as in `Invocation`: the timeout of a retry loop fires (weak
  fairness), a request that is sent again and again is handled some time and one
  of the datagrams that come again and again is received (strong fairness).
  Nothing is assumed of the user, of other clients or of the clock. The property
  leaves out a server that is down and an answer too long to be sent, after
  which a retry loop really never ends.
* `Timely`: the receive timeout fires only when no answer can come any more. The
  code's 15 seconds make that likely and do not ensure it. What needs it is
  checked and proved under it, and run `stale_reply` shows what happens without.
* `DistinctTimes`: no two versions of the file have the same modification time.
  The code compares whole seconds; run `same_second` shows what happens without.
  In `Client` the same is said step by step: `early` counts the premature
  timeouts, and `SilentAfterWindow` is about behaviours without any.
* `WriteMayFail` and `MayCrash` are not assumptions about the
  code but which of its error paths a run takes.

## 6 The proofs

Everything is proved for all values of the constants that the modules'
`ASSUME`s allow: any number of clients, calls, subscriptions, files and bytes.
The bounds are constants like the others.

**`InvocationProofs`.** `TypeInvariant`. `IdExecutedOnceHolds` needs no
assumption on the network: its inductive invariant says that under at-most-once,
before a restart, every executed call is the one stored under its identifier and
ran once. `AnsweredIsExecutedHolds`, `OwnAnswerHolds` and `Refinement`
(`ImplementsRemoteCall`) assume `Reliable`: timeouts are timely, and under
at-most-once no two calls share an identifier and the server is not restarted.
`AnsweredIsExecuted` is not inductive: one must know that every reply under way
to a waiting client is for its current call and was executed, that no datagram
is under way to or from a client that does not wait, and that a stored response
is its own call's. `SingleClientRefinement` discharges `Reliable` for one client
with fewer calls than identifiers.
Two theorems say what is left without `Reliable`. `AnswerWasMadeHolds`: even after
premature timeouts and restarts a call returns with an answer that a handler
made, and not with one to a later call of the client; it needs to know that
whatever is in flight, stored or executed belongs to a call made by then
(`MadeInv`). `StoredResponseForRepeatsOnlyHolds` says of run `shared_ids` that
nothing but the shared identifiers is to blame: when no two clients use one
identifier (`ClientsApart`), or under at-least-once, it cannot happen.

**`SubscriptionProofs`.** `TypeInvariant`; `ActiveIsRegisteredHolds`, also when
sends fail, and `RoundReachesHolds`, for the rounds after a failed one; `ReapedHolds`, `NoDuplicatesHolds` and `RoundCompleteHolds` as long as
none has, which the properties say themselves with the history variable
`failed`. During a round the map's slice is longer
than the round's own and holds leftovers, so the invariants speak of both: the
round's slice has no duplicate and holds every subscription of the map's, except
those the round dropped, which have expired; and what lies before the loop's
index was sent to once, what lies behind it not yet. `Refinement`
(`ImplementsRegistry`) goes through the actions one by one: an element taken out
in place is taken out of the set (`ShiftedElements`; or it was there twice, which
needs a failed send before), both of the members and of those still due, and the
other files' sets stay (`OneChanges`). A send that fails needs one more
invariant, `Leftover`: what the map's slice holds beyond the round's own is in
the round's too, or has expired, so that putting the longer slice back into
force brings back expired subscriptions only.

**`FileProofs`.** `WriteIsMeant`, `ReplaceIsMeant` and `DeleteIsMeant`: for every
file, content and offset that passes the checks, the buffer the service
assembles is the reference `Splice`. From these and the stages of the write
`TypeInvariant`, `UpdateIsMeantHolds` and `TornIsPrefixHolds`, with the
inductive `FileInv`: while the handler is in a stage, `buf` is the meant content
of the request for `before`, and the disk holds `before` (to be opened), nothing
(to be written) or `buf` (to be notified).
`NotifiedIsOnDiskHolds` adds that nothing has been sent before the handler's
last stage, and `OnlyOverrunPanicsHolds` follows from the sums that cannot wrap
round. `ReplaceMayRepeatHolds` and `DeleteUndoesWriteHolds` are laws of `Splice`
(`SpliceTwice`, `SpliceBack`) carried over by what the services are proved to
assemble; `Passed` says that a request whose handler is at work, or was
successful, had passed its checks. `Refinement` (`ImplementsFileStore`) puts them
together: a request that comes is an `Attend` of `FileStore`, and the other steps
of the server are stutters but for the one that ends an update, which is an
`Insert`, `Replace` or `Delete`, whole and announced, or broken off
(`UpdateBreaks`) with the prefix that the stage left. It holds for any number of
files; the run has one.

**`CacheProofs`.** `TypeInvariant`, `PrefixIsReadHolds`, and under
`DistinctTimes` `EntryWasCurrentHolds`, `ServedIsRecentHolds` and
`ReadsGoForwardHolds`. The inductive `VersionInv` says that the entry's
`tmclient` is never later than the file's current modification time, and equal
to it only if the entry holds the current version, so that an equal time vouches
for the content; it says the like of the time and the content under way, and
that what was shown last is of the version in the cache. `Refinement`
(`ImplementsRecentReads`) needs no more than that and `Held`, that a client with an
entry has shown something: a read from the entry is a `Recall`, a validation a
`Confirm`, a new content a `Fetch`, and the time's arrival, which only leads to
the next request, begins the exchange anew.

**`WireProofs`.** `RequestRoundTrip`: for every type, text, number of a C++ `int`
and size of the receive buffer, a request that fits is validated and unmarshalled
to itself, one that is cut off is refused, and the validation slices past the
buffer exactly for a WRITE or REPLACE whose pathname fills it.
`ResponseRoundTrip` says the like of responses. `MessageIdRoundTrip`: the router
finds the client's identifier where it looks, cut off or not, which is what
`Invocation` takes for granted when it passes identifiers and not bytes;
`DifferentBytes`: only repetitions of one call look alike. They rest on lemmas about fields:
`Number` reads back what `Uint32` wrote (base 256), and a field of a
concatenation is found where the lengths before it put it, cut off or not.

**`ClientProofs`.** All safety properties of run `session`, for buffers, texts,
contents and numbers of any size and any number of calls. `RequestUnderstoodHolds`,
`ReplyUnderstoodHolds`, `OnlyLongPathPanicsHolds` follow from the round trips and
the types of what is on the way. The inductive `BaseInv` adds to the types that
datagrams are of this call or of earlier ones, and of its type if they are of
this one (`Matched`, which gives `OnlyStrangersKillHolds`), and that a window is
less than its interval older than the time `recvfrom` has waited (`Windows`, which
gives `WindowBoundedHolds`). `SilentAfterWindowHolds` needs `Single` besides:
without a premature timeout the current request is on its way, or one answer to
it, never both; so no copy of a SUBSCRIBE is left when its reply opens the
window, and from then on the subscription's remaining time and the window's age
add up to at most the interval.

Only model-checked: liveness (`EveryCallReturns` of both modules,
`EventuallyRemoved`), which rests on fairness and `ENABLED`, out of the proof
system's reach; and the violations. No module declares a recursive operator, and
no proof needs induction over data.

## 7 Disagreements found

Each is a run that TLC finishes with a counterexample; the lines quoted are in
`PROJECT.json`.

* `stale_reply`: replies carry no identifier and any datagram ends a retry loop.
  After a premature timeout the second reply to one call answers the next one,
  whose request may be lost: "at-least-once" (`README.md:9`) is not kept.
* `shared_ids`: the table of responses is keyed by the identifier alone and all
  clients count from 0: a second client's first request is taken for a repeat
  and answered with another's response.
* `stops`: a REPLACE that runs over the end of the file passes the check, which
  looks at the offset only, and a slice expression panics.
* `same_second`: two updates in a second cannot be told apart by the client.
* `keeps_accepting`: notifications have no header and come to the socket of the
  replies; one that ends a retry loop is unmarshalled as a reply, which throws
  outside every `try` and ends the client.
* `cached_range`: an entry that does not start at the file's first byte answers
  with other bytes than those asked for, or makes the client throw.

More that the modules show and no run lists:

* After a failed send `Reaped` need not hold. A send that fails in
  the middle of a round (`subscribe.go:83`) leaves the map with a slice whose
  array the round has already shifted, so that an entry is in it twice; the
  goroutine removes only the first, and the second stays until a later round.
  Until then an update can be sent to it twice, but to everyone it is due to
  (`RoundReaches`).
* The table of responses is lost in a restart: `IdExecutedOnce` is stated until
  then.
* `cacheWrite` computes new timestamps for an existing entry and puts them in a
  copy (`cache.cpp:59-74`), so the entry stays expired. It is then validated
  at the next read: this costs an exchange, never staleness (`EntryWasCurrent`).
* A WRITE or REPLACE with a pathname of 1008 bytes or more, which the prompt
  accepts, makes the server's validation slice past its receive buffer and ends
  the server (`request.go:24`; `OnlyLongPathPanics` says that nothing else does).
* The answer to a READ of more than 4995 bytes is cut off in the client's buffer
  and ends the client (`OnlyStrangersKill`); one of more than 65507 bytes is never
  sent, and the client asks for ever (`unsent` in `EveryCallReturns`).
* A window stays open for up to twice its interval (`WindowBounded`), though the
  subscription has ended by then.

## 8 What is left out

* What a request asks for, in `Invocation`: calls of all types take the same
  loop. What a service answers, in `Client`: the other modules say that.
* The table of responses, in `Client`: under at-most-once a repeated SUBSCRIBE is
  answered from the table and not subscribed again, which makes for fewer
  subscriptions than the model has.
* Which notification comes in which order, in `Client`: datagrams on their way are
  a set, and two equal ones are one. That they are sent as they should is the
  matter of `Subscription` and `FileServer`.
* Choices and inputs that a prompt rejects, for it asks again; and a line of more
  than 1022 bytes, the rest of which the next prompt reads.
* The router's answers to a message without a type or of none it knows, which are
  bare strings: the shipped client sends no such message.
* What the window prints: it receives 256 bytes of a notification, and the rest is
  lost.
* SUBSCRIBE's refusal of a missing file, which changes nothing.
* The cache's other entries: the code keeps one per pathname and never mixes
  them. Two names for one file are two entries, like two clients.
* A reader of the disk other than the server, and errors of `os.ReadFile` other
  than a missing file (the reply is the same).
* Growth of the table of responses: the code has no limit to check.
* After a round that failed, how long the entry it leaves twice stays in the map:
  until a round drops it.
* Start-up, logging, and the programs under `server/tests` and
  `client/tests`, which print sample messages.

## 9 Running it

    tlc -workers 2 -config Invocation_alo_timely.cfg MCInvocation
    tlapm InvocationProofs.tla

Each run takes a few minutes at most, and each proof module one.
`PROJECT.json` has for every property a mutant: a definition changed as a
plausible slip in the code would, under which TLC finds that property violated.
