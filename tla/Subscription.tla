---------------------------- MODULE Subscription ----------------------------
(***************************************************************************)
(* The server's registry of subscriptions                                  *)
(* (server/apis/subscribe/service/subscribe.go): the packet loop subscribes*)
(* clients and notifies them of updates, and a goroutine per subscription  *)
(* removes it when its monitor interval is over.  They share, under        *)
(* subscriptionsMu, a map of slices.                                       *)
(*                                                                         *)
(* A slice is a backing array and a length.  NotifySubscribers works on a  *)
(* slice of its own over the map's backing array, shortens it in place,    *)
(* and puts it into the map when it is through.  A subscription is a       *)
(* number, in the order of making (the code compares pointers); a client   *)
(* that asks twice has two.                                                *)
(***************************************************************************)
EXTENDS Naturals

CONSTANTS
  Paths,         \* pathnames, the map's keys
  NoPath,        \* stands for no pathname
  Intervals,     \* monitor intervals clients ask for; 0 is one
  MaxSubs,       \* bound: subscriptions ever made
  MaxTime        \* bound: length of the clock

ASSUME SubscriptionAssumption ==
  /\ NoPath \notin Paths
  /\ Intervals \subseteq Nat
  /\ MaxSubs \in Nat
  /\ MaxTime \in Nat

VARIABLES
  now,           \* the clock
  made,          \* subscriptions made so far
  pathname,      \* pathname[s]: the file subscription s is for
  expireTime,    \* expireTime[s]: the end of its monitor interval
  backing,       \* backing[p]: the array under subscriptions[p]
  length,        \* length[p]: len(subscriptions[p]), 0 when there is no entry
  sleeping,      \* subscriptions whose goroutine has not done its work
  notifying,     \* the file NotifySubscribers holds the lock for, or NoPath
  i,             \* its loop index
  n,             \* len(subs), its own slice over backing[notifying]
  sent,          \* history: sends of the round to each, 0, 1, or 2 for more
  failed         \* history: a send has failed

subscriptionVars == <<made, pathname, expireTime>>
registryVars == <<backing, length>>
roundVars == <<notifying, i, n, sent>>
vars == <<now, subscriptionVars, registryVars, sleeping, roundVars, failed>>

Subs == 1..MaxSubs
Made == 1..made

TypeOK ==
  /\ now \in 0..MaxTime
  /\ made \in 0..MaxSubs
  /\ pathname \in [Subs -> Paths \cup {NoPath}]
  /\ expireTime \in [Subs -> 0..MaxTime]
  /\ backing \in [Paths -> [Subs -> 0..MaxSubs]]
  /\ length \in [Paths -> 0..MaxSubs]
  /\ sleeping \subseteq Made
  /\ notifying \in Paths \cup {NoPath}
  /\ i \in 1..(MaxSubs + 1)
  /\ n \in 0..MaxSubs
  /\ sent \in [Subs -> 0..2]
  /\ failed \in BOOLEAN
  /\ \A s \in Made : pathname[s] \in Paths
  /\ \A p \in Paths : \A k \in 1..length[p] :
       backing[p][k] \in Made /\ pathname[backing[p][k]] = p

Init ==
  /\ now = 0
  /\ made = 0
  /\ pathname = [s \in Subs |-> NoPath]
  /\ expireTime = [s \in Subs |-> 0]
  /\ backing = [p \in Paths |-> [k \in Subs |-> 0]]
  /\ length = [p \in Paths |-> 0]
  /\ sleeping = {}
  /\ notifying = NoPath
  /\ i = 1
  /\ n = 0
  /\ sent = [s \in Subs |-> 0]
  /\ failed = FALSE

Expired(s) == now >= expireTime[s]

RemovedNext(a, k, len) ==
  [j \in Subs |-> IF j \in (k + 1)..(len - 1) THEN a[j + 1] ELSE a[j]]
CutShort(a, k, len) == a

\* append(a[:k], a[k+1:len]...), in place.
Removed(a, k, len) ==
  [j \in Subs |-> IF j \in k..(len - 1) THEN a[j + 1] ELSE a[j]]

LockIgnored == TRUE

\* Only NotifySubscribers holds the lock for more than one step.
LockFree == notifying = NoPath

-----------------------------------------------------------------------------
Tick ==
  /\ now < MaxTime
  /\ now' = now + 1
  /\ UNCHANGED <<subscriptionVars, registryVars, sleeping, roundVars, failed>>

LastIndex(p) == length[p]

\* Where append puts a new element.
FreeIndex(p) == length[p] + 1

\* Subscribe for an existing file, with its goroutine started.  The packet
\* loop runs one handler at a time, so no round is under way.
Subscribe(p, interval) ==
  /\ notifying = NoPath
  /\ made < MaxSubs
  /\ now + interval <= MaxTime
  /\ LET s == made + 1
     IN  /\ made' = s
         /\ pathname' = [pathname EXCEPT ![s] = p]
         /\ expireTime' = [expireTime EXCEPT ![s] = now + interval]
         /\ backing' = [backing EXCEPT ![p][FreeIndex(p)] = s]
         /\ length' = [length EXCEPT ![p] = @ + 1]
         /\ sleeping' = sleeping \cup {s}
  /\ UNCHANGED <<now, roundVars, failed>>

\* A write, replace or delete of p succeeded: NotifySubscribers takes the lock.
Notify(p) ==
  /\ notifying = NoPath
  /\ notifying' = p
  /\ i' = 1
  /\ n' = length[p]
  /\ sent' = [s \in Subs |-> 0]
  /\ UNCHANGED <<now, subscriptionVars, registryVars, sleeping, failed>>

\* The subscriber the loop of NotifySubscribers is at.
Subscriber == backing[notifying][i]

InRound == notifying # NoPath /\ i <= n

\* Still active: send it the updated content.
Send ==
  /\ InRound
  /\ ~Expired(Subscriber)
  /\ sent' = [sent EXCEPT ![Subscriber] = IF @ = 2 THEN 2 ELSE @ + 1]
  /\ i' = i + 1
  /\ UNCHANGED <<now, subscriptionVars, registryVars, sleeping, notifying, n, failed>>

\* SendToClient returns an error (an update too long for a datagram): so does
\* NotifySubscribers, with the deferred unlock, and the map keeps the slice it had.
SendFails ==
  /\ InRound
  /\ ~Expired(Subscriber)
  /\ notifying' = NoPath
  /\ failed' = TRUE
  /\ UNCHANGED <<now, subscriptionVars, registryVars, sleeping, i, n, sent>>

SkipsOne == i + 1

\* The subscriber that moved up is at the same index.
IndexAfterDrop == i

\* Expired: removed from subs, in place.
Drop ==
  /\ InRound
  /\ Expired(Subscriber)
  /\ backing' = [backing EXCEPT ![notifying] = Removed(@, i, n)]
  /\ n' = n - 1
  /\ i' = IndexAfterDrop
  /\ UNCHANGED <<now, subscriptionVars, length, sleeping, notifying, sent, failed>>

FinishForgets ==
  /\ notifying # NoPath
  /\ i > n
  /\ notifying' = NoPath
  /\ UNCHANGED <<now, subscriptionVars, registryVars, sleeping, i, n, sent, failed>>

\* End of the loop: the map gets the slice (or loses its entry); unlock.
Finish ==
  /\ notifying # NoPath
  /\ i > n
  /\ length' = [length EXCEPT ![notifying] = n]
  /\ notifying' = NoPath
  /\ UNCHANGED <<now, subscriptionVars, backing, sleeping, i, n, sent, failed>>

\* Where s is first in the slice of its file.
IsAt(s, k) ==
  /\ k \in 1..length[pathname[s]]
  /\ backing[pathname[s]][k] = s
  /\ \A j \in 1..(k - 1) : backing[pathname[s]][j] # s

\* The goroutine of s, its sleep over, takes the lock and removes s.
Expire(s) ==
  /\ s \in sleeping
  /\ Expired(s)
  /\ LockFree
  /\ \/ \E k \in Subs :
          /\ IsAt(s, k)
          /\ backing' = [backing EXCEPT
               ![pathname[s]] = Removed(@, k, length[pathname[s]])]
          /\ length' = [length EXCEPT ![pathname[s]] = @ - 1]
     \/ /\ \A k \in Subs : ~IsAt(s, k)
        /\ UNCHANGED registryVars
  /\ sleeping' = sleeping \ {s}
  /\ UNCHANGED <<now, subscriptionVars, roundVars, failed>>

-----------------------------------------------------------------------------
Next ==
  \/ Tick
  \/ \E p \in Paths, interval \in Intervals : Subscribe(p, interval)
  \/ \E p \in Paths : Notify(p)
  \/ Send \/ SendFails \/ Drop \/ Finish
  \/ \E s \in Subs : Expire(s)

Spec == Init /\ [][Next]_vars

(***************************************************************************)
(* Fairness.  Time passes, the loop of NotifySubscribers runs to its end,  *)
(* and a goroutine that waits for the lock gets it although rounds take it *)
(* again and again: sync.Mutex hands it to a waiter of more than 1 ms.     *)
(***************************************************************************)
FairSpec ==
  /\ Spec
  /\ WF_vars(Tick)
  /\ WF_vars(Send \/ Drop \/ Finish)
  /\ \A s \in Subs : SF_vars(Expire(s))

-----------------------------------------------------------------------------
(***************************************************************************)
(* Properties.                                                             *)
(***************************************************************************)

Registered(s) ==
  \E k \in 1..length[pathname[s]] : backing[pathname[s]][k] = s

\* A subscription is in the registry for its whole interval, whoever removes
\* others before and after it, in the middle of a round and when one failed.
ActiveIsRegistered ==
  \A s \in Made : ~Expired(s) => Registered(s)

\* The goroutine removes its subscription: once it has run, the registry does
\* not hold it (the comment at subscribe.go:52).  This and what follows holds as
\* long as no send has failed: the round that stops there leaves its last
\* entries in the map's slice twice.
Reaped ==
  ~failed => \A s \in Made \ sleeping : ~Registered(s)

\* Between rounds no subscription is in the registry twice.
NoDuplicates ==
  ~failed /\ notifying = NoPath =>
    \A p \in Paths : \A j, k \in 1..length[p] :
      backing[p][j] = backing[p][k] => j = k

\* When a round comes to its end every subscriber of the file whose interval
\* is not over was sent the update exactly once, and no one more than once or
\* for another file, although the loop removes entries while it goes.
RoundComplete ==
  [][ Finish /\ ~failed => \A s \in Made :
        /\ pathname[s] = notifying /\ ~Expired(s) => sent[s] = 1
        /\ sent[s] <= 1
        /\ sent[s] > 0 => pathname[s] = notifying ]_vars

\* Also after rounds that failed, and whatever they left twice in the slice: a
\* round that comes to its end passed over no subscriber that is still active,
\* and sent nothing to the subscribers of another file.
RoundReaches ==
  [][ Finish => \A s \in Made :
        IF pathname[s] = notifying THEN ~Expired(s) => sent[s] > 0
                                   ELSE sent[s] = 0 ]_vars

\* The elements that count: those of the round's own slice while it lasts.
Live(p) == IF notifying = p THEN n ELSE length[p]

\* Slices that share arrays, shortened in place while a loop runs over them,
\* behave as the sets of module Registry: rounds visit every member, active ones
\* get the update once, and only what has expired is removed; and what a failed
\* send leaves behind is no worse than Registry allows.
Sets == INSTANCE Registry WITH
  members <- [p \in Paths |-> {backing[p][k] : k \in 1..Live(p)}],
  due <- IF notifying = NoPath THEN {} ELSE {backing[notifying][k] : k \in i..n},
  broken <- failed
ImplementsRegistry == Sets!Spec

\* No subscription stays in the registry for ever.
EventuallyRemoved ==
  \A s \in Subs :
    (s \in Made /\ Registered(s)) ~> (s \in Made /\ (failed \/ ~Registered(s)))

=============================================================================
