------------------------------ MODULE Registry ------------------------------
(***************************************************************************)
(* What the registry of subscriptions is to its callers: a set of          *)
(* subscriptions per file.  A round takes the members of one file, in any  *)
(* order: it sends the update to those that are active and drops those     *)
(* that have expired.  A subscription is also dropped by its goroutine,    *)
(* between rounds.  There are no slices, arrays or indices here:           *)
(* Subscription is shown to implement this module.                         *)
(*                                                                         *)
(* A send may fail, which ends the round.  From then on the promise is     *)
(* weaker: some of what was dropped may be back, and a member may have to  *)
(* be visited or dropped more than once.                                   *)
(***************************************************************************)
EXTENDS Naturals

CONSTANTS
  Paths,         \* pathnames
  NoPath,        \* stands for no pathname
  Intervals,     \* monitor intervals
  MaxSubs,       \* bound: subscriptions ever made
  MaxTime        \* bound: length of the clock

VARIABLES
  now,           \* the clock
  made,          \* subscriptions made so far
  pathname,      \* pathname[s]: the file subscription s is for
  expireTime,    \* expireTime[s]: the end of its monitor interval
  members,       \* members[p]: the subscriptions that are registered for p
  sleeping,      \* those whose goroutine is still to come
  notifying,     \* the file of the round under way, or NoPath
  due,           \* members the round still has to visit
  sent,          \* sent[s]: sends of the round to s, 0, 1, or 2 for more
  broken         \* a send has failed

vars == <<now, made, pathname, expireTime, members, sleeping, notifying, due,
          sent, broken>>

Subs == 1..MaxSubs

Init ==
  /\ now = 0
  /\ made = 0
  /\ pathname = [s \in Subs |-> NoPath]
  /\ expireTime = [s \in Subs |-> 0]
  /\ members = [p \in Paths |-> {}]
  /\ sleeping = {}
  /\ notifying = NoPath
  /\ due = {}
  /\ sent = [s \in Subs |-> 0]
  /\ broken = FALSE

Expired(s) == now >= expireTime[s]

\* What may be left of S when s is taken from it.
Without(S, s) == {S \ {s}} \cup (IF broken THEN {S} ELSE {})

Tick ==
  /\ now < MaxTime
  /\ now' = now + 1
  /\ UNCHANGED <<made, pathname, expireTime, members, sleeping, notifying, due,
                 sent, broken>>

Subscribe(p, interval) ==
  /\ notifying = NoPath
  /\ made < MaxSubs
  /\ now + interval <= MaxTime
  /\ made' = made + 1
  /\ pathname' = [pathname EXCEPT ![made + 1] = p]
  /\ expireTime' = [expireTime EXCEPT ![made + 1] = now + interval]
  /\ members' = [members EXCEPT ![p] = @ \cup {made + 1}]
  /\ sleeping' = sleeping \cup {made + 1}
  /\ UNCHANGED <<now, notifying, due, sent, broken>>

\* A round begins, with every member of the file.
Notify(p) ==
  /\ notifying = NoPath
  /\ notifying' = p
  /\ due' = members[p]
  /\ sent' = [s \in Subs |-> 0]
  /\ UNCHANGED <<now, made, pathname, expireTime, members, sleeping, broken>>

Send(s) ==
  /\ s \in due
  /\ ~Expired(s)
  /\ sent' = [sent EXCEPT ![s] = IF @ = 2 THEN 2 ELSE @ + 1]
  /\ due' \in Without(due, s)
  /\ UNCHANGED <<now, made, pathname, expireTime, members, sleeping, notifying,
                 broken>>

Drop(s) ==
  /\ s \in due
  /\ Expired(s)
  /\ due' \in Without(due, s)
  /\ \E rest \in Without(members[notifying], s) :
       members' = [members EXCEPT ![notifying] = rest]
  /\ UNCHANGED <<now, made, pathname, expireTime, sleeping, notifying, sent, broken>>

\* No member is left to visit.
Finish ==
  /\ notifying # NoPath
  /\ due = {}
  /\ notifying' = NoPath
  /\ UNCHANGED <<now, made, pathname, expireTime, members, sleeping, due, sent, broken>>

\* The round is given up; of those that expired some may be members again.
Break ==
  /\ \E s \in due : ~Expired(s)
  /\ \E back \in SUBSET {t \in 1..made : pathname[t] = notifying /\ Expired(t)} :
       members' = [members EXCEPT ![notifying] = @ \cup back]
  /\ notifying' = NoPath
  /\ due' = {}
  /\ broken' = TRUE
  /\ UNCHANGED <<now, made, pathname, expireTime, sleeping, sent>>

\* The goroutine of s comes, when its time is over and no round is under way.
Expire(s) ==
  /\ s \in sleeping
  /\ Expired(s)
  /\ notifying = NoPath
  /\ sleeping' = sleeping \ {s}
  /\ \E rest \in Without(members[pathname[s]], s) :
       members' = [members EXCEPT ![pathname[s]] = rest]
  /\ UNCHANGED <<now, made, pathname, expireTime, notifying, due, sent, broken>>

Next ==
  \/ Tick
  \/ \E p \in Paths, interval \in Intervals : Subscribe(p, interval)
  \/ \E p \in Paths : Notify(p)
  \/ \E s \in due : Send(s) \/ Drop(s)
  \/ Finish \/ Break
  \/ \E s \in sleeping : Expire(s)

Spec == Init /\ [][Next]_vars

=============================================================================
