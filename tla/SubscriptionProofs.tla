------------------------- MODULE SubscriptionProofs -------------------------
(***************************************************************************)
(* Proofs about Subscription, for any pathnames, intervals and bounds.     *)
(***************************************************************************)
EXTENDS Subscription, TLAPS

(***************************************************************************)
(* Removal from a slice in place.                                          *)
(***************************************************************************)

\* Elements before the removed one stay, those after it move down by one, and
\* the array from the old end on is left as it was.
LEMMA RemovedElements ==
  ASSUME NEW a \in [Subs -> 0..MaxSubs], NEW len \in 1..MaxSubs, NEW k \in 1..len
  PROVE  /\ Removed(a, k, len) \in [Subs -> 0..MaxSubs]
         /\ \A m \in 1..(len - 1) :
              Removed(a, k, len)[m] = IF m < k THEN a[m] ELSE a[m + 1]
         /\ \A m \in len..MaxSubs : Removed(a, k, len)[m] = a[m]
BY SubscriptionAssumption DEF Removed, Subs

(***************************************************************************)
(* Type correctness.                                                       *)
(***************************************************************************)

\* Within its loop NotifySubscribers works on a part of what the map holds.
WithinMap ==
  /\ \A p \in Paths : length[p] <= made
  /\ notifying # NoPath => i <= n + 1 /\ n <= length[notifying]

TypeInv == TypeOK /\ WithinMap

\* What Subscribe leaves in the map: the slices it had, and one element more.
LEMMA SubscribeElements ==
  ASSUME TypeInv, NEW p \in Paths, NEW interval \in Intervals,
         Subscribe(p, interval)
  PROVE  /\ made' = made + 1 /\ made' \in Subs
         /\ pathname' = [pathname EXCEPT ![made + 1] = p]
         /\ expireTime' = [expireTime EXCEPT ![made + 1] = now + interval]
         /\ now + interval \in 0..MaxTime
         /\ backing' \in [Paths -> [Subs -> 0..MaxSubs]]
         /\ length' \in [Paths -> 0..MaxSubs]
         /\ \A q \in Paths : length'[q] = IF q = p THEN length[q] + 1 ELSE length[q]
         /\ \A q \in Paths : \A k \in 1..length[q] : backing'[q][k] = backing[q][k]
         /\ backing'[p][length[p] + 1] = made + 1
<1>. USE SubscriptionAssumption
<1>1. /\ made + 1 \in Subs
      /\ now + interval \in 0..MaxTime
      /\ length[p] + 1 \in Subs
      /\ length[p] \in 0..MaxSubs
  BY DEF Subscribe, TypeInv, TypeOK, WithinMap, Subs
<1>. DEFINE b == [backing[p] EXCEPT ![length[p] + 1] = made + 1]
<1>2. backing' = [backing EXCEPT ![p] = b]
  BY DEF Subscribe, FreeIndex, TypeInv, TypeOK
<1>3. backing[p] \in [Subs -> 0..MaxSubs]
  BY DEF TypeInv, TypeOK
<1>4. /\ b \in [Subs -> 0..MaxSubs]
      /\ b[length[p] + 1] = made + 1
      /\ \A k \in 1..length[p] : b[k] = backing[p][k]
  <2>1. made + 1 \in 0..MaxSubs
    BY <1>1 DEF Subs
  <2>2. 1..length[p] \subseteq Subs
    BY <1>1 DEF Subs
  <2>3. \A k \in 1..length[p] : k # length[p] + 1
    BY <1>1
  <2>. QED  BY <1>1, <1>3, <2>1, <2>2, <2>3
<1>. HIDE DEF b
<1>5. /\ backing' \in [Paths -> [Subs -> 0..MaxSubs]]
      /\ \A q \in Paths : backing'[q] = IF q = p THEN b ELSE backing[q]
  BY <1>2, <1>4 DEF TypeInv, TypeOK
<1>6. /\ length' \in [Paths -> 0..MaxSubs]
      /\ \A q \in Paths : length'[q] = IF q = p THEN length[q] + 1 ELSE length[q]
  BY <1>1 DEF Subscribe, TypeInv, TypeOK, Subs
<1>. QED
  BY <1>1, <1>4, <1>5, <1>6 DEF Subscribe

\* What Drop leaves of the slice of the round, and of the rest of the map.
LEMMA DropElements ==
  ASSUME TypeInv, Drop
  PROVE  /\ notifying \in Paths /\ n \in 1..MaxSubs /\ i \in 1..n
         /\ n' = n - 1 /\ i' = i
         /\ backing' \in [Paths -> [Subs -> 0..MaxSubs]]
         /\ \A q \in Paths : q # notifying => backing'[q] = backing[q]
         /\ \A m \in 1..(n - 1) : backing'[notifying][m] =
              IF m < i THEN backing[notifying][m] ELSE backing[notifying][m + 1]
         /\ \A m \in n..MaxSubs : backing'[notifying][m] = backing[notifying][m]
<1>1. /\ notifying \in Paths /\ n \in 1..MaxSubs /\ i \in 1..n
      /\ n' = n - 1 /\ i' = i
  BY SubscriptionAssumption
     DEF Drop, InRound, IndexAfterDrop, TypeInv, TypeOK, WithinMap
<1>2. backing[notifying] \in [Subs -> 0..MaxSubs]
  BY <1>1 DEF TypeInv, TypeOK
<1>. DEFINE b == Removed(backing[notifying], i, n)
<1>3. /\ b \in [Subs -> 0..MaxSubs]
      /\ \A m \in 1..(n - 1) : b[m] =
           IF m < i THEN backing[notifying][m] ELSE backing[notifying][m + 1]
      /\ \A m \in n..MaxSubs : b[m] = backing[notifying][m]
  BY <1>1, <1>2, RemovedElements
<1>4. backing' = [backing EXCEPT ![notifying] = b]
  BY DEF Drop
<1>. HIDE DEF b
<1>5. /\ backing' \in [Paths -> [Subs -> 0..MaxSubs]]
      /\ backing'[notifying] = b
      /\ \A q \in Paths : q # notifying => backing'[q] = backing[q]
  BY <1>1, <1>3, <1>4 DEF TypeInv, TypeOK
<1>. QED  BY <1>1, <1>3, <1>5

\* What the goroutine of s leaves of the slice it finds s in.
LEMMA ExpireElements ==
  ASSUME TypeInv, NEW s \in Subs, Expire(s), NEW k \in Subs, IsAt(s, k),
         backing' = [backing EXCEPT
           ![pathname[s]] = Removed(@, k, length[pathname[s]])],
         length' = [length EXCEPT ![pathname[s]] = @ - 1]
  PROVE  /\ backing' \in [Paths -> [Subs -> 0..MaxSubs]]
         /\ length' \in [Paths -> 0..MaxSubs]
         /\ \A q \in Paths : q # pathname[s] =>
              backing'[q] = backing[q] /\ length'[q] = length[q]
         /\ \A q \in Paths : q = pathname[s] =>
              /\ length[q] \in 1..MaxSubs /\ k \in 1..length[q]
              /\ length'[q] = length[q] - 1
              /\ \A m \in 1..(length[q] - 1) : backing'[q][m] =
                   IF m < k THEN backing[q][m] ELSE backing[q][m + 1]
<1>. DEFINE p == pathname[s]
            b == Removed(backing[p], k, length[p])
<1>1. p \in Paths /\ length[p] \in 1..MaxSubs /\ k \in 1..length[p]
  BY SubscriptionAssumption DEF Expire, IsAt, TypeInv, TypeOK
<1>2. backing[p] \in [Subs -> 0..MaxSubs]
  BY <1>1 DEF TypeInv, TypeOK
<1>3. /\ b \in [Subs -> 0..MaxSubs]
      /\ \A m \in 1..(length[p] - 1) :
           b[m] = IF m < k THEN backing[p][m] ELSE backing[p][m + 1]
  BY <1>1, <1>2, RemovedElements
<1>4. /\ backing' = [backing EXCEPT ![p] = b]
      /\ length' = [length EXCEPT ![p] = length[p] - 1]
  OBVIOUS
<1>. HIDE DEF p, b
<1>5. /\ backing' \in [Paths -> [Subs -> 0..MaxSubs]]
      /\ backing'[p] = b
      /\ length' \in [Paths -> 0..MaxSubs]
      /\ length'[p] = length[p] - 1
      /\ \A q \in Paths : q # p =>
           backing'[q] = backing[q] /\ length'[q] = length[q]
  <2>1. backing \in [Paths -> [Subs -> 0..MaxSubs]] /\ length \in [Paths -> 0..MaxSubs]
    BY DEF TypeInv, TypeOK
  <2>2. length[p] - 1 \in 0..MaxSubs
    BY <1>1, SubscriptionAssumption
  <2>. QED  BY <1>1, <1>3, <1>4, <2>1, <2>2
<1>. QED  BY <1>1, <1>3, <1>5 DEF p

LEMMA TypeInvNext == TypeInv /\ [Next]_vars => TypeInv'
<1>. SUFFICES ASSUME TypeInv, [Next]_vars
              PROVE  TypeInv'
  OBVIOUS
<1>. USE SubscriptionAssumption
     DEF TypeInv, subscriptionVars, registryVars, roundVars
<1>1. CASE Tick
  BY <1>1 DEF Tick, TypeOK, WithinMap, Made
<1>2. ASSUME NEW p \in Paths, NEW interval \in Intervals, Subscribe(p, interval)
      PROVE  TypeInv'
  <2>1. /\ made' = made + 1 /\ made' \in Subs
        /\ pathname' = [pathname EXCEPT ![made + 1] = p]
        /\ expireTime' = [expireTime EXCEPT ![made + 1] = now + interval]
        /\ now + interval \in 0..MaxTime
        /\ backing' \in [Paths -> [Subs -> 0..MaxSubs]]
        /\ length' \in [Paths -> 0..MaxSubs]
        /\ \A q \in Paths : length'[q] = IF q = p THEN length[q] + 1 ELSE length[q]
        /\ \A q \in Paths : \A k \in 1..length[q] : backing'[q][k] = backing[q][k]
        /\ backing'[p][length[p] + 1] = made + 1
    BY <1>2, SubscribeElements
  <2>2. sleeping' \subseteq Made' /\ UNCHANGED <<now, roundVars, failed>>
    BY <1>2, <2>1 DEF Subscribe, TypeOK, Made, Subs
  <2>3. /\ pathname' \in [Subs -> Paths \cup {NoPath}]
        /\ expireTime' \in [Subs -> 0..MaxTime]
    BY <2>1 DEF TypeOK
  <2>4. \A s \in Made : pathname'[s] = pathname[s] /\ s \in Made'
    BY <2>1 DEF TypeOK, Made, Subs
  <2>5. made + 1 \in Made' /\ pathname'[made + 1] = p
    BY <2>1 DEF TypeOK, Made, Subs
  <2>6. \A s \in Made' : pathname'[s] \in Paths
    BY <2>1, <2>4, <2>5 DEF TypeOK, Made
  <2>7. ASSUME NEW q \in Paths, NEW k \in 1..length'[q]
        PROVE  backing'[q][k] \in Made' /\ pathname'[backing'[q][k]] = q
    <3>1. CASE k \in 1..length[q]
      BY <2>1, <2>4, <3>1 DEF TypeOK
    <3>2. CASE k \notin 1..length[q]
      <4>1. length[q] \in 0..MaxSubs /\ length'[q] = IF q = p THEN length[q] + 1 ELSE length[q]
        BY <2>1 DEF TypeOK
      <4>2. q = p /\ k = length[p] + 1
        BY <3>2, <4>1
      <4>. QED  BY <2>1, <2>5, <4>2
    <3>. QED  BY <3>1, <3>2
  <2>8. WithinMap'
    BY <1>2, <2>1, <2>2 DEF Subscribe, TypeOK, WithinMap
  <2>9. made' \in 0..MaxSubs
    BY <2>1 DEF Subs
  <2>. QED
    BY <2>1, <2>2, <2>3, <2>6, <2>7, <2>8, <2>9 DEF TypeOK
<1>3. ASSUME NEW p \in Paths, Notify(p)
      PROVE  TypeInv'
  <2>1. n' = length[p] /\ n' \in 0..MaxSubs /\ i' = 1 /\ notifying' = p
    BY <1>3 DEF Notify, TypeOK
  <2>2. sent' \in [Subs -> 0..2]
    BY <1>3 DEF Notify
  <2>. QED
    BY <1>3, <2>1, <2>2 DEF Notify, TypeOK, WithinMap, Made
<1>4. CASE Send
  <2>1. sent' \in [Subs -> 0..2]
    <3>1. notifying \in Paths /\ i \in 1..length[notifying]
      BY <1>4 DEF Send, InRound, TypeOK, WithinMap
    <3>2. Subscriber \in Made
      BY <3>1 DEF Subscriber, TypeOK
    <3>3. Subscriber \in Subs
      BY <3>2 DEF Made, Subs, TypeOK
    <3>4. sent \in [Subs -> 0..2] /\ sent[Subscriber] \in 0..2
      BY <3>3 DEF TypeOK
    <3>. QED  BY <1>4, <3>3, <3>4 DEF Send
  <2>2. i' \in 1..(MaxSubs + 1) /\ WithinMap'
    BY <1>4 DEF Send, InRound, TypeOK, WithinMap
  <2>. QED
    BY <1>4, <2>1, <2>2 DEF Send, TypeOK, Made
<1>5. CASE SendFails
  BY <1>5 DEF SendFails, TypeOK, WithinMap, Made
<1>6. CASE Drop
  <2>1. ASSUME NEW q \in Paths, NEW k \in 1..length[q]
        PROVE  backing'[q][k] \in Made /\ pathname[backing'[q][k]] = q
    <3>1. \E m \in 1..length[q] : backing'[q][k] = backing[q][m]
      <4>1. CASE q = notifying
        <5>1. length[q] \in 0..MaxSubs /\ n <= length[q]
          BY <1>6, <4>1, DropElements DEF TypeOK, WithinMap
        <5>. QED  BY <1>6, <4>1, <5>1, DropElements
      <4>2. CASE q # notifying
        BY <1>6, <4>2, DropElements
      <4>. QED  BY <4>1, <4>2
    <3>. QED  BY <3>1 DEF TypeOK
  <2>2. UNCHANGED <<now, made, pathname, expireTime, length, sleeping, notifying, sent, failed>>
    BY <1>6 DEF Drop
  <2>3. i' \in 1..(MaxSubs + 1) /\ n' \in 0..MaxSubs /\ WithinMap'
    BY <1>6, <2>2, DropElements DEF TypeOK, WithinMap
  <2>. QED
    BY <1>6, <2>1, <2>2, <2>3, DropElements DEF TypeOK, Made
<1>7. CASE Finish
  <2>1. length' \in [Paths -> 0..MaxSubs]
    BY <1>7 DEF Finish, TypeOK, WithinMap
  <2>2. \A q \in Paths : length'[q] <= length[q]
    BY <1>7 DEF Finish, TypeOK, WithinMap
  <2>. QED
    BY <1>7, <2>1, <2>2 DEF Finish, TypeOK, WithinMap, Made
<1>8. ASSUME NEW s \in Subs, Expire(s)
      PROVE  TypeInv'
  <2>1. CASE UNCHANGED registryVars
    BY <1>8, <2>1 DEF Expire, LockFree, TypeOK, WithinMap, Made
  <2>2. ASSUME NEW k \in Subs, IsAt(s, k),
               backing' = [backing EXCEPT
                 ![pathname[s]] = Removed(@, k, length[pathname[s]])],
               length' = [length EXCEPT ![pathname[s]] = @ - 1]
        PROVE  TypeInv'
    <3>0. \A q \in Paths :
            \/ backing'[q] = backing[q] /\ length'[q] = length[q]
            \/ /\ length[q] \in 1..MaxSubs /\ length'[q] = length[q] - 1
               /\ \A j \in 1..(length[q] - 1) : backing'[q][j] =
                    IF j < k THEN backing[q][j] ELSE backing[q][j + 1]
      BY <1>8, <2>2, ExpireElements
    <3>1. ASSUME NEW q \in Paths, NEW m \in 1..length'[q]
          PROVE  backing'[q][m] \in Made /\ pathname[backing'[q][m]] = q
      <4>1. \E j \in 1..length[q] : backing'[q][m] = backing[q][j]
        <5>1. CASE backing'[q] = backing[q] /\ length'[q] = length[q]
          BY <5>1
        <5>2. CASE ~(backing'[q] = backing[q] /\ length'[q] = length[q])
          <6>1. /\ length[q] \in 1..MaxSubs /\ m \in 1..(length[q] - 1)
                /\ backing'[q][m] =
                     IF m < k THEN backing[q][m] ELSE backing[q][m + 1]
            BY <3>0, <5>2
          <6>. QED  BY <6>1
        <5>. QED  BY <5>1, <5>2
      <4>. QED  BY <4>1 DEF TypeOK
    <3>2. \A q \in Paths : length'[q] <= length[q]
      BY <1>8, <2>2, ExpireElements DEF TypeOK
    <3>3. UNCHANGED <<now, made, pathname, expireTime, notifying, i, n, sent>>
      BY <1>8 DEF Expire
    <3>4. backing' \in [Paths -> [Subs -> 0..MaxSubs]] /\ length' \in [Paths -> 0..MaxSubs]
      BY <1>8, <2>2, ExpireElements
    <3>5. WithinMap'
      BY <1>8, <3>2, <3>3, <3>4 DEF Expire, LockFree, TypeOK, WithinMap
    <3>. QED
      BY <1>8, <3>1, <3>3, <3>4, <3>5 DEF Expire, TypeOK, Made
  <2>. QED  BY <1>8, <2>1, <2>2 DEF Expire
<1>9. CASE UNCHANGED vars
  BY <1>9 DEF vars, TypeOK, WithinMap, Made
<1>. QED
  BY <1>1, <1>2, <1>3, <1>4, <1>5, <1>6, <1>7, <1>8, <1>9 DEF Next

\* Every reachable state is typed: the map holds only subscriptions made, each
\* under its own pathname, and the loop stays within the array, failed rounds
\* or not.
THEOREM TypeInvariant == Spec => [](TypeOK /\ WithinMap)
<1>1. Init => TypeInv
  <2>1. Init => failed \in BOOLEAN
    BY DEF Init
  <2>. QED  BY <2>1, SubscriptionAssumption DEF Init, TypeInv, TypeOK, WithinMap, Subs, Made
<1>. QED  BY <1>1, TypeInvNext, PTL DEF Spec, TypeInv

-----------------------------------------------------------------------------
(***************************************************************************)
(* No active subscription is lost.                                         *)
(***************************************************************************)

ActiveIsLive ==
  \A s \in Made : ~Expired(s) =>
    \E k \in 1..Live(pathname[s]) : backing[pathname[s]][k] = s

LEMMA LiveIsRegistered == TypeInv /\ ActiveIsLive => ActiveIsRegistered
<1>. SUFFICES ASSUME TypeInv, ActiveIsLive, NEW s \in Made, ~Expired(s)
              PROVE  Registered(s)
  BY DEF ActiveIsRegistered
<1>1. PICK k \in 1..Live(pathname[s]) : backing[pathname[s]][k] = s
  BY DEF ActiveIsLive
<1>2. k \in 1..length[pathname[s]]
  BY <1>1, SubscriptionAssumption DEF Live, TypeInv, TypeOK, WithinMap
<1>. QED  BY <1>1, <1>2 DEF Registered

LEMMA ActiveIsLiveNext ==
  ASSUME TypeInv, ActiveIsLive, [Next]_vars
  PROVE  ActiveIsLive'
<1>. USE SubscriptionAssumption
     DEF subscriptionVars, registryVars, roundVars
<1>1. CASE Tick
  <2>1. \A s \in Made : Expired(s) => Expired(s)'
    BY <1>1 DEF Tick, Expired, Made, Subs, TypeInv, TypeOK
  <2>2. \A s \in Made : Live(pathname[s])' = Live(pathname[s])
    BY <1>1 DEF Tick, Live
  <2>. QED  BY <1>1, <2>1, <2>2 DEF Tick, ActiveIsLive, Made
<1>2. ASSUME NEW p \in Paths, NEW interval \in Intervals, Subscribe(p, interval)
      PROVE  ActiveIsLive'
  <2>1. /\ made' = made + 1 /\ made' \in Subs
        /\ pathname' = [pathname EXCEPT ![made + 1] = p]
        /\ expireTime' = [expireTime EXCEPT ![made + 1] = now + interval]
        /\ \A q \in Paths : length'[q] = IF q = p THEN length[q] + 1 ELSE length[q]
        /\ \A q \in Paths : \A k \in 1..length[q] : backing'[q][k] = backing[q][k]
        /\ backing'[p][length[p] + 1] = made + 1
    BY <1>2, SubscribeElements
  <2>2. now' = now /\ notifying = NoPath /\ notifying' = NoPath
    BY <1>2 DEF Subscribe
  <2>3. \A q \in Paths : length[q] \in 0..MaxSubs /\ Live(q) = length[q] /\ Live(q)' = length'[q]
    BY <2>2 DEF Live, TypeInv, TypeOK
  <2>. SUFFICES ASSUME NEW s \in Made', ~Expired(s)'
                PROVE  \E k \in 1..Live(pathname[s])' : backing'[pathname'[s]][k] = s
    BY DEF ActiveIsLive
  <2>4. CASE s = made + 1
    <3>1. pathname'[s] = p
      BY <2>1, <2>4 DEF TypeInv, TypeOK
    <3>2. Live(pathname[s])' = length[p] + 1 /\ length[p] \in Nat
      BY <2>1, <2>2, <2>3, <3>1 DEF Live
    <3>3. length[p] + 1 \in 1..Live(pathname[s])'
      BY <3>2
    <3>. QED  BY <2>1, <2>4, <3>1, <3>3
  <2>5. CASE s # made + 1
    <3>1. s \in Made /\ s \in Subs
      BY <2>1, <2>5 DEF Made, Subs, TypeInv, TypeOK
    <3>2. pathname'[s] = pathname[s] /\ pathname[s] \in Paths /\ ~Expired(s)
      BY <2>1, <2>2, <2>5, <3>1 DEF Expired, TypeInv, TypeOK
    <3>3. PICK k \in 1..Live(pathname[s]) : backing[pathname[s]][k] = s
      BY <3>1, <3>2 DEF ActiveIsLive
    <3>4. k \in 1..length[pathname[s]] /\ k \in 1..length'[pathname[s]]
      BY <2>1, <2>3, <3>2, <3>3
    <3>5. Live(pathname[s])' = length'[pathname[s]]
      BY <2>2, <3>2 DEF Live
    <3>. QED  BY <2>1, <3>2, <3>3, <3>4, <3>5
  <2>. QED  BY <2>4, <2>5
<1>3. ASSUME NEW p \in Paths, Notify(p)
      PROVE  ActiveIsLive'
  <2>1. \A q \in Paths : Live(q)' = Live(q)
    BY <1>3 DEF Notify, Live
  <2>2. \A s \in Made : pathname[s] \in Paths
    BY DEF TypeInv, TypeOK
  <2>. QED  BY <1>3, <2>1, <2>2 DEF Notify, ActiveIsLive, Expired, Made
<1>4. CASE Send
  BY <1>4 DEF Send, ActiveIsLive, Live, Expired, Made
<1>5. CASE SendFails
  <2>1. \A q \in Paths : Live(q) \in 0..MaxSubs /\ Live(q)' \in 0..MaxSubs /\ Live(q) <= Live(q)'
    BY <1>5 DEF SendFails, InRound, Live, TypeInv, TypeOK, WithinMap
  <2>. QED
    BY <1>5, <2>1 DEF SendFails, ActiveIsLive, Expired, Made, TypeInv, TypeOK
<1>6. CASE Drop
  <2>1. /\ notifying \in Paths /\ n \in 1..MaxSubs /\ i \in 1..n /\ n' = n - 1
        /\ \A q \in Paths : q # notifying => backing'[q] = backing[q]
        /\ \A m \in 1..(n - 1) : backing'[notifying][m] =
             IF m < i THEN backing[notifying][m] ELSE backing[notifying][m + 1]
    BY <1>6, DropElements
  <2>2. /\ UNCHANGED <<now, made, pathname, expireTime, length, notifying>>
        /\ Expired(backing[notifying][i])
    BY <1>6 DEF Drop, Subscriber
  <2>. SUFFICES ASSUME NEW s \in Made, ~Expired(s)
                PROVE  \E k \in 1..Live(pathname[s])' : backing'[pathname[s]][k] = s
    BY <2>2 DEF ActiveIsLive, Made, Expired
  <2>3. PICK k \in 1..Live(pathname[s]) : backing[pathname[s]][k] = s
    BY DEF ActiveIsLive
  <2>4. pathname[s] \in Paths
    BY DEF TypeInv, TypeOK
  <2>5. CASE pathname[s] = notifying
    <3>1. k \in 1..n /\ k # i /\ backing[notifying][k] = s
      BY <2>2, <2>3, <2>5 DEF Live
    <3>2. Live(pathname[s])' = n - 1
      BY <2>1, <2>2, <2>5 DEF Live
    <3>3. CASE k < i
      BY <2>1, <2>5, <3>1, <3>2, <3>3
    <3>4. CASE k > i
      <4>1. k - 1 \in 1..(n - 1) /\ ~(k - 1 < i) /\ (k - 1) + 1 = k
        BY <2>1, <3>1, <3>4
      <4>. QED  BY <2>1, <2>5, <3>1, <3>2, <4>1
    <3>. QED  BY <2>1, <3>1, <3>3, <3>4
  <2>6. CASE pathname[s] # notifying
    BY <2>1, <2>2, <2>3, <2>4, <2>6 DEF Live
  <2>. QED  BY <2>5, <2>6
<1>7. CASE Finish
  BY <1>7 DEF Finish, TypeInv, TypeOK, ActiveIsLive, Live, Expired, Made
<1>8. ASSUME NEW s \in Subs, Expire(s)
      PROVE  ActiveIsLive'
  <2>1. /\ UNCHANGED <<now, made, pathname, expireTime, notifying>>
        /\ notifying = NoPath /\ Expired(s)
    BY <1>8 DEF Expire, LockFree
  <2>2. CASE UNCHANGED registryVars
    BY <2>1, <2>2 DEF ActiveIsLive, Live, Expired, Made, TypeInv, TypeOK
  <2>3. ASSUME NEW k \in Subs, IsAt(s, k),
               backing' = [backing EXCEPT
                 ![pathname[s]] = Removed(@, k, length[pathname[s]])],
               length' = [length EXCEPT ![pathname[s]] = @ - 1]
        PROVE  ActiveIsLive'
    <3>. SUFFICES ASSUME NEW t \in Made, ~Expired(t)
                  PROVE  \E m \in 1..Live(pathname[t])' : backing'[pathname[t]][m] = t
      BY <2>1 DEF ActiveIsLive, Made, Expired
    <3>1. /\ \A q \in Paths : q # pathname[s] =>
               backing'[q] = backing[q] /\ length'[q] = length[q]
          /\ \A q \in Paths : q = pathname[s] =>
               /\ length[q] \in 1..MaxSubs /\ k \in 1..length[q]
               /\ length'[q] = length[q] - 1
               /\ \A m \in 1..(length[q] - 1) : backing'[q][m] =
                    IF m < k THEN backing[q][m] ELSE backing[q][m + 1]
      BY <1>8, <2>3, ExpireElements
    <3>. DEFINE p == pathname[t]
    <3>2. p \in Paths /\ Live(p) = length[p] /\ Live(p)' = length'[p]
      BY <2>1 DEF Live, TypeInv, TypeOK
    <3>3. PICK m \in 1..length[p] : backing[p][m] = t
      BY <3>2 DEF ActiveIsLive
    <3>4. CASE p # pathname[s]
      BY <3>1, <3>2, <3>3, <3>4
    <3>5. CASE p = pathname[s]
      <4>1. m # k
        BY <2>1, <2>3, <3>3, <3>5 DEF IsAt
      <4>2. CASE m < k
        BY <3>1, <3>2, <3>3, <3>5, <4>2
      <4>3. CASE m > k
        <5>1. /\ m - 1 \in 1..(length[p] - 1) /\ ~(m - 1 < k) /\ (m - 1) + 1 = m
              /\ length'[p] = length[p] - 1
          BY <3>1, <3>2, <3>3, <3>5, <4>3
        <5>2. backing'[p][m - 1] = t
          BY <3>1, <3>2, <3>3, <3>5, <5>1
        <5>. QED  BY <3>2, <5>1, <5>2
      <4>. QED  BY <3>1, <3>2, <3>3, <3>5, <4>1, <4>2, <4>3
    <3>. QED  BY <3>4, <3>5
  <2>. QED  BY <1>8, <2>2, <2>3 DEF Expire
<1>9. CASE UNCHANGED vars
  BY <1>9 DEF vars, ActiveIsLive, Live, Expired, Made
<1>. QED
  BY <1>1, <1>2, <1>3, <1>4, <1>5, <1>6, <1>7, <1>8, <1>9 DEF Next

\* Whatever is removed before and after it, whatever rounds are under way, and
\* even when rounds fail half way, a subscription stays in the registry for its
\* whole interval.
THEOREM ActiveIsRegisteredHolds == Spec => []ActiveIsRegistered
<1>1. Init => ActiveIsLive
  BY DEF Init, ActiveIsLive, Made
<1>2. TypeInv /\ ActiveIsLive /\ [Next]_vars => ActiveIsLive'
  BY ActiveIsLiveNext
<1>3. Spec => []TypeInv
  BY TypeInvariant DEF TypeInv
<1>. QED  BY <1>1, <1>2, <1>3, LiveIsRegistered, PTL DEF Spec

-----------------------------------------------------------------------------
(***************************************************************************)
(* Rounds and goroutines, as long as no notification fails to be sent.     *)
(***************************************************************************)

\* No element that counts is in its slice twice.
Distinct ==
  \A p \in Paths : \A j, k \in 1..Live(p) : backing[p][j] = backing[p][k] => j = k

\* The map holds only subscriptions whose goroutine is still to come.
OnlySleeping ==
  \A p \in Paths : \A k \in 1..length[p] : backing[p][k] \in sleeping

\* Of the round's slice, those before the index were sent the update once, and
\* nobody else anything more.
SentSoFar ==
  notifying # NoPath =>
    /\ \A k \in 1..n : sent[backing[notifying][k]] = IF k < i THEN 1 ELSE 0
    /\ \A s \in Subs : sent[s] <= 1 /\ (sent[s] > 0 => pathname[s] = notifying)

LEMMA DistinctNext ==
  ASSUME TypeInv, Distinct, ~failed', [Next]_vars
  PROVE  Distinct'
<1>. USE SubscriptionAssumption
     DEF subscriptionVars, registryVars, roundVars
<1>1. ASSUME UNCHANGED registryVars, \A p \in Paths : Live(p)' = Live(p)
      PROVE  Distinct'
  BY <1>1 DEF Distinct
<1>2. CASE Tick \/ Send \/ UNCHANGED vars
  BY <1>1, <1>2 DEF Tick, Send, vars, Live
<1>3. ASSUME NEW p \in Paths, Notify(p)
      PROVE  Distinct'
  BY <1>1, <1>3 DEF Notify, Live
<1>4. CASE Finish
  <2>1. \A p \in Paths : Live(p)' = Live(p)
    BY <1>4 DEF Finish, Live, TypeInv, TypeOK
  <2>. QED  BY <1>4, <2>1 DEF Finish, Distinct
<1>5. ASSUME NEW p \in Paths, NEW interval \in Intervals, Subscribe(p, interval)
      PROVE  Distinct'
  <2>1. /\ made' = made + 1
        /\ \A q \in Paths : length'[q] = IF q = p THEN length[q] + 1 ELSE length[q]
        /\ \A q \in Paths : \A k \in 1..length[q] : backing'[q][k] = backing[q][k]
        /\ backing'[p][length[p] + 1] = made + 1
    BY <1>5, SubscribeElements
  <2>2. \A q \in Paths : /\ length[q] \in 0..MaxSubs
                         /\ Live(q) = length[q] /\ Live(q)' = length'[q]
    BY <1>5 DEF Subscribe, Live, TypeInv, TypeOK
  <2>3. \A q \in Paths : \A k \in 1..length[q] : backing[q][k] # made + 1
    BY DEF TypeInv, TypeOK, Made
  <2>. SUFFICES ASSUME NEW q \in Paths, NEW j \in 1..length'[q], NEW k \in 1..length'[q],
                       backing'[q][j] = backing'[q][k]
                PROVE  j = k
    BY <2>2 DEF Distinct
  <2>4. CASE j \in 1..length[q] /\ k \in 1..length[q]
    BY <2>1, <2>2, <2>4 DEF Distinct
  <2>5. CASE ~(j \in 1..length[q] /\ k \in 1..length[q])
    <3>1. q = p /\ (j = length[p] + 1 \/ k = length[p] + 1)
      BY <2>1, <2>2, <2>5
    <3>2. /\ j \in 1..length[p] \/ j = length[p] + 1
          /\ k \in 1..length[p] \/ k = length[p] + 1
      BY <2>1, <2>2, <3>1
    <3>. QED  BY <2>1, <2>3, <3>1, <3>2
  <2>. QED  BY <2>4, <2>5
<1>6. CASE Drop
  <2>1. /\ notifying \in Paths /\ n \in 1..MaxSubs /\ i \in 1..n /\ n' = n - 1
        /\ \A q \in Paths : q # notifying => backing'[q] = backing[q]
        /\ \A m \in 1..(n - 1) : backing'[notifying][m] =
             IF m < i THEN backing[notifying][m] ELSE backing[notifying][m + 1]
        /\ notifying' = notifying /\ length' = length
    BY <1>6, DropElements DEF Drop
  <2>. SUFFICES ASSUME NEW q \in Paths, NEW j \in 1..Live(q)', NEW k \in 1..Live(q)',
                       backing'[q][j] = backing'[q][k]
                PROVE  j = k
    BY DEF Distinct
  <2>2. CASE q = notifying
    <3>. DEFINE Old(m) == IF m < i THEN m ELSE m + 1
    <3>1. j \in 1..(n - 1) /\ k \in 1..(n - 1)
      BY <2>1, <2>2 DEF Live
    <3>2. \A m \in 1..(n - 1) :
            Old(m) \in 1..n /\ backing'[q][m] = backing[q][Old(m)]
      BY <2>1, <2>2
    <3>3. Old(j) = Old(k)
      BY <2>2, <3>1, <3>2 DEF Distinct, Live
    <3>. QED  BY <2>1, <3>1, <3>3
  <2>3. CASE q # notifying
    BY <2>1, <2>3 DEF Distinct, Live
  <2>. QED  BY <2>2, <2>3
<1>7. ASSUME NEW s \in Subs, Expire(s)
      PROVE  Distinct'
  <2>1. notifying = NoPath /\ notifying' = NoPath
    BY <1>7 DEF Expire, LockFree
  <2>2. CASE UNCHANGED registryVars
    BY <1>1, <2>1, <2>2 DEF Live
  <2>3. ASSUME NEW k \in Subs, IsAt(s, k),
               backing' = [backing EXCEPT
                 ![pathname[s]] = Removed(@, k, length[pathname[s]])],
               length' = [length EXCEPT ![pathname[s]] = @ - 1]
        PROVE  Distinct'
    <3>1. \A q \in Paths :
            \/ backing'[q] = backing[q] /\ length'[q] = length[q]
            \/ /\ length[q] \in 1..MaxSubs /\ length'[q] = length[q] - 1
               /\ \A m \in 1..(length[q] - 1) : backing'[q][m] =
                    IF m < k THEN backing[q][m] ELSE backing[q][m + 1]
      <4>. SUFFICES ASSUME NEW q \in Paths
                    PROVE  \/ backing'[q] = backing[q] /\ length'[q] = length[q]
                           \/ /\ length[q] \in 1..MaxSubs /\ length'[q] = length[q] - 1
                              /\ \A m \in 1..(length[q] - 1) : backing'[q][m] =
                                   IF m < k THEN backing[q][m] ELSE backing[q][m + 1]
        OBVIOUS
      <4>1. /\ q # pathname[s] => backing'[q] = backing[q] /\ length'[q] = length[q]
            /\ q = pathname[s] =>
                 /\ length[q] \in 1..MaxSubs /\ length'[q] = length[q] - 1
                 /\ \A m \in 1..(length[q] - 1) : backing'[q][m] =
                      IF m < k THEN backing[q][m] ELSE backing[q][m + 1]
        BY <1>7, <2>3, ExpireElements, Zenon
      <4>. QED  BY <4>1
    <3>2. \A q \in Paths : Live(q) = length[q] /\ Live(q)' = length'[q]
      BY <2>1 DEF Live
    <3>. SUFFICES ASSUME NEW q \in Paths, NEW j \in 1..length'[q], NEW m \in 1..length'[q],
                         backing'[q][j] = backing'[q][m]
                  PROVE  j = m
      BY <3>2 DEF Distinct
    <3>3. CASE backing'[q] = backing[q] /\ length'[q] = length[q]
      BY <3>2, <3>3 DEF Distinct
    <3>4. CASE ~(backing'[q] = backing[q] /\ length'[q] = length[q])
      <4>. DEFINE Old(x) == IF x < k THEN x ELSE x + 1
      <4>1. /\ length[q] \in 1..MaxSubs /\ length'[q] = length[q] - 1
            /\ \A x \in 1..(length[q] - 1) : backing'[q][x] =
                 IF x < k THEN backing[q][x] ELSE backing[q][x + 1]
        BY <3>1, <3>4
      <4>2. \A x \in 1..(length[q] - 1) :
              Old(x) \in 1..length[q] /\ backing'[q][x] = backing[q][Old(x)]
        BY <4>1 DEF Subs
      <4>3. j \in 1..(length[q] - 1) /\ m \in 1..(length[q] - 1)
        BY <4>1
      <4>4. Old(j) = Old(m)
        BY <3>2, <4>2, <4>3 DEF Distinct
      <4>. QED  BY <4>3, <4>4 DEF Subs
    <3>. QED  BY <3>3, <3>4
  <2>. QED  BY <1>7, <2>2, <2>3 DEF Expire
<1>. QED
  BY <1>2, <1>3, <1>4, <1>5, <1>6, <1>7 DEF Next, SendFails

\* The goroutine's subscription is in its slice once, so removing the first
\* element that is it removes it.
LEMMA OnlySleepingNext ==
  ASSUME TypeInv, Distinct, OnlySleeping, [Next]_vars
  PROVE  OnlySleeping'
<1>. USE SubscriptionAssumption
     DEF subscriptionVars, registryVars, roundVars
<1>1. CASE UNCHANGED <<registryVars, sleeping>>
  BY <1>1 DEF OnlySleeping
<1>2. ASSUME NEW p \in Paths, NEW interval \in Intervals, Subscribe(p, interval)
      PROVE  OnlySleeping'
  <2>1. /\ sleeping' = sleeping \cup {made + 1}
        /\ \A q \in Paths : length'[q] = IF q = p THEN length[q] + 1 ELSE length[q]
        /\ \A q \in Paths : \A k \in 1..length[q] : backing'[q][k] = backing[q][k]
        /\ backing'[p][length[p] + 1] = made + 1
    BY <1>2, SubscribeElements DEF Subscribe
  <2>2. \A q \in Paths : length[q] \in 0..MaxSubs
    BY DEF TypeInv, TypeOK
  <2>. SUFFICES ASSUME NEW q \in Paths, NEW k \in 1..length'[q]
                PROVE  backing'[q][k] \in sleeping'
    BY DEF OnlySleeping
  <2>3. k \in 1..length[q] \/ (q = p /\ k = length[p] + 1)
    BY <2>1, <2>2
  <2>. QED  BY <2>1, <2>3 DEF OnlySleeping
<1>3. CASE Drop
  <2>1. /\ notifying \in Paths /\ n \in 1..MaxSubs /\ i \in 1..n
        /\ \A q \in Paths : q # notifying => backing'[q] = backing[q]
        /\ \A m \in 1..(n - 1) : backing'[notifying][m] =
             IF m < i THEN backing[notifying][m] ELSE backing[notifying][m + 1]
        /\ \A m \in n..MaxSubs : backing'[notifying][m] = backing[notifying][m]
    BY <1>3, DropElements
  <2>2. n <= length[notifying] /\ length[notifying] \in 0..MaxSubs
    BY <2>1 DEF TypeInv, TypeOK, WithinMap
  <2>3. \A q \in Paths : \A k \in 1..length[q] :
          \E m \in 1..length[q] : backing'[q][k] = backing[q][m]
    BY <2>1, <2>2
  <2>. QED  BY <1>3, <2>3 DEF Drop, OnlySleeping
<1>4. CASE Finish
  <2>1. \A q \in Paths : length'[q] \in Nat /\ length[q] \in Nat /\ length'[q] <= length[q]
    BY <1>4 DEF Finish, TypeInv, TypeOK, WithinMap
  <2>. QED  BY <1>4, <2>1 DEF Finish, OnlySleeping
<1>5. ASSUME NEW s \in Subs, Expire(s)
      PROVE  OnlySleeping'
  <2>1. /\ notifying = NoPath /\ sleeping' = sleeping \ {s}
        /\ pathname[s] \in Paths
    BY <1>5 DEF Expire, LockFree, TypeInv, TypeOK
  <2>2. \A q \in Paths : q # pathname[s] => \A k \in 1..length[q] : backing[q][k] # s
    BY DEF TypeInv, TypeOK
  <2>3. ASSUME UNCHANGED registryVars, \A k \in Subs : ~IsAt(s, k)
        PROVE  OnlySleeping'
    <3>. DEFINE p == pathname[s]
    <3>1. length[p] \in 0..MaxSubs
      BY <2>1 DEF TypeInv, TypeOK
    <3>2. ASSUME NEW k \in 1..length[p], backing[p][k] = s
          PROVE  FALSE
      <4>1. \A j \in 1..(k - 1) : backing[p][j] # s
        BY <2>1, <3>1, <3>2 DEF Distinct, Live
      <4>. QED  BY <2>3, <3>1, <3>2, <4>1 DEF IsAt, Subs
    <3>. QED  BY <2>1, <2>2, <2>3, <3>2 DEF OnlySleeping
  <2>4. ASSUME NEW k \in Subs, IsAt(s, k),
               backing' = [backing EXCEPT
                 ![pathname[s]] = Removed(@, k, length[pathname[s]])],
               length' = [length EXCEPT ![pathname[s]] = @ - 1]
        PROVE  OnlySleeping'
    <3>1. /\ \A q \in Paths : q # pathname[s] =>
               backing'[q] = backing[q] /\ length'[q] = length[q]
          /\ \A q \in Paths : q = pathname[s] =>
               /\ length[q] \in 1..MaxSubs /\ k \in 1..length[q]
               /\ length'[q] = length[q] - 1
               /\ \A m \in 1..(length[q] - 1) : backing'[q][m] =
                    IF m < k THEN backing[q][m] ELSE backing[q][m + 1]
      BY <1>5, <2>4, ExpireElements
    <3>. SUFFICES ASSUME NEW q \in Paths, NEW m \in 1..length'[q]
                  PROVE  backing'[q][m] \in sleeping \ {s}
      BY <2>1 DEF OnlySleeping
    <3>2. CASE q # pathname[s]
      BY <2>2, <3>1, <3>2 DEF OnlySleeping
    <3>3. CASE q = pathname[s]
      <4>1. backing[q][k] = s
        BY <2>4, <3>3 DEF IsAt
      <4>2. PICK j \in 1..length[q] : j # k /\ backing'[q][m] = backing[q][j]
        <5>1. CASE m < k
          BY <3>1, <3>3, <5>1
        <5>2. CASE m >= k
          BY <3>1, <3>3, <5>2
        <5>. QED  BY <3>1, <3>3, <5>1, <5>2 DEF Subs
      <4>3. backing[q][j] # s
        BY <2>1, <3>1, <3>3, <4>1, <4>2 DEF Distinct, Live
      <4>. QED  BY <4>2, <4>3 DEF OnlySleeping
    <3>. QED  BY <3>2, <3>3
  <2>. QED  BY <1>5, <2>3, <2>4 DEF Expire
<1>. QED
  BY <1>1, <1>2, <1>3, <1>4, <1>5
     DEF Next, vars, Tick, Notify, Send, SendFails

LEMMA SentSoFarNext ==
  ASSUME TypeInv, Distinct, SentSoFar, [Next]_vars
  PROVE  SentSoFar'
<1>. USE SubscriptionAssumption
     DEF subscriptionVars, registryVars, roundVars
<1>1. CASE notifying' = NoPath
  BY <1>1 DEF SentSoFar
<1>2. CASE Tick \/ UNCHANGED vars
  BY <1>2 DEF Tick, vars, SentSoFar
<1>3. ASSUME NEW p \in Paths, Notify(p)
      PROVE  SentSoFar'
  <2>1. \A k \in 1..length[p] : backing[p][k] \in Subs
    BY DEF TypeInv, TypeOK, Made, Subs
  <2>. QED  BY <1>3, <2>1 DEF Notify, SentSoFar
<1>4. CASE Send
  <2>1. /\ notifying \in Paths /\ n \in 0..MaxSubs /\ i \in 1..n /\ n <= length[notifying]
        /\ i' = i + 1 /\ notifying' = notifying /\ n' = n
        /\ backing' = backing /\ pathname' = pathname
    BY <1>4 DEF Send, InRound, TypeInv, TypeOK, WithinMap
  <2>2. /\ \A k \in 1..n : backing[notifying][k] \in Subs
        /\ pathname[Subscriber] = notifying
    <3>1. \A k \in 1..n : /\ backing[notifying][k] \in Made
                          /\ pathname[backing[notifying][k]] = notifying
      BY <2>1 DEF TypeInv, TypeOK
    <3>. QED  BY <2>1, <3>1 DEF Subscriber, Made, Subs, TypeInv, TypeOK
  <2>3. sent[Subscriber] = 0 /\ Subscriber \in Subs
    BY <2>1, <2>2 DEF Subscriber, SentSoFar
  <2>4. sent' = [sent EXCEPT ![Subscriber] = 1]
    BY <1>4, <2>3 DEF Send
  <2>5. sent \in [Subs -> 0..2]
    BY DEF TypeInv, TypeOK
  <2>6. ASSUME NEW k \in 1..n
        PROVE  sent'[backing[notifying][k]] = IF k < i + 1 THEN 1 ELSE 0
    <3>1. CASE k = i
      BY <2>1, <2>3, <2>4, <2>5, <3>1 DEF Subscriber
    <3>2. CASE k # i
      <4>1. backing[notifying][k] # Subscriber
        BY <2>1, <3>2 DEF Subscriber, Distinct, Live
      <4>2. sent'[backing[notifying][k]] = sent[backing[notifying][k]]
        BY <2>2, <2>4, <2>5, <4>1
      <4>. QED  BY <2>1, <3>2, <4>2 DEF SentSoFar
    <3>. QED  BY <3>1, <3>2
  <2>7. \A s \in Subs : sent'[s] <= 1 /\ (sent'[s] > 0 => pathname[s] = notifying)
    BY <2>1, <2>2, <2>3, <2>4, <2>5 DEF SentSoFar
  <2>. QED  BY <2>1, <2>6, <2>7 DEF SentSoFar
<1>5. CASE Drop
  <2>1. /\ notifying \in Paths /\ n \in 1..MaxSubs /\ i \in 1..n /\ n' = n - 1 /\ i' = i
        /\ \A m \in 1..(n - 1) : backing'[notifying][m] =
             IF m < i THEN backing[notifying][m] ELSE backing[notifying][m + 1]
        /\ notifying' = notifying /\ sent' = sent /\ pathname' = pathname
    BY <1>5, DropElements DEF Drop
  <2>2. ASSUME NEW m \in 1..(n - 1)
        PROVE  sent[backing'[notifying][m]] = IF m < i THEN 1 ELSE 0
    <3>1. CASE m < i
      BY <2>1, <3>1 DEF SentSoFar
    <3>2. CASE m >= i
      <4>1. m + 1 \in 1..n /\ ~(m + 1 < i) /\ ~(m < i)
        BY <2>1, <3>2
      <4>. QED  BY <2>1, <4>1 DEF SentSoFar
    <3>. QED  BY <2>1, <3>1, <3>2
  <2>. QED  BY <2>1, <2>2 DEF SentSoFar
<1>. QED
  BY <1>1, <1>2, <1>3, <1>4, <1>5
     DEF Next, Subscribe, SendFails, Finish, Expire, LockFree

RoundInv ==
  /\ TypeInv
  /\ ActiveIsLive
  /\ ~failed => Distinct /\ OnlySleeping /\ SentSoFar

LEMMA FailedStays == [Next]_vars /\ failed => failed'
  BY DEF Next, vars, Tick, Subscribe, Notify, Send, SendFails, Drop, Finish, Expire

LEMMA RoundInvariant == Spec => []RoundInv
<1>1. Init => Distinct /\ OnlySleeping /\ SentSoFar /\ ActiveIsLive
  BY DEF Init, Distinct, OnlySleeping, SentSoFar, ActiveIsLive, Live, Made
<1>2. TypeInv /\ TypeInv' /\ RoundInv /\ [Next]_vars => RoundInv'
  <2>. SUFFICES ASSUME TypeInv, TypeInv', RoundInv, [Next]_vars
                PROVE  RoundInv'
    OBVIOUS
  <2>1. ActiveIsLive'
    BY ActiveIsLiveNext DEF RoundInv
  <2>2. ASSUME ~failed'
        PROVE  Distinct' /\ OnlySleeping' /\ SentSoFar'
    <3>1. Distinct /\ OnlySleeping /\ SentSoFar
      BY <2>2, FailedStays DEF RoundInv
    <3>. QED  BY <2>2, <3>1, DistinctNext, OnlySleepingNext, SentSoFarNext
  <2>. QED  BY <2>1, <2>2 DEF RoundInv
<1>3. Spec => []TypeInv
  BY TypeInvariant DEF TypeInv
<1>4. TypeInv /\ Init => RoundInv
  BY <1>1 DEF RoundInv
<1>. QED  BY <1>2, <1>3, <1>4, PTL DEF Spec

\* As long as no send fails, each subscription's goroutine removes it for good.
THEOREM ReapedHolds == Spec => []Reaped
<1>1. RoundInv => Reaped
  <2>. SUFFICES ASSUME RoundInv, ~failed, NEW s \in Made \ sleeping, Registered(s)
                PROVE  FALSE
    BY DEF Reaped
  <2>1. pathname[s] \in Paths
    BY DEF RoundInv, TypeInv, TypeOK
  <2>. QED  BY <2>1 DEF RoundInv, OnlySleeping, Registered
<1>. QED  BY <1>1, RoundInvariant, PTL

\* As long as no send fails, the registry holds no subscription twice between
\* rounds, although rounds and goroutines shift the same arrays.
THEOREM NoDuplicatesHolds == Spec => []NoDuplicates
<1>1. RoundInv => NoDuplicates
  BY SubscriptionAssumption DEF RoundInv, Distinct, Live, NoDuplicates
<1>. QED  BY <1>1, RoundInvariant, PTL

\* As long as no send fails, every round sends the update exactly once to
\* every subscription of the file that is still active at its end.
THEOREM RoundCompleteHolds == Spec => RoundComplete
<1>. DEFINE Complete ==
       Finish /\ ~failed => \A s \in Made :
         /\ pathname[s] = notifying /\ ~Expired(s) => sent[s] = 1
         /\ sent[s] <= 1
         /\ sent[s] > 0 => pathname[s] = notifying
<1>1. RoundInv => Complete
  <2>. SUFFICES ASSUME RoundInv, Finish, ~failed, NEW s \in Made
                PROVE  /\ pathname[s] = notifying /\ ~Expired(s) => sent[s] = 1
                       /\ sent[s] <= 1
                       /\ sent[s] > 0 => pathname[s] = notifying
    OBVIOUS
  <2>1. s \in Subs
    BY SubscriptionAssumption DEF RoundInv, TypeInv, TypeOK, Made, Subs
  <2>2. ASSUME pathname[s] = notifying, ~Expired(s)
        PROVE  sent[s] = 1
    <3>1. PICK k \in 1..n : backing[notifying][k] = s
      BY <2>2 DEF RoundInv, ActiveIsLive, Live
    <3>2. k < i
      BY SubscriptionAssumption DEF Finish, RoundInv, TypeInv, TypeOK
    <3>. QED  BY <3>1, <3>2 DEF Finish, RoundInv, SentSoFar
  <2>. QED  BY <2>1, <2>2 DEF Finish, RoundInv, SentSoFar
<1>2. RoundInv => [Complete]_vars
  BY <1>1
<1>. QED  BY <1>2, RoundInvariant, PTL DEF RoundComplete

-----------------------------------------------------------------------------
(***************************************************************************)
(* Rounds after a failed one.                                              *)
(***************************************************************************)

\* Those of the round's slice before the index were sent the update, and only
\* subscribers of its file were.
Reached ==
  notifying # NoPath =>
    /\ \A k \in 1..n : k < i => sent[backing[notifying][k]] > 0
    /\ \A s \in Subs : sent[s] > 0 => pathname[s] = notifying

LEMMA ReachedNext ==
  ASSUME TypeInv, Reached, [Next]_vars
  PROVE  Reached'
<1>. USE SubscriptionAssumption
     DEF subscriptionVars, registryVars, roundVars
<1>1. CASE notifying' = NoPath
  BY <1>1 DEF Reached
<1>2. CASE Tick \/ UNCHANGED vars
  BY <1>2 DEF Tick, vars, Reached
<1>3. ASSUME NEW p \in Paths, Notify(p)
      PROVE  Reached'
  BY <1>3 DEF Notify, Reached
<1>4. CASE Send
  <2>1. /\ notifying \in Paths /\ n \in 0..MaxSubs /\ i \in 1..n /\ n <= length[notifying]
        /\ i' = i + 1 /\ notifying' = notifying /\ n' = n
        /\ backing' = backing /\ pathname' = pathname
    BY <1>4 DEF Send, InRound, TypeInv, TypeOK, WithinMap
  <2>2. \A k \in 1..n : /\ backing[notifying][k] \in Subs
                        /\ pathname[backing[notifying][k]] = notifying
    <3>1. \A k \in 1..n : /\ backing[notifying][k] \in Made
                          /\ pathname[backing[notifying][k]] = notifying
      BY <2>1 DEF TypeInv, TypeOK
    <3>. QED  BY <2>1, <3>1 DEF Made, Subs, TypeInv, TypeOK
  <2>3. Subscriber \in Subs /\ pathname[Subscriber] = notifying
    BY <2>1, <2>2 DEF Subscriber
  <2>4. /\ sent'[Subscriber] > 0
        /\ \A s \in Subs : s # Subscriber => sent'[s] = sent[s]
    <3>1. sent \in [Subs -> 0..2] /\ sent[Subscriber] \in 0..2
      BY <2>3 DEF TypeInv, TypeOK
    <3>. QED  BY <1>4, <2>3, <3>1 DEF Send
  <2>5. ASSUME NEW k \in 1..n, k < i + 1
        PROVE  sent'[backing[notifying][k]] > 0
    <3>1. CASE backing[notifying][k] = Subscriber
      BY <2>4, <3>1
    <3>2. CASE backing[notifying][k] # Subscriber
      <4>1. k < i
        BY <2>1, <2>5, <3>2 DEF Subscriber
      <4>2. sent[backing[notifying][k]] > 0
        BY <2>1, <4>1 DEF Reached
      <4>. QED  BY <2>2, <2>4, <3>2, <4>2
    <3>. QED  BY <3>1, <3>2
  <2>6. \A s \in Subs : sent'[s] > 0 => pathname[s] = notifying
    BY <2>1, <2>3, <2>4 DEF Reached
  <2>. QED  BY <2>1, <2>5, <2>6 DEF Reached
<1>5. CASE Drop
  <2>1. /\ notifying \in Paths /\ n \in 1..MaxSubs /\ i \in 1..n /\ n' = n - 1 /\ i' = i
        /\ \A m \in 1..(n - 1) : backing'[notifying][m] =
             IF m < i THEN backing[notifying][m] ELSE backing[notifying][m + 1]
        /\ notifying' = notifying /\ sent' = sent /\ pathname' = pathname
    BY <1>5, DropElements DEF Drop
  <2>2. ASSUME NEW m \in 1..(n - 1), m < i
        PROVE  sent[backing'[notifying][m]] > 0
    BY <2>1, <2>2 DEF Reached
  <2>. QED  BY <2>1, <2>2 DEF Reached
<1>. QED
  BY <1>1, <1>2, <1>3, <1>4, <1>5
     DEF Next, Subscribe, SendFails, Finish, Expire, LockFree

\* A round that comes to its end, after any number that failed, reached every
\* active subscriber of its file and nobody else.
THEOREM RoundReachesHolds == Spec => RoundReaches
<1>. DEFINE Reaches ==
       Finish => \A s \in Made :
         IF pathname[s] = notifying THEN ~Expired(s) => sent[s] > 0
                                    ELSE sent[s] = 0
<1>1. RoundInv /\ Reached => Reaches
  <2>. SUFFICES ASSUME RoundInv, Reached, Finish, NEW s \in Made
                PROVE  IF pathname[s] = notifying THEN ~Expired(s) => sent[s] > 0
                                                  ELSE sent[s] = 0
    OBVIOUS
  <2>1. s \in Subs /\ sent[s] \in 0..2
    BY SubscriptionAssumption DEF RoundInv, TypeInv, TypeOK, Made, Subs
  <2>2. ASSUME pathname[s] = notifying, ~Expired(s)
        PROVE  sent[s] > 0
    <3>1. PICK k \in 1..n : backing[notifying][k] = s
      BY <2>2 DEF RoundInv, ActiveIsLive, Live
    <3>2. k < i
      BY SubscriptionAssumption DEF Finish, RoundInv, TypeInv, TypeOK
    <3>. QED  BY <3>1, <3>2 DEF Finish, Reached
  <2>3. ASSUME pathname[s] # notifying
        PROVE  sent[s] = 0
    BY <2>1, <2>3 DEF Finish, Reached
  <2>. QED  BY <2>2, <2>3
<1>2. Init => Reached
  BY DEF Init, Reached
<1>3. RoundInv /\ Reached /\ [Next]_vars => Reached'
  BY ReachedNext DEF RoundInv
<1>4. RoundInv /\ Reached => [Reaches]_vars
  BY <1>1
<1>. QED  BY <1>2, <1>3, <1>4, RoundInvariant, PTL DEF RoundReaches, Spec

-----------------------------------------------------------------------------
(***************************************************************************)
(* The slices are the sets of Registry.                                    *)
(***************************************************************************)

\* The elements of an array from lo to hi.
Elements(a, lo, hi) == {a[k] : k \in lo..hi}

Members == [p \in Paths |-> Elements(backing[p], 1, Live(p))]

Due == IF notifying = NoPath THEN {} ELSE Elements(backing[notifying], i, n)

\* Taking the k-th element out in place takes it out of the set, or leaves the
\* set as it was if the element is there twice.
LEMMA ShiftedElements ==
  ASSUME NEW a, NEW b, NEW len \in Nat \ {0}, NEW k \in 1..len, NEW lo \in 1..k,
         \A m \in 1..(len - 1) : b[m] = IF m < k THEN a[m] ELSE a[m + 1]
  PROVE  /\ Elements(b, lo, len - 1) \subseteq Elements(a, lo, len)
         /\ Elements(a, lo, len) \ {a[k]} \subseteq Elements(b, lo, len - 1)
         /\ (\A j, m \in 1..len : a[j] = a[m] => j = m)
              => a[k] \notin Elements(b, lo, len - 1)
<1>1. ASSUME NEW m \in lo..(len - 1)
      PROVE  \E j \in lo..len : j # k /\ b[m] = a[j]
  <2>1. CASE m < k
    BY <2>1
  <2>2. CASE ~(m < k)
    <3>1. m + 1 \in lo..len /\ m + 1 # k /\ m \in 1..(len - 1)
      BY <2>2
    <3>. QED  BY <2>2, <3>1
  <2>. QED  BY <2>1, <2>2
<1>2. ASSUME NEW j \in lo..len, a[j] # a[k]
      PROVE  \E m \in lo..(len - 1) : b[m] = a[j]
  <2>1. CASE j < k
    <3>1. j \in 1..(len - 1) /\ j \in lo..(len - 1)
      BY <2>1
    <3>. QED  BY <2>1, <3>1
  <2>2. CASE j > k
    <3>1. j - 1 \in 1..(len - 1) /\ j - 1 \in lo..(len - 1)
          /\ ~(j - 1 < k) /\ (j - 1) + 1 = j
      BY <2>2
    <3>. QED  BY <3>1
  <2>. QED  BY <1>2, <2>1, <2>2
<1>3. ASSUME \A j, m \in 1..len : a[j] = a[m] => j = m
      PROVE  a[k] \notin Elements(b, lo, len - 1)
  <2>. SUFFICES ASSUME NEW m \in lo..(len - 1), b[m] = a[k]
                PROVE  FALSE
    BY DEF Elements
  <2>1. PICK j \in lo..len : j # k /\ b[m] = a[j]
    BY <1>1
  <2>2. j \in 1..len /\ a[j] = a[k]
    BY <2>1
  <2>3. j = k
    BY <1>3, <2>2
  <2>. QED  BY <2>1, <2>3
<1>. QED  BY <1>1, <1>2, <1>3 DEF Elements

\* What Registry may leave of a set when one element is taken from it.
LEMMA IsWithout ==
  ASSUME NEW S, NEW T, NEW s, T \subseteq S, S \ {s} \subseteq T,
         ~failed => s \notin T
  PROVE  T \in Sets!Without(S, s)
<1>1. CASE s \in T
  <2>1. T = S \/ s \notin S
    BY <1>1
  <2>. QED  BY <1>1, <2>1 DEF Sets!Without
<1>2. CASE s \notin T
  <2>1. T = S \ {s}
    BY <1>2
  <2>. QED  BY <2>1 DEF Sets!Without
<1>. QED  BY <1>1, <1>2

\* Where the map's slice is longer than the round's own, it holds what the round
\* holds as well, or what has expired: that is all a failed send may bring back.
Leftover ==
  notifying # NoPath =>
    \A k \in 1..length[notifying] :
      \/ Expired(backing[notifying][k])
      \/ backing[notifying][k] \in Elements(backing[notifying], 1, n)

LEMMA LeftoverNext ==
  ASSUME TypeInv, Leftover, [Next]_vars
  PROVE  Leftover'
<1>. USE SubscriptionAssumption
     DEF subscriptionVars, registryVars, roundVars
<1>1. CASE notifying' = NoPath
  BY <1>1 DEF Leftover
<1>2. CASE Tick
  <2>1. \A s \in Subs : Expired(s) => Expired(s)'
    BY <1>2 DEF Tick, Expired, TypeInv, TypeOK
  <2>2. ASSUME notifying # NoPath, NEW k \in 1..length[notifying]
        PROVE  backing[notifying][k] \in Subs
    <3>1. notifying \in Paths
      BY <2>2 DEF TypeInv, TypeOK
    <3>. QED  BY <2>2, <3>1 DEF TypeInv, TypeOK, Made, Subs
  <2>. QED  BY <1>2, <2>1, <2>2 DEF Tick, Leftover, Elements
<1>3. ASSUME NEW p \in Paths, Notify(p)
      PROVE  Leftover'
  BY <1>3 DEF Notify, Leftover, Elements
<1>4. CASE Send \/ UNCHANGED vars
  BY <1>4 DEF Send, vars, Leftover, Elements, Expired
<1>5. CASE Drop
  <2>. DEFINE a == backing[notifying]
              b == backing'[notifying]
  <2>1. /\ notifying \in Paths /\ n \in 1..MaxSubs /\ i \in 1..n /\ n' = n - 1
        /\ \A m \in 1..(n - 1) : b[m] = IF m < i THEN a[m] ELSE a[m + 1]
        /\ \A m \in n..MaxSubs : b[m] = a[m]
    BY <1>5, DropElements
  <2>2. /\ UNCHANGED <<now, expireTime, length, notifying>>
        /\ Expired(a[i])
    BY <1>5 DEF Drop, Subscriber
  <2>3. n <= length[notifying] /\ length[notifying] \in 0..MaxSubs
    BY <2>1 DEF TypeInv, TypeOK, WithinMap
  <2>. HIDE DEF a, b
  <2>4. Elements(a, 1, n) \ {a[i]} \subseteq Elements(b, 1, n - 1)
    <3>1. n \in Nat \ {0} /\ 1 \in 1..i
      BY <2>1
    <3>. QED  BY <2>1, <3>1, ShiftedElements
  <2>5. ASSUME NEW k \in 1..length[notifying]
        PROVE  Expired(b[k]) \/ b[k] \in Elements(b, 1, n - 1)
    <3>1. CASE k <= n - 1
      BY <2>1, <3>1 DEF Elements
    <3>2. CASE ~(k <= n - 1)
      <4>1. k \in n..MaxSubs /\ b[k] = a[k]
        BY <2>1, <2>3, <3>2
      <4>2. notifying # NoPath
        BY <2>1
      <4>3. Expired(a[k]) \/ a[k] \in Elements(a, 1, n)
        BY <4>2 DEF Leftover, a
      <4>. QED  BY <2>2, <2>4, <4>1, <4>3
    <3>. QED  BY <3>1, <3>2
  <2>. QED  BY <2>1, <2>2, <2>5 DEF Leftover, Expired, a, b
<1>. QED
  BY <1>1, <1>2, <1>3, <1>4, <1>5
     DEF Next, Subscribe, SendFails, Finish, Expire, LockFree

\* A step that changes the slice of one file changes the members of one.
LEMMA OneChanges ==
  ASSUME NEW p \in Paths, NEW T,
         Elements(backing'[p], 1, Live(p)') = T,
         \A q \in Paths : q # p =>
           Elements(backing'[q], 1, Live(q)') = Elements(backing[q], 1, Live(q))
  PROVE  Members' = [Members EXCEPT ![p] = T]
<1>. DEFINE F(q) == Elements(backing[q], 1, Live(q))
            G(q) == Elements(backing'[q], 1, Live(q)')
<1>1. Members = [q \in Paths |-> F(q)] /\ Members' = [q \in Paths |-> G(q)]
  BY DEF Members
<1>2. G(p) = T /\ \A q \in Paths : q # p => G(q) = F(q)
  OBVIOUS
<1>. HIDE DEF F, G
<1>. QED  BY <1>1, <1>2

\* A step of the loop or of a goroutine is that step of Registry.
LEMMA SendRefines ==
  ASSUME RoundInv, Send
  PROVE  \E s \in Due : Sets!Send(s)
<1>. USE SubscriptionAssumption
<1>. DEFINE a == backing[notifying]
<1>1. /\ notifying \in Paths /\ notifying # NoPath
      /\ n \in 0..MaxSubs /\ i \in 1..n
  BY DEF RoundInv, TypeInv, TypeOK, Send, InRound
<1>2. /\ UNCHANGED <<now, made, pathname, expireTime, sleeping, notifying, failed,
                     n, backing, length>>
      /\ i' = i + 1
      /\ ~Expired(a[i])
      /\ sent' = [sent EXCEPT ![a[i]] = IF @ = 2 THEN 2 ELSE @ + 1]
  BY DEF Send, Subscriber, subscriptionVars, registryVars
<1>3. Due = Elements(a, i, n) /\ Due' = Elements(a, i + 1, n)
  BY <1>1, <1>2 DEF Due
<1>4. a[i] \in Due
  BY <1>1, <1>3 DEF Elements
<1>5. Due' \in Sets!Without(Due, a[i])
  <2>1. Due' \subseteq Due
    BY <1>1, <1>3 DEF Elements
  <2>2. Due \ {a[i]} \subseteq Due'
    <3>. SUFFICES ASSUME NEW k \in i..n, a[k] # a[i]
                  PROVE  a[k] \in Elements(a, i + 1, n)
      BY <1>3 DEF Elements
    <3>1. k \in (i + 1)..n
      BY <1>1
    <3>. QED  BY <3>1 DEF Elements
  <2>3. ASSUME ~failed
        PROVE  a[i] \notin Due'
    <3>. SUFFICES ASSUME NEW k \in (i + 1)..n, a[k] = a[i]
                  PROVE  FALSE
      BY <1>3 DEF Elements
    <3>1. i \in 1..n /\ k \in 1..n /\ k # i
      BY <1>1
    <3>. QED  BY <1>1, <2>3, <3>1 DEF RoundInv, Distinct, Live
  <2>. QED  BY <2>1, <2>2, <2>3, IsWithout
<1>6. Members' = Members
  BY <1>2 DEF Members, Live
<1>7. Sets!Send(a[i])
  <2>1. ~Sets!Expired(a[i])
    BY <1>2 DEF Expired, Sets!Expired
  <2>. QED  BY <1>2, <1>4, <1>5, <1>6, <2>1
            DEF Sets!Send, Members, Due, Elements
<1>. QED  BY <1>4, <1>7 DEF Sets!Send

\* An expired subscriber leaves the array of the round; the map's slice, over the
\* same array, does not count before the round is over.
LEMMA DropRefines ==
  ASSUME RoundInv, Drop
  PROVE  \E s \in Due : Sets!Drop(s)
<1>. USE SubscriptionAssumption
<1>. DEFINE a == backing[notifying]
            b == backing'[notifying]
<1>1. /\ notifying \in Paths /\ notifying # NoPath
      /\ n \in Nat \ {0} /\ i \in 1..n /\ n' = n - 1 /\ i' = i
      /\ \A q \in Paths : q # notifying => backing'[q] = backing[q]
      /\ \A m \in 1..(n - 1) : b[m] = IF m < i THEN a[m] ELSE a[m + 1]
  BY DropElements DEF RoundInv
<1>2. /\ UNCHANGED <<now, made, pathname, expireTime, sleeping, notifying, sent,
                     failed, length>>
      /\ Expired(a[i])
  BY DEF Drop, Subscriber, subscriptionVars
<1>3. ~failed => \A j, m \in 1..n : a[j] = a[m] => j = m
  BY <1>1 DEF RoundInv, Distinct, Live
<1>4. Due = Elements(a, i, n) /\ Due' = Elements(b, i, n - 1)
  BY <1>1, <1>2 DEF Due
<1>5. /\ Members = [p \in Paths |-> Elements(backing[p], 1, Live(p))]
      /\ Members' = [p \in Paths |-> Elements(backing'[p], 1, Live(p)')]
      /\ Members[notifying] = Elements(a, 1, n)
  BY <1>1 DEF Members, Live
<1>. HIDE DEF a, b
<1>6. a[i] \in Due
  BY <1>1, <1>4 DEF Elements
<1>7. Elements(b, 1, n - 1) \in Sets!Without(Elements(a, 1, n), a[i])
  <2>1. 1 \in 1..i
    BY <1>1
  <2>2. /\ Elements(b, 1, n - 1) \subseteq Elements(a, 1, n)
        /\ Elements(a, 1, n) \ {a[i]} \subseteq Elements(b, 1, n - 1)
        /\ ~failed => a[i] \notin Elements(b, 1, n - 1)
    BY <1>1, <1>3, <2>1, ShiftedElements
  <2>. QED  BY <2>2, IsWithout
<1>8. Due' \in Sets!Without(Due, a[i])
  <2>1. i \in 1..i
    BY <1>1
  <2>2. /\ Elements(b, i, n - 1) \subseteq Elements(a, i, n)
        /\ Elements(a, i, n) \ {a[i]} \subseteq Elements(b, i, n - 1)
        /\ ~failed => a[i] \notin Elements(b, i, n - 1)
    BY <1>1, <1>3, <2>1, ShiftedElements
  <2>. QED  BY <1>4, <2>2, IsWithout
<1>9. Members' = [Members EXCEPT ![notifying] = Elements(b, 1, n - 1)]
  <2>1. PICK p \in Paths : p = notifying
    BY <1>1
  <2>2. \A q \in Paths : q # p =>
          Elements(backing'[q], 1, Live(q)') = Elements(backing[q], 1, Live(q))
    BY <1>1, <1>2, <2>1 DEF Live
  <2>3. Elements(backing'[p], 1, Live(p)') = Elements(b, 1, n - 1)
    BY <1>1, <1>2, <2>1 DEF Live, b
  <2>. QED  BY <2>1, <2>2, <2>3, OneChanges
<1>10. Sets!Drop(a[i])
  <2>1. Sets!Expired(a[i])
    BY <1>2 DEF Expired, Sets!Expired
  <2>2. \E rest \in Sets!Without(Members[notifying], a[i]) :
          Members' = [Members EXCEPT ![notifying] = rest]
    BY <1>5, <1>7, <1>9
  <2>. QED  BY <1>2, <1>6, <1>8, <2>1, <2>2
            DEF Sets!Drop, Members, Due, Elements
<1>. QED  BY <1>6, <1>10 DEF Sets!Drop

\* A round that is given up brings back what it dropped, which has expired.
LEMMA SendFailsRefines ==
  ASSUME RoundInv, Leftover, SendFails
  PROVE  Sets!Break
<1>. USE SubscriptionAssumption
<1>. DEFINE a == backing[notifying]
<1>1. /\ notifying \in Paths /\ notifying # NoPath
      /\ n \in 0..MaxSubs /\ i \in 1..n
      /\ n <= length[notifying] /\ length[notifying] \in 0..MaxSubs
      /\ \A k \in 1..length[notifying] : a[k] \in Made /\ pathname[a[k]] = notifying
  BY DEF RoundInv, TypeInv, TypeOK, WithinMap, SendFails, InRound
<1>2. /\ UNCHANGED <<now, made, pathname, expireTime, sleeping, sent, backing, length>>
      /\ ~Expired(a[i]) /\ notifying' = NoPath /\ failed' = TRUE
  BY DEF SendFails, Subscriber, subscriptionVars, registryVars
<1>3. Due = Elements(a, i, n) /\ Due' = {}
  BY <1>1, <1>2 DEF Due
<1>4. \E s \in Due : ~Sets!Expired(s)
  BY <1>1, <1>2, <1>3 DEF Elements, Expired, Sets!Expired
<1>. DEFINE back == {a[k] : k \in {k \in 1..length[notifying] : Expired(a[k])}}
<1>5. back \in SUBSET {t \in 1..made : pathname[t] = notifying /\ Sets!Expired(t)}
  BY <1>1 DEF Expired, Sets!Expired, Made
<1>6. Elements(a, 1, length[notifying]) = Elements(a, 1, n) \cup back
  <2>1. \A k \in 1..length[notifying] : Expired(a[k]) \/ a[k] \in Elements(a, 1, n)
    BY <1>1 DEF Leftover
  <2>2. 1..n \subseteq 1..length[notifying]
    BY <1>1
  <2>. QED  BY <2>1, <2>2 DEF Elements
<1>7. Members' = [Members EXCEPT ![notifying] = @ \cup back]
  <2>. HIDE DEF back
  <2>1. PICK p \in Paths : p = notifying
    BY <1>1
  <2>2. \A q \in Paths : q # p =>
          Elements(backing'[q], 1, Live(q)') = Elements(backing[q], 1, Live(q))
    BY <1>1, <1>2, <2>1 DEF Live
  <2>3. /\ Elements(backing'[p], 1, Live(p)') = Elements(a, 1, length[notifying])
        /\ Members[p] = Elements(a, 1, n)
    BY <1>1, <1>2, <2>1 DEF Live, Members
  <2>. QED  BY <1>6, <2>1, <2>2, <2>3, OneChanges
<1>. HIDE DEF back
<1>. QED  BY <1>2, <1>3, <1>4, <1>5, <1>7
     DEF Sets!Break, Members, Due, Elements

LEMMA SubscribeRefines ==
  ASSUME RoundInv, NEW p \in Paths, NEW interval \in Intervals,
         Subscribe(p, interval)
  PROVE  Sets!Subscribe(p, interval)
<1>. USE SubscriptionAssumption
<1>1. /\ notifying = NoPath /\ notifying' = NoPath
      /\ \A q \in Paths : length'[q] = IF q = p THEN length[q] + 1 ELSE length[q]
      /\ \A q \in Paths : \A k \in 1..length[q] : backing'[q][k] = backing[q][k]
      /\ backing'[p][length[p] + 1] = made + 1
      /\ \A q \in Paths : length[q] \in Nat
  <2>1. notifying = NoPath /\ notifying' = NoPath
    BY DEF Subscribe, roundVars
  <2>2. \A q \in Paths : length[q] \in Nat
    BY DEF RoundInv, TypeInv, TypeOK
  <2>3. TypeInv
    BY DEF RoundInv
  <2>. QED  BY <2>1, <2>2, <2>3, SubscribeElements
<1>2. \A q \in Paths : Live(q) = length[q] /\ Live(q)' = length'[q]
  BY <1>1 DEF Live
<1>3. Elements(backing'[p], 1, Live(p)') = Members[p] \cup {made + 1}
  <2>1. Live(p)' = length[p] + 1 /\ length[p] \in Nat
    BY <1>1, <1>2
  <2>2. \A k : k \in 1..(length[p] + 1) <=> k \in 1..length[p] \/ k = length[p] + 1
    BY <2>1
  <2>3. Members[p] = Elements(backing[p], 1, length[p])
    BY <1>2 DEF Members
  <2>. QED  BY <1>1, <2>1, <2>2, <2>3 DEF Elements
<1>4. \A q \in Paths : q # p =>
        Elements(backing'[q], 1, Live(q)') = Elements(backing[q], 1, Live(q))
  BY <1>1, <1>2 DEF Elements
<1>5. Members' = [Members EXCEPT ![p] = @ \cup {made + 1}]
  BY <1>3, <1>4, OneChanges
<1>6. Due' = Due
  BY <1>1 DEF Due
<1>. QED  BY <1>1, <1>5, <1>6
     DEF Subscribe, Sets!Subscribe, roundVars, Members, Due, Elements

\* The goroutine takes its subscription out of the set, whether it finds it or not.
LEMMA ExpireRefines ==
  ASSUME RoundInv, NEW s \in Subs, Expire(s)
  PROVE  s \in sleeping /\ Sets!Expire(s)
<1>. USE SubscriptionAssumption
<1>1. /\ s \in sleeping /\ Expired(s) /\ sleeping' = sleeping \ {s}
      /\ notifying = NoPath /\ notifying' = NoPath
      /\ UNCHANGED <<now, made, pathname, expireTime, sent, failed>>
  BY DEF Expire, LockFree, subscriptionVars, roundVars
<1>2. \A q \in Paths : Live(q) = length[q] /\ Live(q)' = length'[q]
  BY <1>1 DEF Live
<1>3. PICK p \in Paths : p = pathname[s]
  BY <1>1 DEF RoundInv, TypeInv, TypeOK
<1>4. Members[p] = Elements(backing[p], 1, length[p]) /\ length[p] \in 0..MaxSubs
  BY <1>2 DEF Members, RoundInv, TypeInv, TypeOK
<1>5. ~failed => \A j, k \in 1..length[p] : backing[p][j] = backing[p][k] => j = k
  BY <1>2 DEF RoundInv, Distinct
<1>6. \E rest \in Sets!Without(Members[pathname[s]], s) :
        Members' = [Members EXCEPT ![pathname[s]] = rest]
  <2>1. ASSUME NEW k \in Subs, IsAt(s, k),
               backing' = [backing EXCEPT
                 ![pathname[s]] = Removed(@, k, length[pathname[s]])],
               length' = [length EXCEPT ![pathname[s]] = @ - 1]
        PROVE  \E rest \in Sets!Without(Members[pathname[s]], s) :
                 Members' = [Members EXCEPT ![pathname[s]] = rest]
    <3>. DEFINE a == backing[p]
                b == backing'[p]
    <3>1. /\ \A q \in Paths : q # p =>
               backing'[q] = backing[q] /\ length'[q] = length[q]
          /\ length[p] \in Nat \ {0} /\ k \in 1..length[p]
          /\ length'[p] = length[p] - 1
          /\ \A m \in 1..(length[p] - 1) : b[m] = IF m < k THEN a[m] ELSE a[m + 1]
      <4>1. /\ \A q \in Paths : q # pathname[s] =>
                 backing'[q] = backing[q] /\ length'[q] = length[q]
            /\ \A q \in Paths : q = pathname[s] =>
                 /\ length[q] \in 1..MaxSubs /\ k \in 1..length[q]
                 /\ length'[q] = length[q] - 1
                 /\ \A m \in 1..(length[q] - 1) : backing'[q][m] =
                      IF m < k THEN backing[q][m] ELSE backing[q][m + 1]
        BY <2>1, ExpireElements DEF RoundInv
      <4>. QED  BY <1>3, <4>1
    <3>2. a[k] = s
      BY <1>3, <2>1 DEF IsAt
    <3>. HIDE DEF a, b
    <3>3. 1 \in 1..k
      BY <3>1
    <3>4. ~failed => \A j, m \in 1..length[p] : a[j] = a[m] => j = m
      BY <1>5 DEF a
    <3>5. /\ Elements(b, 1, length[p] - 1) \subseteq Elements(a, 1, length[p])
          /\ Elements(a, 1, length[p]) \ {a[k]} \subseteq Elements(b, 1, length[p] - 1)
          /\ ~failed => a[k] \notin Elements(b, 1, length[p] - 1)
      BY <3>1, <3>3, <3>4, ShiftedElements
    <3>6. Elements(b, 1, length[p] - 1) \in Sets!Without(Members[p], s)
      <4>1. Members[p] = Elements(a, 1, length[p])
        BY <1>4 DEF a
      <4>. QED  BY <3>2, <3>5, <4>1, IsWithout
    <3>7. Elements(backing'[p], 1, Live(p)') = Elements(b, 1, length[p] - 1)
      BY <1>2, <3>1 DEF b
    <3>8. \A q \in Paths : q # p =>
            Elements(backing'[q], 1, Live(q)') = Elements(backing[q], 1, Live(q))
      BY <1>2, <3>1
    <3>9. Members' = [Members EXCEPT ![p] = Elements(b, 1, length[p] - 1)]
      BY <3>7, <3>8, OneChanges
    <3>. QED  BY <1>3, <3>6, <3>9
  <2>2. ASSUME \A k \in Subs : ~IsAt(s, k), UNCHANGED registryVars
        PROVE  \E rest \in Sets!Without(Members[pathname[s]], s) :
                 Members' = [Members EXCEPT ![pathname[s]] = rest]
    <3>1. Members' = Members
      BY <1>2, <2>2 DEF Members, registryVars
    <3>2. ASSUME ~failed
          PROVE  s \notin Members[p]
      <4>. SUFFICES ASSUME NEW k \in 1..length[p], backing[p][k] = s
                    PROVE  FALSE
        BY <1>4 DEF Elements
      <4>1. k \in Subs /\ \A j \in 1..(k - 1) : j \in 1..length[p] /\ j # k
        BY <1>4 DEF Subs
      <4>2. \A j \in 1..(k - 1) : backing[p][j] # s
        BY <1>5, <3>2, <4>1
      <4>3. IsAt(s, k)
        BY <1>3, <4>2 DEF IsAt
      <4>. QED  BY <2>2, <4>1, <4>3
    <3>3. Members[p] \in Sets!Without(Members[p], s)
      BY <3>2, IsWithout
    <3>4. Members' = [Members EXCEPT ![p] = Members[p]]
      BY <3>1 DEF Members
    <3>. QED  BY <1>3, <3>3, <3>4
  <2>. QED  BY <2>1, <2>2 DEF Expire
<1>7. Due' = Due
  BY <1>1 DEF Due
<1>8. Sets!Expired(s)
  BY <1>1 DEF Expired, Sets!Expired
<1>. QED  BY <1>1, <1>6, <1>7, <1>8 DEF Sets!Expire, Members, Due, Elements

LEMMA RegistryStep ==
  ASSUME RoundInv, Leftover, [Next]_vars
  PROVE  [Sets!Next]_(Sets!vars)
<1>. USE SubscriptionAssumption
     DEF subscriptionVars, registryVars, roundVars
<1>1. CASE Tick
  <2>1. Members' = Members /\ Due' = Due
    BY <1>1 DEF Tick, Members, Due, Live
  <2>2. Sets!Tick
    BY <1>1, <2>1 DEF Tick, Sets!Tick, Members, Due, Elements
  <2>. QED  BY <2>2 DEF Sets!Next
<1>2. ASSUME NEW p \in Paths, NEW interval \in Intervals, Subscribe(p, interval)
      PROVE  Sets!Next
  BY <1>2, SubscribeRefines DEF Sets!Next, Sets!Subscribe
<1>3. ASSUME NEW p \in Paths, Notify(p)
      PROVE  Sets!Next
  <2>1. notifying = NoPath /\ notifying' = p /\ p # NoPath
        /\ i' = 1 /\ n' = length[p] /\ UNCHANGED <<backing, length>>
    BY <1>3 DEF Notify
  <2>2. Members' = Members
    BY <2>1 DEF Members, Live
  <2>3. Due' = Members[p]
    BY <2>1 DEF Due, Members, Live
  <2>4. Sets!Notify(p)
    BY <1>3, <2>2, <2>3 DEF Notify, Sets!Notify, Sets!Subs, Subs, Members, Due, Elements
  <2>. QED  BY <2>4 DEF Sets!Next, Sets!Notify
<1>4. CASE Send
  <2>1. PICK s \in Due : Sets!Send(s)
    BY <1>4, SendRefines
  <2>. QED  BY <2>1 DEF Sets!Next, Due, Elements, Sets!Send
<1>5. CASE SendFails
  BY <1>5, SendFailsRefines DEF Sets!Next
<1>6. CASE Drop
  <2>1. PICK s \in Due : Sets!Drop(s)
    BY <1>6, DropRefines
  <2>. QED  BY <2>1 DEF Sets!Next, Due, Elements, Sets!Drop
<1>7. CASE Finish
  <2>1. notifying \in Paths /\ notifying # NoPath /\ notifying' = NoPath
        /\ n \in 0..MaxSubs /\ i \in Nat /\ i > n
    BY <1>7 DEF Finish, RoundInv, TypeInv, TypeOK
  <2>2. \A p \in Paths : Live(p)' = Live(p)
    BY <1>7, <2>1 DEF Finish, Live, RoundInv, TypeInv, TypeOK
  <2>3. Members' = Members
    BY <1>7, <2>2 DEF Finish, Members
  <2>4. Due = {} /\ Due' = {}
    BY <2>1 DEF Due, Elements
  <2>5. Sets!Finish
    BY <1>7, <2>3, <2>4 DEF Finish, Sets!Finish, Members, Due, Elements
  <2>. QED  BY <2>5 DEF Sets!Next
<1>8. ASSUME NEW s \in Subs, Expire(s)
      PROVE  Sets!Next
  BY <1>8, ExpireRefines DEF Sets!Next, Sets!Expire
<1>9. CASE UNCHANGED vars
  BY <1>9 DEF vars, Sets!vars, Live
<1>. QED
  BY <1>1, <1>2, <1>3, <1>4, <1>5, <1>6, <1>7, <1>8, <1>9 DEF Next

\* The registry behaves as sets of subscriptions: rounds over slices that share
\* arrays visit, notify and drop what a round over a set would, and a failed send
\* leaves nothing that Registry does not allow.
THEOREM Refinement == Spec => ImplementsRegistry
<1>1. Init => Sets!Init
  <2>. SUFFICES ASSUME Init
                PROVE  Sets!Init
    OBVIOUS
  <2>1. Members = [p \in Paths |-> {}] /\ Due = {}
    BY DEF Init, Members, Due, Live, Elements
  <2>. QED  BY <2>1 DEF Init, Sets!Init, Sets!Subs, Subs, Members, Due, Elements
<1>2. Init => Leftover
  BY DEF Init, Leftover
<1>3. RoundInv /\ Leftover /\ [Next]_vars => Leftover'
  BY LeftoverNext DEF RoundInv
<1>4. RoundInv /\ Leftover /\ [Next]_vars => [Sets!Next]_(Sets!vars)
  BY RegistryStep
<1>. QED
  BY <1>1, <1>2, <1>3, <1>4, RoundInvariant, PTL
  DEF Spec, ImplementsRegistry, Sets!Spec

=============================================================================
