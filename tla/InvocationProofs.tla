-------------------------- MODULE InvocationProofs --------------------------
(***************************************************************************)
(* Proofs about Invocation, for any clients, identifiers and bounds.       *)
(***************************************************************************)
EXTENDS Invocation, TLAPS

(***************************************************************************)
(* Message identifiers.                                                    *)
(***************************************************************************)

\* A call's message identifier is one of the identifiers of a uint32_t.
LEMMA MessageIdType ==
  ASSUME NEW x \in Calls
  PROVE  MessageId(x) \in Ids
BY InvocationAssumption DEF Calls, MessageId, Ids

LEMMA CurrentIsCall ==
  ASSUME TypeOK, NEW c \in Clients, waiting[c]
  PROVE  /\ calls[c] \in 1..MaxCalls
         /\ Current(c) \in Calls
BY InvocationAssumption DEF TypeOK, Current, Calls

(***************************************************************************)
(* Type correctness.                                                       *)
(***************************************************************************)

\* What RouteRequest leaves behind is typed, and the response it returns is
\* one a handler made.
LEMMA RouteRequestType ==
  ASSUME TypeOK, NEW x \in Calls, RouteRequest(x)
  PROVE  /\ messageResponses' \in [Ids -> Calls \cup {NoReply}]
         /\ messageResponses'[MessageId(x)] \in Calls
         /\ executed' \in [Calls -> 0..2]
<1>1. MessageId(x) \in Ids
  BY MessageIdType
<1>2. CASE IsRepeat(x) /\ UNCHANGED <<messageResponses, executed>>
  BY <1>1, <1>2 DEF TypeOK, IsRepeat
<1>3. CASE RunHandler(x)
  BY <1>1, <1>3 DEF TypeOK, RunHandler, Again
<1>. QED
  BY <1>2, <1>3 DEF RouteRequest

\* Every reachable state is typed: counts stay within their bounds, and the
\* table and the answers hold calls whose handler the server ran.
THEOREM TypeInvariant == Spec => []TypeOK
<1>1. Init => TypeOK
  BY InvocationAssumption DEF Init, TypeOK
<1>2. TypeOK /\ [Next]_vars => TypeOK'
  <2>. SUFFICES ASSUME TypeOK, [Next]_vars
                PROVE  TypeOK'
    OBVIOUS
  <2>. USE InvocationAssumption DEF clientVars, serverVars
  <2>1. ASSUME NEW c \in Clients, Call(c)
        PROVE  TypeOK'
    <3>1. <<c, calls[c] + 1>> \in Calls
      BY <2>1 DEF Call, TypeOK, Calls
    <3>2. requests' \in [Calls -> 0..MaxCopies]
      BY <2>1, <3>1 DEF Call, TypeOK
    <3>. QED  BY <2>1, <3>2 DEF Call, TypeOK
  <2>2. ASSUME NEW c \in Clients, Timeout(c)
        PROVE  TypeOK'
    BY <2>2, CurrentIsCall DEF Timeout, TypeOK
  <2>3. ASSUME NEW c \in Clients, Receive(c)
        PROVE  TypeOK'
    BY <2>3, CurrentIsCall DEF Receive, TypeOK
  <2>4. ASSUME NEW x \in Calls, LoseRequest(x)
        PROVE  TypeOK'
    BY <2>4 DEF LoseRequest, ReadFromClient, TypeOK
  <2>5. ASSUME NEW x \in Calls, ServeAndLoseReply(x)
        PROVE  TypeOK'
    BY <2>5, RouteRequestType DEF ServeAndLoseReply, ReadFromClient, TypeOK
  <2>6. ASSUME NEW x \in Calls, ServeAndReply(x)
        PROVE  TypeOK'
    <3>1. requests' \in [Calls -> 0..MaxCopies]
      BY <2>6 DEF ServeAndReply, ReadFromClient, TypeOK
    <3>2. /\ messageResponses' \in [Ids -> Calls \cup {NoReply}]
          /\ messageResponses'[MessageId(x)] \in Calls
          /\ executed' \in [Calls -> 0..2]
      BY <2>6, RouteRequestType DEF ServeAndReply
    <3>3. x[1] \in Clients
      BY DEF Calls
    <3>4. replies' \in [Clients -> [Calls -> 0..MaxCopies]]
      BY <2>6, <3>2, <3>3 DEF ServeAndReply, TypeOK
    <3>. QED
      BY <2>6, <3>1, <3>2, <3>4 DEF ServeAndReply, TypeOK
  <2>7. ASSUME NEW c \in Clients, NEW x \in Calls, LoseReply(c, x)
        PROVE  TypeOK'
    BY <2>7 DEF LoseReply, TypeOK
  <2>8. CASE RestartServer
    BY <2>8 DEF RestartServer, TypeOK
  <2>9. CASE UNCHANGED vars
    BY <2>9 DEF vars, TypeOK
  <2>. QED
    BY <2>1, <2>2, <2>3, <2>4, <2>5, <2>6, <2>7, <2>8, <2>9 DEF Next
<1>. QED  BY <1>1, <1>2, PTL DEF Spec

-----------------------------------------------------------------------------
(***************************************************************************)
(* At most once, by message identifier.                                    *)
(***************************************************************************)

\* Every handler the server ran since it started has its response in the
\* table, and so was run once.
RunIsStored ==
  Semantics = "amo" /\ restarts = 0 =>
    \A x \in Calls : executed[x] > 0 =>
      messageResponses[MessageId(x)] = x /\ executed[x] = 1

\* RouteRequest runs a handler only when none is stored for its identifier.
LEMMA RouteRequestStores ==
  ASSUME TypeOK, RunIsStored, NEW x \in Calls, RouteRequest(x), UNCHANGED restarts
  PROVE  RunIsStored'
<1>. SUFFICES ASSUME Semantics = "amo", restarts = 0,
                     NEW y \in Calls, executed'[y] > 0
              PROVE  messageResponses'[MessageId(y)] = y /\ executed'[y] = 1
  BY DEF RunIsStored
<1>1. /\ MessageId(x) \in Ids
      /\ MessageId(y) \in Ids
  BY MessageIdType
<1>2. CASE IsRepeat(x) /\ UNCHANGED <<messageResponses, executed>>
  BY <1>2 DEF RunIsStored
<1>3. CASE ~IsRepeat(x) /\ RunHandler(x)
  <2>1. messageResponses[MessageId(x)] = NoReply
    BY <1>3 DEF IsRepeat
  <2>2. NoReply \notin Calls
    BY InvocationAssumption DEF Calls
  <2>3. executed[x] = 0
    BY <2>1, <2>2, <1>1 DEF RunIsStored, TypeOK
  <2>4. CASE y = x
    BY <2>3, <2>4, <1>1, <1>3 DEF RunHandler, Again, TypeOK
  <2>5. CASE y # x
    <3>1. executed[y] > 0
      BY <2>5, <1>3 DEF RunHandler, TypeOK
    <3>2. messageResponses[MessageId(y)] = y /\ executed[y] = 1
      BY <3>1 DEF RunIsStored
    <3>3. MessageId(y) # MessageId(x)
      BY <3>2, <2>1, <2>2
    <3>. QED
      BY <2>5, <3>2, <3>3, <1>1, <1>3 DEF RunHandler, TypeOK
  <2>. QED  BY <2>4, <2>5
<1>. QED  BY <1>2, <1>3 DEF RouteRequest

LEMMA RunIsStoredInvariant == Spec => []RunIsStored
<1>1. Init => RunIsStored
  BY DEF Init, RunIsStored
<1>2. TypeOK /\ RunIsStored /\ [Next]_vars => RunIsStored'
  <2>. SUFFICES ASSUME TypeOK, RunIsStored, [Next]_vars
                PROVE  RunIsStored'
    OBVIOUS
  <2>1. CASE UNCHANGED serverVars
    BY <2>1 DEF serverVars, RunIsStored
  <2>2. ASSUME NEW x \in Calls, ServeAndLoseReply(x) \/ ServeAndReply(x)
        PROVE  RunIsStored'
    BY <2>2, RouteRequestStores DEF ServeAndLoseReply, ServeAndReply
  <2>3. CASE RestartServer
    BY <2>3 DEF RestartServer, RunIsStored, TypeOK
  <2>. QED
    BY <2>1, <2>2, <2>3
       DEF Next, vars, Call, Timeout, Receive, LoseRequest, LoseReply
<1>. QED  BY <1>1, <1>2, TypeInvariant, PTL DEF Spec

\* RouteRequest's table makes the server run at most one handler per message
\* identifier, and that one once, for any clients, retries, losses, delays
\* and reorderings, until the process is restarted.
THEOREM IdExecutedOnceHolds == Spec => []IdExecutedOnce
<1>1. RunIsStored => IdExecutedOnce
  <2>. SUFFICES ASSUME RunIsStored, Semantics = "amo", restarts = 0,
                       NEW x \in Calls, NEW y \in Calls,
                       executed[x] > 0, executed[y] > 0,
                       MessageId(x) = MessageId(y)
                PROVE  x = y /\ executed[x] = 1
    BY DEF IdExecutedOnce
  <2>. QED  BY DEF RunIsStored
<1>. QED  BY <1>1, RunIsStoredInvariant, PTL

-----------------------------------------------------------------------------
(***************************************************************************)
(* The promise kept.  When the receive timeout is longer than any delay    *)
(* and the table cannot confuse two calls, the retry loops and the server  *)
(* implement RemoteCall.                                                   *)
(***************************************************************************)

\* No two calls are made under one message identifier.
IdsUnique == \A x, y \in Calls : MessageId(x) = MessageId(y) => x = y

Reliable == Timely /\ (Semantics = "alo" \/ (IdsUnique /\ MaxRestarts = 0))

\* A request in flight is that of an outstanding call, and the only copy.
OneRequest ==
  \A x \in Calls : requests[x] > 0 =>
    requests[x] = 1 /\ waiting[x[1]] /\ x = Current(x[1])

\* A reply in flight answers its client's outstanding call, whose request is
\* not in flight any more, and is the only copy.
OneReply ==
  \A c \in Clients, x \in Calls : replies[c][x] > 0 =>
    /\ replies[c][x] = 1 /\ waiting[c] /\ x = Current(c)
    /\ requests[x] = 0 /\ executed[x] > 0

\* The table holds, under an identifier, the response to a call that ran.
TableIsRun ==
  \A i \in Ids : messageResponses[i] # NoReply =>
    MessageId(messageResponses[i]) = i /\ executed[messageResponses[i]] > 0

\* A call that returned has its own answer, and ran.
AnswerIsRun ==
  \A x \in Calls : answer[x] # NoReply => answer[x] = x /\ executed[x] > 0

PromiseInv == OneRequest /\ OneReply /\ TableIsRun /\ AnswerIsRun

LEMMA CallShape ==
  /\ NoReply \notin Calls
  /\ \A x \in Calls : x[1] \in Clients /\ x[2] \in 1..MaxCalls /\ x = <<x[1], x[2]>>
BY InvocationAssumption DEF Calls

\* Under the assumptions of Reliable the response RouteRequest returns is the
\* one made for the request, and its handler ran.
LEMMA OwnResponse ==
  ASSUME TypeOK, TableIsRun, Reliable, NEW x \in Calls, RouteRequest(x)
  PROVE  /\ messageResponses'[MessageId(x)] = x
         /\ executed'[x] > 0
         /\ \A y \in Calls : executed[y] > 0 => executed'[y] > 0
         /\ TableIsRun'
<1>1. MessageId(x) \in Ids
  BY MessageIdType
<1>2. CASE IsRepeat(x) /\ UNCHANGED <<messageResponses, executed>>
  <2>1. messageResponses[MessageId(x)] = x
    BY <1>1, <1>2 DEF IsRepeat, TableIsRun, Reliable, IdsUnique, TypeOK
  <2>2. executed[x] > 0
    BY <2>1, <1>1, <1>2 DEF IsRepeat, TableIsRun
  <2>. QED  BY <2>1, <2>2, <1>2 DEF TableIsRun
<1>3. CASE RunHandler(x)
  <2>1. /\ messageResponses'[MessageId(x)] = x
        /\ executed'[x] > 0
        /\ \A y \in Calls : executed[y] > 0 => executed'[y] > 0
    BY <1>1, <1>3 DEF RunHandler, Again, TypeOK
  <2>2. ASSUME NEW i \in Ids, messageResponses'[i] # NoReply
        PROVE  /\ MessageId(messageResponses'[i]) = i
               /\ executed'[messageResponses'[i]] > 0
    <3>1. CASE i = MessageId(x)
      BY <3>1, <2>1
    <3>2. CASE i # MessageId(x)
      BY <3>2, <2>1, <2>2, <1>3 DEF RunHandler, TableIsRun, TypeOK
    <3>. QED  BY <3>1, <3>2
  <2>. QED  BY <2>1, <2>2 DEF TableIsRun
<1>. QED  BY <1>2, <1>3 DEF RouteRequest

LEMMA PromiseInvInit == Init => PromiseInv
BY CallShape DEF Init, PromiseInv, OneRequest, OneReply, TableIsRun, AnswerIsRun

LEMMA PromiseInvNext ==
  ASSUME TypeOK, PromiseInv, Reliable, [Next]_vars
  PROVE  PromiseInv'
<1>. USE CallShape, InvocationAssumption DEF clientVars, serverVars
<1>1. ASSUME NEW c \in Clients, Call(c)
      PROVE  PromiseInv'
  <2>1. <<c, calls[c] + 1>> \in Calls
    BY <1>1 DEF Call, TypeOK, Calls
  <2>2. OneRequest'
    BY <1>1, <2>1 DEF Call, PromiseInv, OneRequest, Current, TypeOK
  <2>3. OneReply'
    BY <1>1, <2>1 DEF Call, PromiseInv, OneReply, Current, TypeOK
  <2>. QED
    BY <1>1, <2>2, <2>3 DEF Call, PromiseInv, TableIsRun, AnswerIsRun
<1>2. ASSUME NEW c \in Clients, Timeout(c)
      PROVE  PromiseInv'
  <2>1. Quiet(c) /\ Current(c) \in Calls
    BY <1>2, CurrentIsCall DEF Timeout, MayTimeout, Reliable
  <2>2. OneRequest'
    BY <1>2, <2>1 DEF Timeout, Quiet, PromiseInv, OneRequest, Current, TypeOK
  <2>3. OneReply'
    BY <1>2, <2>1 DEF Timeout, Quiet, PromiseInv, OneReply, Current, TypeOK
  <2>. QED
    BY <1>2, <2>2, <2>3 DEF Timeout, PromiseInv, TableIsRun, AnswerIsRun
<1>3. ASSUME NEW c \in Clients, Receive(c)
      PROVE  PromiseInv'
  <2>1. PICK x \in Calls :
          /\ replies[c][x] > 0
          /\ replies' = [replies EXCEPT ![c][x] = @ - 1]
          /\ answer' = [answer EXCEPT ![Current(c)] = x]
    BY <1>3 DEF Receive
  <2>2. x = Current(c) /\ replies[c][x] = 1 /\ requests[x] = 0 /\ executed[x] > 0
    BY <2>1 DEF PromiseInv, OneReply
  <2>3. OneRequest'
    <3>1. \A y \in Calls : requests[y] > 0 => y[1] # c
      BY <2>2 DEF PromiseInv, OneRequest
    <3>. QED
      BY <1>3, <3>1 DEF Receive, PromiseInv, OneRequest, Current, TypeOK
  <2>4. OneReply'
    <3>1. \A y \in Calls : replies'[c][y] = 0
      BY <2>1, <2>2 DEF PromiseInv, OneReply, TypeOK
    <3>2. \A d \in Clients \ {c} :
            replies'[d] = replies[d] /\ waiting'[d] = waiting[d]
      BY <1>3, <2>1 DEF Receive, TypeOK
    <3>. QED
      BY <1>3, <3>1, <3>2 DEF Receive, PromiseInv, OneReply, Current
  <2>5. AnswerIsRun'
    BY <1>3, <2>1, <2>2 DEF Receive, PromiseInv, AnswerIsRun, TypeOK
  <2>. QED
    BY <1>3, <2>3, <2>4, <2>5 DEF Receive, PromiseInv, TableIsRun
<1>4. ASSUME NEW x \in Calls, LoseRequest(x)
      PROVE  PromiseInv'
  BY <1>4 DEF LoseRequest, ReadFromClient, PromiseInv, OneRequest, OneReply,
              TableIsRun, AnswerIsRun, Current, TypeOK
<1>5. ASSUME NEW x \in Calls, ReadFromClient(x), RouteRequest(x),
             UNCHANGED clientVars
      PROVE  OneRequest' /\ TableIsRun' /\ AnswerIsRun'
  <2>1. OneRequest'
    BY <1>5 DEF ReadFromClient, PromiseInv, OneRequest, Current, TypeOK
  <2>2. TableIsRun' /\ AnswerIsRun'
    BY <1>5, OwnResponse DEF PromiseInv, AnswerIsRun
  <2>. QED  BY <2>1, <2>2
<1>6. ASSUME NEW x \in Calls, ServeAndLoseReply(x)
      PROVE  PromiseInv'
  <2>1. OneReply'
    BY <1>6, OwnResponse
       DEF ServeAndLoseReply, ReadFromClient, PromiseInv, OneReply, Current, TypeOK
  <2>. QED  BY <1>5, <1>6, <2>1 DEF ServeAndLoseReply, PromiseInv
<1>7. ASSUME NEW x \in Calls, ServeAndReply(x)
      PROVE  PromiseInv'
  <2>1. /\ requests[x] = 1 /\ waiting[x[1]] /\ x = Current(x[1])
        /\ requests' = [requests EXCEPT ![x] = 0]
    <3>1. requests[x] > 0 /\ requests' = [requests EXCEPT ![x] = requests[x] - 1]
      BY <1>7 DEF ServeAndReply, ReadFromClient
    <3>2. requests[x] = 1 /\ waiting[x[1]] /\ x = Current(x[1])
      BY <3>1 DEF PromiseInv, OneRequest
    <3>. QED  BY <3>1, <3>2
  <2>2. /\ \A y \in Calls : executed[y] > 0 => executed'[y] > 0
        /\ executed'[x] > 0
        /\ replies' = [replies EXCEPT ![x[1]][x] = @ + 1]
    BY <1>7, OwnResponse DEF ServeAndReply, PromiseInv
  <2>3. \A y \in Calls : replies[x[1]][y] = 0
    BY <2>1 DEF PromiseInv, OneReply, TypeOK
  <2>4. OneReply'
    <3>. SUFFICES ASSUME NEW c \in Clients, NEW y \in Calls, replies'[c][y] > 0
                  PROVE  /\ replies'[c][y] = 1 /\ waiting'[c] /\ y = Current(c)'
                         /\ requests'[y] = 0 /\ executed'[y] > 0
      BY DEF OneReply
    <3>1. CASE c = x[1]
      <4>1. y = x
        BY <2>2, <2>3, <3>1 DEF TypeOK
      <4>. QED
        BY <1>7, <2>1, <2>2, <2>3, <3>1, <4>1 DEF ServeAndReply, Current, TypeOK
    <3>2. CASE c # x[1]
      <4>1. replies'[c][y] = replies[c][y]
        BY <2>2, <3>2 DEF TypeOK
      <4>. QED
        BY <1>7, <2>1, <2>2, <3>2, <4>1
           DEF ServeAndReply, PromiseInv, OneReply, Current, TypeOK
    <3>. QED  BY <3>1, <3>2
  <2>. QED  BY <1>5, <1>7, <2>4 DEF ServeAndReply, PromiseInv
<1>8. ASSUME NEW c \in Clients, NEW x \in Calls, LoseReply(c, x)
      PROVE  PromiseInv'
  BY <1>8 DEF LoseReply, PromiseInv, OneRequest, OneReply, TableIsRun,
              AnswerIsRun, Current, TypeOK
<1>9. CASE RestartServer
  BY <1>9 DEF RestartServer, PromiseInv, OneRequest, OneReply, TableIsRun,
              AnswerIsRun, Current, TypeOK
<1>10. CASE UNCHANGED vars
  BY <1>10 DEF vars, PromiseInv, OneRequest, OneReply, TableIsRun, AnswerIsRun,
               Current
<1>. QED
  BY <1>1, <1>2, <1>3, <1>4, <1>6, <1>7, <1>8, <1>9, <1>10 DEF Next

LEMMA PromiseInvariant == ASSUME Reliable PROVE Spec => []PromiseInv
<1>1. TypeOK /\ PromiseInv /\ [Next]_vars => PromiseInv'
  BY PromiseInvNext
<1>. QED  BY <1>1, PromiseInvInit, TypeInvariant, PTL DEF Spec

\* Whatever the retries and losses, a call that returned was executed, if the
\* client's timeout exceeds every delay and the table cannot confuse two calls.
THEOREM AnsweredIsExecutedHolds == ASSUME Reliable PROVE Spec => []AnsweredIsExecuted
<1>1. PromiseInv => AnsweredIsExecuted
  BY DEF PromiseInv, AnswerIsRun, AnsweredIsExecuted
<1>. QED  BY <1>1, PromiseInvariant, PTL

\* Under the same assumption no call returns with the reply to another.
THEOREM OwnAnswerHolds == ASSUME Reliable PROVE Spec => []OwnAnswer
<1>1. PromiseInv => OwnAnswer
  BY DEF PromiseInv, AnswerIsRun, OwnAnswer
<1>. QED  BY <1>1, PromiseInvariant, PTL

\* One client process whose calls do not exhaust the identifiers, and a server
\* that is not restarted: the case the at-most-once table is right in.
LEMMA OneClientIsUnique ==
  ASSUME NEW c, Clients = {c}, MaxCalls <= IdSpace
  PROVE  IdsUnique
<1>. SUFFICES ASSUME NEW x \in Calls, NEW y \in Calls,
                     MessageId(x) = MessageId(y)
              PROVE  x = y
  BY DEF IdsUnique
<1>1. /\ x = <<c, x[2]>> /\ x[2] \in 1..MaxCalls
      /\ y = <<c, y[2]>> /\ y[2] \in 1..MaxCalls
  BY CallShape
<1>2. ASSUME NEW n \in 1..MaxCalls
      PROVE  (n - 1) % IdSpace = n - 1
  BY InvocationAssumption
<1>3. x[2] = y[2]
  BY <1>1, <1>2 DEF MessageId
<1>. QED  BY <1>1, <1>3

\* The step that refines: RouteRequest executes an outstanding call, once under
\* "amo", or sends a stored response and changes nothing the promise is about.
LEMMA RouteRequestRefines ==
  ASSUME TypeOK, RunIsStored, PromiseInv, Reliable, NEW x \in Calls,
         requests[x] > 0, RouteRequest(x), UNCHANGED <<clientVars, restarts>>
  PROVE  Promise!Execute(x[1]) \/ UNCHANGED Promise!vars
<1>1. waiting[x[1]] /\ x = Current(x[1]) /\ x[1] \in Clients
  BY CallShape DEF PromiseInv, OneRequest
<1>2. CASE IsRepeat(x) /\ UNCHANGED <<messageResponses, executed>>
  BY <1>2 DEF Promise!vars, clientVars
<1>3. CASE ~IsRepeat(x) /\ RunHandler(x)
  <2>1. executed[x] = 0 \/ Semantics = "alo"
    <3>. SUFFICES ASSUME Semantics # "alo"
                  PROVE  executed[x] = 0
      OBVIOUS
    <3>1. Semantics = "amo" /\ restarts = 0
      BY InvocationAssumption DEF Reliable, TypeOK
    <3>2. messageResponses[MessageId(x)] = NoReply
      BY <1>3, <3>1 DEF IsRepeat
    <3>. QED
      BY <3>1, <3>2, CallShape DEF RunIsStored, TypeOK
  <2>2. executed' = [executed EXCEPT ![x] = Again(@)]
    BY <1>3 DEF RunHandler
  <2>. QED
    BY <1>1, <2>1, <2>2
       DEF Promise!Execute, Promise!Current, Promise!Again, Current, Again,
           clientVars
<1>. QED  BY <1>2, <1>3 DEF RouteRequest

\* Retry loop, packet loop and table together are the remote calls of
\* RemoteCall: executed before they return, and not twice under "amo".
THEOREM Refinement == ASSUME Reliable PROVE Spec => ImplementsRemoteCall
<1>1. Init => Promise!Init
  BY DEF Init, Promise!Init, Calls, Promise!Calls
<1>2. ASSUME TypeOK, RunIsStored, PromiseInv, [Next]_vars
      PROVE  [Promise!Next]_(Promise!vars)
  <2>. USE DEF clientVars, serverVars
  <2>1. ASSUME NEW c \in Clients, Call(c)
        PROVE  Promise!Next
    BY <2>1 DEF Call, Promise!Call, Promise!Next
  <2>2. ASSUME NEW c \in Clients, Timeout(c)
        PROVE  UNCHANGED Promise!vars
    BY <2>2 DEF Timeout, Promise!vars
  <2>3. ASSUME NEW c \in Clients, Receive(c)
        PROVE  Promise!Next
    <3>1. PICK x \in Calls : replies[c][x] > 0
      BY <2>3 DEF Receive
    <3>2. executed[Current(c)] > 0
      BY <3>1, <1>2 DEF PromiseInv, OneReply
    <3>. QED
      BY <2>3, <3>2
         DEF Receive, Promise!Return, Promise!Current, Current, Promise!Next
  <2>4. ASSUME NEW x \in Calls, LoseRequest(x)
        PROVE  UNCHANGED Promise!vars
    BY <2>4 DEF LoseRequest, Promise!vars
  <2>5. ASSUME NEW x \in Calls, ServeAndLoseReply(x) \/ ServeAndReply(x)
        PROVE  Promise!Next \/ UNCHANGED Promise!vars
    <3>1. requests[x] > 0 /\ RouteRequest(x) /\ UNCHANGED <<clientVars, restarts>>
      BY <2>5 DEF ServeAndLoseReply, ServeAndReply, ReadFromClient
    <3>2. Promise!Execute(x[1]) \/ UNCHANGED Promise!vars
      BY <1>2, <3>1, RouteRequestRefines
    <3>. QED
      BY <3>2, CallShape DEF Promise!Next
  <2>6. ASSUME NEW c \in Clients, NEW x \in Calls, LoseReply(c, x)
        PROVE  UNCHANGED Promise!vars
    BY <2>6 DEF LoseReply, Promise!vars
  <2>7. CASE RestartServer
    BY <2>7 DEF RestartServer, Promise!vars
  <2>8. CASE UNCHANGED vars
    BY <2>8 DEF vars, Promise!vars
  <2>. QED
    BY <1>2, <2>1, <2>2, <2>3, <2>4, <2>5, <2>6, <2>7, <2>8 DEF Next
<1>. QED
  BY <1>1, <1>2, TypeInvariant, RunIsStoredInvariant, PromiseInvariant, PTL
     DEF Spec, ImplementsRemoteCall, Promise!Spec

\* The case at-most-once is right in: one client process whose calls do not
\* exhaust the identifiers, and a server that is not restarted.
COROLLARY SingleClientRefinement ==
  ASSUME NEW c, Clients = {c}, MaxCalls <= IdSpace, Timely, MaxRestarts = 0
  PROVE  Spec => ImplementsRemoteCall
<1>1. Reliable
  BY OneClientIsUnique DEF Reliable
<1>. QED  BY <1>1, Refinement

-----------------------------------------------------------------------------
(***************************************************************************)
(* What is kept without Reliable: timeouts may be premature, the server    *)
(* may be restarted, and calls may share identifiers.                      *)
(***************************************************************************)

\* Only calls that were made are asked for and run.
Asked ==
  \A x \in Calls : requests[x] > 0 \/ executed[x] > 0 => x[2] <= calls[x[1]]

\* Every reply on its way was made by a handler.
ReplyIsRun ==
  \A c \in Clients, x \in Calls : replies[c][x] > 0 => executed[x] > 0

\* Calls that have an answer were made.
AnsweredWereMade ==
  \A x \in Calls : answer[x] # NoReply => x[2] <= calls[x[1]]

MadeInv == Asked /\ ReplyIsRun /\ TableIsRun /\ AnsweredWereMade /\ AnswerWasMade

\* RouteRequest returns a response some handler made, and forgets no run.
LEMMA ResponseIsRun ==
  ASSUME TypeOK, TableIsRun, NEW x \in Calls, RouteRequest(x)
  PROVE  /\ messageResponses'[MessageId(x)] \in Calls
         /\ MessageId(messageResponses'[MessageId(x)]) = MessageId(x)
         /\ executed'[messageResponses'[MessageId(x)]] > 0
         /\ \A y \in Calls : executed[y] > 0 => executed'[y] > 0
         /\ \A y \in Calls : executed'[y] > 0 => y = x \/ executed[y] > 0
         /\ TableIsRun'
<1>1. MessageId(x) \in Ids
  BY MessageIdType
<1>2. CASE IsRepeat(x) /\ UNCHANGED <<messageResponses, executed>>
  <2>1. messageResponses[MessageId(x)] \in Calls
    BY <1>1, <1>2 DEF IsRepeat, TypeOK
  <2>. QED  BY <1>1, <1>2, <2>1 DEF IsRepeat, TableIsRun
<1>3. CASE RunHandler(x)
  <2>1. /\ messageResponses'[MessageId(x)] = x
        /\ executed'[x] > 0
        /\ \A y \in Calls : executed[y] > 0 => executed'[y] > 0
        /\ \A y \in Calls : executed'[y] > 0 => y = x \/ executed[y] > 0
    BY <1>1, <1>3 DEF RunHandler, Again, TypeOK
  <2>2. ASSUME NEW i \in Ids, messageResponses'[i] # NoReply
        PROVE  /\ MessageId(messageResponses'[i]) = i
               /\ executed'[messageResponses'[i]] > 0
    <3>1. CASE i = MessageId(x)
      BY <3>1, <2>1
    <3>2. CASE i # MessageId(x)
      BY <3>2, <2>1, <2>2, <1>3 DEF RunHandler, TableIsRun, TypeOK
    <3>. QED  BY <3>1, <3>2
  <2>. QED  BY <2>1, <2>2 DEF TableIsRun
<1>. QED  BY <1>2, <1>3 DEF RouteRequest

LEMMA MadeInvNext ==
  ASSUME TypeOK, MadeInv, [Next]_vars
  PROVE  MadeInv'
<1>. USE CallShape, InvocationAssumption DEF clientVars, serverVars
<1>1. ASSUME NEW c \in Clients, Call(c)
      PROVE  MadeInv'
  <2>1. <<c, calls[c] + 1>> \in Calls
    BY <1>1 DEF Call, TypeOK, Calls
  <2>2. \A d \in Clients : calls[d] \in Nat /\ calls'[d] \in Nat /\ calls[d] <= calls'[d]
    BY <1>1 DEF Call, TypeOK
  <2>3. Asked'
    <3>1. \A x \in Calls : requests'[x] > 0 => x = <<c, calls[c] + 1>> \/ requests[x] > 0
      BY <1>1 DEF Call, TypeOK
    <3>2. calls'[c] = calls[c] + 1
      BY <1>1 DEF Call, TypeOK
    <3>. QED  BY <1>1, <2>2, <3>1, <3>2 DEF Call, MadeInv, Asked
  <2>4. AnsweredWereMade'
    BY <1>1, <2>2 DEF Call, MadeInv, AnsweredWereMade
  <2>. QED
    BY <1>1, <2>3, <2>4 DEF Call, MadeInv, ReplyIsRun, TableIsRun, AnswerWasMade
<1>2. ASSUME NEW c \in Clients, Timeout(c)
      PROVE  MadeInv'
  <2>1. Current(c) \in Calls /\ Current(c)[1] = c /\ Current(c)[2] = calls[c]
        /\ calls[c] \in Nat
    BY <1>2, CurrentIsCall DEF Timeout, Current
  <2>2. Asked'
    BY <1>2, <2>1 DEF Timeout, MadeInv, Asked, TypeOK
  <2>. QED
    BY <1>2, <2>2 DEF Timeout, MadeInv, ReplyIsRun, TableIsRun, AnsweredWereMade,
                      AnswerWasMade
<1>3. ASSUME NEW c \in Clients, Receive(c)
      PROVE  MadeInv'
  <2>1. PICK x \in Calls :
          /\ replies[c][x] > 0
          /\ replies' = [replies EXCEPT ![c][x] = @ - 1]
          /\ answer' = [answer EXCEPT ![Current(c)] = x]
    BY <1>3 DEF Receive
  <2>2. Current(c) \in Calls /\ Current(c)[1] = c /\ Current(c)[2] = calls[c]
        /\ calls[c] \in Nat
    BY <1>3, CurrentIsCall DEF Receive, Current
  <2>3. executed[x] > 0 /\ x[2] <= calls[x[1]]
    BY <2>1 DEF MadeInv, ReplyIsRun, Asked
  <2>4. AnswerWasMade'
    <3>1. \A z \in Calls : answer'[z] = IF z = Current(c) THEN x ELSE answer[z]
      BY <2>1, <2>2 DEF TypeOK
    <3>. QED  BY <1>3, <2>2, <2>3, <3>1 DEF Receive, MadeInv, AnswerWasMade
  <2>5. AnsweredWereMade'
    BY <1>3, <2>1, <2>2 DEF Receive, MadeInv, AnsweredWereMade, TypeOK
  <2>6. ReplyIsRun'
    BY <1>3, <2>1 DEF Receive, MadeInv, ReplyIsRun, TypeOK
  <2>. QED
    BY <1>3, <2>4, <2>5, <2>6 DEF Receive, MadeInv, Asked, TableIsRun
<1>4. ASSUME NEW x \in Calls, LoseRequest(x)
      PROVE  MadeInv'
  <2>1. Asked'
    BY <1>4 DEF LoseRequest, ReadFromClient, MadeInv, Asked, TypeOK
  <2>. QED
    BY <1>4, <2>1 DEF LoseRequest, MadeInv, ReplyIsRun, TableIsRun,
                      AnsweredWereMade, AnswerWasMade
<1>5. ASSUME NEW x \in Calls, ReadFromClient(x), RouteRequest(x),
             UNCHANGED clientVars
      PROVE  Asked' /\ TableIsRun' /\ AnsweredWereMade' /\ AnswerWasMade'
  <2>1. x[2] <= calls[x[1]]
    BY <1>5 DEF ReadFromClient, MadeInv, Asked
  <2>2. \A y \in Calls : requests'[y] > 0 => requests[y] > 0
    BY <1>5 DEF ReadFromClient, TypeOK
  <2>3. /\ \A y \in Calls : executed[y] > 0 => executed'[y] > 0
        /\ \A y \in Calls : executed'[y] > 0 => y = x \/ executed[y] > 0
        /\ TableIsRun'
    BY <1>5, ResponseIsRun DEF MadeInv
  <2>4. Asked'
    BY <1>5, <2>1, <2>2, <2>3 DEF MadeInv, Asked
  <2>5. AnsweredWereMade' /\ AnswerWasMade'
    BY <1>5, <2>3 DEF MadeInv, AnsweredWereMade, AnswerWasMade
  <2>. QED  BY <2>3, <2>4, <2>5
<1>6. ASSUME NEW x \in Calls, ServeAndLoseReply(x)
      PROVE  MadeInv'
  <2>1. \A y \in Calls : executed[y] > 0 => executed'[y] > 0
    BY <1>6, ResponseIsRun DEF ServeAndLoseReply, MadeInv
  <2>2. ReplyIsRun'
    BY <1>6, <2>1 DEF ServeAndLoseReply, MadeInv, ReplyIsRun
  <2>. QED  BY <1>5, <1>6, <2>2 DEF ServeAndLoseReply, MadeInv
<1>7. ASSUME NEW x \in Calls, ServeAndReply(x)
      PROVE  MadeInv'
  <2>. DEFINE r == messageResponses'[MessageId(x)]
  <2>1. /\ r \in Calls /\ executed'[r] > 0
        /\ \A y \in Calls : executed[y] > 0 => executed'[y] > 0
    BY <1>7, ResponseIsRun DEF ServeAndReply, MadeInv
  <2>2. replies' = [replies EXCEPT ![x[1]][r] = @ + 1]
    BY <1>7 DEF ServeAndReply
  <2>. HIDE DEF r
  <2>3. \A c \in Clients, y \in Calls : replies'[c][y] > 0 => y = r \/ replies[c][y] > 0
    BY <2>1, <2>2 DEF TypeOK
  <2>4. ReplyIsRun'
    BY <2>1, <2>3 DEF MadeInv, ReplyIsRun
  <2>. QED  BY <1>5, <1>7, <2>4 DEF ServeAndReply, MadeInv
<1>8. ASSUME NEW c \in Clients, NEW x \in Calls, LoseReply(c, x)
      PROVE  MadeInv'
  <2>1. ReplyIsRun'
    BY <1>8 DEF LoseReply, MadeInv, ReplyIsRun, TypeOK
  <2>. QED
    BY <1>8, <2>1 DEF LoseReply, MadeInv, Asked, TableIsRun, AnsweredWereMade,
                      AnswerWasMade
<1>9. CASE RestartServer
  BY <1>9 DEF RestartServer, MadeInv, Asked, ReplyIsRun, TableIsRun,
              AnsweredWereMade, AnswerWasMade
<1>10. CASE UNCHANGED vars
  BY <1>10 DEF vars, MadeInv, Asked, ReplyIsRun, TableIsRun, AnsweredWereMade,
               AnswerWasMade
<1>. QED
  BY <1>1, <1>2, <1>3, <1>4, <1>6, <1>7, <1>8, <1>9, <1>10 DEF Next

LEMMA MadeInvariant == Spec => []MadeInv
<1>1. Init => MadeInv
  BY CallShape DEF Init, MadeInv, Asked, ReplyIsRun, TableIsRun, AnsweredWereMade,
                   AnswerWasMade
<1>2. TypeOK /\ MadeInv /\ [Next]_vars => MadeInv'
  BY MadeInvNext
<1>. QED  BY <1>1, <1>2, TypeInvariant, PTL DEF Spec

\* Under either semantics, whatever the network, the timeouts and the restarts: a
\* call that returns has an answer a handler made, and not one to a later call.
THEOREM AnswerWasMadeHolds == Spec => []AnswerWasMade
<1>1. MadeInv => AnswerWasMade
  BY DEF MadeInv
<1>. QED  BY <1>1, MadeInvariant, PTL

\* No two clients use one identifier.
ClientsApart == \A x, y \in Calls : MessageId(x) = MessageId(y) => x[1] = y[1]

\* The stored response is for a repeat of a request of the same client, if
\* clients do not share identifiers or nothing is answered from the table:
\* timeouts may be premature and the server may be restarted.
THEOREM StoredResponseForRepeatsOnlyHolds ==
  ASSUME ClientsApart \/ Semantics = "alo"
  PROVE  Spec => []StoredResponseForRepeatsOnly
<1>. USE CallShape, InvocationAssumption DEF clientVars, serverVars
<1>1. Init => StoredResponseForRepeatsOnly
  BY DEF Init, StoredResponseForRepeatsOnly
<1>2. TypeOK /\ MadeInv /\ StoredResponseForRepeatsOnly /\ [Next]_vars
        => StoredResponseForRepeatsOnly'
  <2>. SUFFICES ASSUME TypeOK, MadeInv, StoredResponseForRepeatsOnly, [Next]_vars
                PROVE  StoredResponseForRepeatsOnly'
    OBVIOUS
  <2>1. CASE UNCHANGED replies
    BY <2>1 DEF StoredResponseForRepeatsOnly
  <2>2. ASSUME NEW c \in Clients, Receive(c)
        PROVE  StoredResponseForRepeatsOnly'
    BY <2>2 DEF Receive, StoredResponseForRepeatsOnly, TypeOK
  <2>3. ASSUME NEW c \in Clients, NEW x \in Calls, LoseReply(c, x)
        PROVE  StoredResponseForRepeatsOnly'
    BY <2>3 DEF LoseReply, StoredResponseForRepeatsOnly, TypeOK
  <2>4. ASSUME NEW x \in Calls, ServeAndReply(x)
        PROVE  StoredResponseForRepeatsOnly'
    <3>. DEFINE r == messageResponses'[MessageId(x)]
    <3>1. r \in Calls /\ MessageId(r) = MessageId(x)
      BY <2>4, ResponseIsRun DEF ServeAndReply, MadeInv
    <3>2. r[1] = x[1]
      <4>1. CASE ClientsApart
        BY <3>1, <4>1 DEF ClientsApart
      <4>2. CASE Semantics = "alo"
        <5>1. RunHandler(x) /\ MessageId(x) \in Ids
          BY <2>4, <4>2, MessageIdType DEF ServeAndReply, RouteRequest, IsRepeat
        <5>. QED  BY <5>1 DEF RunHandler, TypeOK
      <4>. QED  BY <4>1, <4>2
    <3>3. replies' = [replies EXCEPT ![x[1]][r] = @ + 1]
      BY <2>4 DEF ServeAndReply
    <3>. HIDE DEF r
    <3>4. \A c \in Clients, y \in Calls :
            replies'[c][y] > 0 => (c = x[1] /\ y = r) \/ replies[c][y] > 0
      BY <3>1, <3>3 DEF TypeOK
    <3>. QED  BY <3>2, <3>4 DEF StoredResponseForRepeatsOnly
  <2>. QED
    BY <2>1, <2>2, <2>3, <2>4
       DEF Next, vars, Call, Timeout, LoseRequest, ServeAndLoseReply, RestartServer
<1>. QED  BY <1>1, <1>2, TypeInvariant, MadeInvariant, PTL DEF Spec

=============================================================================
