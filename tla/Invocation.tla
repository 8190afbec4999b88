----------------------------- MODULE Invocation -----------------------------
(***************************************************************************)
(* Remote invocation over UDP: the retry loop every client request goes    *)
(* through (client/client_udp.cpp), the server's packet loop               *)
(* (server/main.go) and the request router with its table of stored        *)
(* responses (server/apis/request_router.go).                              *)
(*                                                                         *)
(* A call is named <<c, n>>: the n-th request of client process c.  What a *)
(* request asks for is abstracted away; a reply is identified by the call  *)
(* whose handler produced it, which the bytes on the wire do not show.     *)
(***************************************************************************)
EXTENDS Naturals

CONSTANTS
  Clients,      \* client processes; a restarted client is another process
  Semantics,    \* the server's -is flag: "alo" or "amo"
  IdSpace,      \* number of message identifiers (2^32 in the code)
  Timely,       \* TRUE: the receive timeout fires only when nothing the
                \*   client still waits for is in flight
  NoReply,      \* stands for an absent entry or answer
  MaxCalls,     \* bound: requests one client makes
  MaxCopies,    \* bound: copies of one datagram in flight
  MaxRestarts   \* bound: times the server process is started again

ASSUME InvocationAssumption ==
  /\ Semantics \in {"alo", "amo"}
  /\ IdSpace \in Nat \ {0}
  /\ Timely \in BOOLEAN
  /\ NoReply \notin Clients \X Nat
  /\ MaxCalls \in Nat /\ MaxCopies \in Nat \ {0} /\ MaxRestarts \in Nat

VARIABLES
  calls,             \* calls[c]: requests client c has marshalled
  waiting,           \* waiting[c]: c is inside the retry loop of the last one
  requests,          \* requests[x]: copies of call x's request in flight
  replies,           \* replies[c][x]: copies in flight to c of x's reply
  messageResponses,  \* the server's table, by message identifier
  executed,          \* history: 0, 1 or 2 ("more than once") runs of a handler
  answer,            \* history: the reply a call returned with
  restarts           \* history: times the server was started again

clientVars == <<calls, waiting, answer>>
serverVars == <<messageResponses, executed, restarts>>
vars == <<clientVars, requests, replies, serverVars>>

Calls == Clients \X (1..MaxCalls)
Ids == 0..(IdSpace - 1)

\* Every client counts its requests from 0 in a uint32_t.
MessageId(x) == (x[2] - 1) % IdSpace

Current(c) == <<c, calls[c]>>

\* Execution counts above one are not told apart.
Again(n) == IF n = 2 THEN 2 ELSE n + 1

TypeOK ==
  /\ calls \in [Clients -> 0..MaxCalls]
  /\ waiting \in [Clients -> BOOLEAN]
  /\ requests \in [Calls -> 0..MaxCopies]
  /\ replies \in [Clients -> [Calls -> 0..MaxCopies]]
  /\ messageResponses \in [Ids -> Calls \cup {NoReply}]
  /\ executed \in [Calls -> 0..2]
  /\ answer \in [Calls -> Calls \cup {NoReply}]
  /\ restarts \in 0..MaxRestarts
  /\ \A c \in Clients : waiting[c] => calls[c] > 0

Init ==
  /\ calls = [c \in Clients |-> 0]
  /\ waiting = [c \in Clients |-> FALSE]
  /\ requests = [x \in Calls |-> 0]
  /\ replies = [c \in Clients |-> [x \in Calls |-> 0]]
  /\ messageResponses = [i \in Ids |-> NoReply]
  /\ executed = [x \in Calls |-> 0]
  /\ answer = [x \in Calls |-> NoReply]
  /\ restarts = 0

-----------------------------------------------------------------------------
(***************************************************************************)
(* The client.                                                             *)
(***************************************************************************)

\* A choice of the menu: marshal with the next identifier, id++, sendto.  No
\* request of this call was sent before.
Call(c) ==
  /\ ~waiting[c]
  /\ calls[c] < MaxCalls
  /\ calls' = [calls EXCEPT ![c] = @ + 1]
  /\ waiting' = [waiting EXCEPT ![c] = TRUE]
  /\ requests' = [requests EXCEPT ![<<c, calls[c] + 1>>] = 1]
  /\ UNCHANGED <<replies, answer, serverVars>>

\* Nothing the client could still get an answer from is in flight.
Quiet(c) ==
  /\ requests[Current(c)] = 0
  /\ \A x \in Calls : replies[c][x] = 0

MayTimeoutEarly(c) == TRUE
NoRetry(c) == FALSE
MayTimeout(c) == Timely => Quiet(c)

\* recvfrom fails after SO_RCVTIMEO (or sendto failed): the same marshalled
\* request, with the same identifier, is sent again.
Timeout(c) ==
  /\ waiting[c]
  /\ MayTimeout(c)
  /\ requests[Current(c)] < MaxCopies
  /\ requests' = [requests EXCEPT ![Current(c)] = @ + 1]
  /\ UNCHANGED <<clientVars, replies, serverVars>>

ReceiveUnchecked(c) ==
  /\ waiting[c]
  /\ \E x \in Calls : answer' = [answer EXCEPT ![Current(c)] = x]
  /\ waiting' = [waiting EXCEPT ![c] = FALSE]
  /\ UNCHANGED <<calls, requests, replies, serverVars>>

\* recvfrom returns: whatever datagram arrived ends the retry loop.
Receive(c) ==
  /\ waiting[c]
  /\ \E x \in Calls :
       /\ replies[c][x] > 0
       /\ replies' = [replies EXCEPT ![c][x] = @ - 1]
       /\ answer' = [answer EXCEPT ![Current(c)] = x]
  /\ waiting' = [waiting EXCEPT ![c] = FALSE]
  /\ UNCHANGED <<calls, requests, serverVars>>

-----------------------------------------------------------------------------
(***************************************************************************)
(* The server: one iteration of its packet loop per action.                *)
(***************************************************************************)

ReadErrorIgnored(x) ==
  requests' = [requests EXCEPT ![x] = @ - 1]

\* ReadFromUDP returns a datagram.
ReadFromClient(x) ==
  /\ requests[x] > 0
  /\ requests' = [requests EXCEPT ![x] = @ - 1]

NeverRepeated(x) == FALSE

\* At-most-once semantics, and a response is stored for the identifier.
IsRepeat(x) ==
  /\ Semantics = "amo"
  /\ messageResponses[MessageId(x)] # NoReply

\* The handler of the request's type runs and its response is stored.
RunHandler(x) ==
  /\ executed' = [executed EXCEPT ![x] = Again(@)]
  /\ messageResponses' = [messageResponses EXCEPT ![MessageId(x)] = x]

RouteRequest(x) ==
  \/ /\ IsRepeat(x)
     /\ UNCHANGED <<messageResponses, executed>>
  \/ /\ ~IsRepeat(x)
     /\ RunHandler(x)

\* handlePacket when the request is lost (simulated there, or on its way).
LoseRequest(x) ==
  /\ ReadFromClient(x)
  /\ UNCHANGED <<clientVars, replies, serverVars>>

\* handlePacket when the reply is lost: simulated, or WriteToUDP failed.
ServeAndLoseReply(x) ==
  /\ ReadFromClient(x)
  /\ RouteRequest(x)
  /\ UNCHANGED <<clientVars, replies, restarts>>

\* handlePacket to its end: the response goes to the packet's sender.
ServeAndReply(x) ==
  /\ ReadFromClient(x)
  /\ RouteRequest(x)
  /\ LET response == messageResponses'[MessageId(x)]
     IN  /\ replies[x[1]][response] < MaxCopies
         /\ replies' = [replies EXCEPT ![x[1]][response] = @ + 1]
  /\ UNCHANGED <<clientVars, restarts>>

\* The server process ends and is started again: its table is empty.
RestartServer ==
  /\ restarts < MaxRestarts
  /\ restarts' = restarts + 1
  /\ messageResponses' = [i \in Ids |-> NoReply]
  /\ UNCHANGED <<clientVars, requests, replies, executed>>

\* The network loses a reply that is on its way.
LoseReply(c, x) ==
  /\ replies[c][x] > 0
  /\ replies' = [replies EXCEPT ![c][x] = @ - 1]
  /\ UNCHANGED <<clientVars, requests, serverVars>>

-----------------------------------------------------------------------------
Next ==
  \/ \E c \in Clients : Call(c) \/ Timeout(c) \/ Receive(c)
  \/ \E x \in Calls : LoseRequest(x) \/ ServeAndLoseReply(x) \/ ServeAndReply(x)
  \/ \E c \in Clients, x \in Calls : LoseReply(c, x)
  \/ RestartServer

Spec == Init /\ [][Next]_vars

(***************************************************************************)
(* Fairness.  The client's retry loop and the server's packet loop run for *)
(* ever, so a client that can time out does.  Requests and replies may be  *)
(* lost any number of times, but not always: of a client's requests that   *)
(* reach the server again and again one is some time answered, and a reply *)
(* that is again and again on its way is some time received.               *)
(***************************************************************************)
FairSpec ==
  /\ Spec
  /\ \A c \in Clients :
       /\ WF_vars(Timeout(c))
       /\ SF_vars(\E n \in 1..MaxCalls : ServeAndReply(<<c, n>>))
       /\ SF_vars(Receive(c))

-----------------------------------------------------------------------------
(***************************************************************************)
(* Properties.                                                             *)
(***************************************************************************)

\* With at-most-once semantics, and until the server is restarted, at most
\* one handler runs under one message identifier, and it runs once, however
\* often requests are retried, delayed or reordered (RouteRequest's table).
IdExecutedOnce ==
  Semantics = "amo" /\ restarts = 0 =>
    \A x, y \in Calls :
      executed[x] > 0 /\ executed[y] > 0 /\ MessageId(x) = MessageId(y)
        => x = y /\ executed[x] = 1

\* A call whose retry loop ended was executed by the server.  This is what
\* "at least once" means to the person at the client.
AnsweredIsExecuted ==
  \A x \in Calls : answer[x] # NoReply => executed[x] > 0

\* What a retry loop ends with may be the wrong reply, but never one nobody made
\* or, of the client's own, one to a later call: a handler ran and made it, for a
\* call made by then.  This is kept when timeouts are premature, datagrams are
\* reordered, and identifiers wrap round or are shared (client_udp.cpp:306-308).
AnswerWasMade ==
  \A x, y \in Calls : answer[x] = y =>
    executed[y] > 0 /\ (y[1] = x[1] => y[2] <= x[2])

\* The reply a retry loop ends with is the one the server made for that very
\* request, although a reply carries no message identifier.
OwnAnswer ==
  \A x \in Calls : answer[x] \in {NoReply, x}

\* A stored response is sent again only to a repeat of the request it was
\* made for: every reply on its way to a client comes from a call of its own.
StoredResponseForRepeatsOnly ==
  \A c \in Clients, x \in Calls : replies[c][x] > 0 => x[1] = c

\* Every retry loop ends.
EveryCallReturns ==
  \A c \in Clients : waiting[c] ~> ~waiting[c]

\* The retry loops and the server together behave as the remote calls of the
\* module RemoteCall, repeatable ones under "alo".
Promise == INSTANCE RemoteCall WITH Repeatable <- (Semantics = "alo")
ImplementsRemoteCall == Promise!Spec

=============================================================================
