------------------------------- MODULE Client -------------------------------
(***************************************************************************)
(* One client process from its menu to the server and back                 *)
(* (client/client_udp.cpp): the choices of the menu and their prompts, the *)
(* retry loop, the socket that replies and notifications share, the        *)
(* unmarshalling outside every try, and the window in which it listens for *)
(* updates.  The server receives, routes, unmarshals, answers and notifies *)
(* (server/main.go, network/network.go, apis/*/main.go).  What is on the   *)
(* wire are the bytes of module Wire, cut off by the buffers they are      *)
(* received in; what the services answer is any answer of their type.      *)
(*                                                                         *)
(* Datagrams may be lost, delayed and reordered.  Two equal ones on their  *)
(* way are one: the second may as well be sent later.                      *)
(***************************************************************************)
EXTENDS Wire, FiniteSets

CONSTANTS
  Texts,          \* what a text prompt makes of a line: no white space
  Numbers,        \* what a number prompt accepts
  Contents,       \* contents of files, to be read or sent as an update
  Times,          \* modification times of files, eight bytes each
  Messages,       \* error messages of the services
  InvalidRequest, \* error message of a request that does not validate
  ServerBuffer,   \* bytes the server receives of a datagram: 1024
  ClientBuffer,   \* bytes a retry loop receives of one: 5000
  MaxDatagram,    \* bytes of the longest datagram that can be sent: 65507
  MaxCalls,       \* bound: requests the client makes
  MaxEarly,       \* bound: timeouts while an answer is still possible
  MaxInbox        \* bound: datagrams on their way to the client

\* Prompts read lines of at most 1022 bytes, and numbers as int.
ASSUME ClientAssumption ==
  /\ \A t \in Texts : t \in Seq(Byte) /\ Len(t) <= 1022
  /\ Numbers \subseteq Count
  /\ Contents \subseteq Seq(Byte) /\ Messages \subseteq Seq(Byte)
  /\ \A s \in Contents \cup Messages \cup {InvalidRequest} : Len(s) \in Count
  /\ InvalidRequest \in Seq(Byte)
  /\ \A t \in Times : t \in Seq(Byte) /\ Len(t) = 8
  /\ ServerBuffer \in Nat /\ ServerBuffer > 17
  /\ ClientBuffer \in Nat /\ ClientBuffer > 9
  /\ MaxDatagram \in Nat
  /\ MaxCalls \in Count \ {0} /\ MaxEarly \in Nat /\ MaxInbox \in Nat

VARIABLES
  state,     \* what the client is at: "menu", "waiting" in a retry loop, "timed"
             \*   between the two requests of READ, "listening", "ended", "died"
  calls,     \* requests marshalled; the next message identifier
  request,   \* the last of them
  readReq,   \* the READ that was chosen, while its time is asked for
  early,     \* history: timeouts while an answer was still possible
  strange,   \* history: another datagram was taken for the reply to a request
  elapsed,   \* time since the window was opened
  idle,      \* time recvfrom has been waiting in the window
  requests,  \* requests on their way to the server
  inbox,     \* datagrams on their way to the client, or queued at its socket
  up,        \* the server process runs
  left,      \* how much longer a call's subscription is active
  unsent     \* history: an answer to the last request was too long to be sent

windowVars == <<elapsed, idle>>
historyVars == <<early, strange>>
clientVars == <<state, calls, request, readReq, historyVars, windowVars>>
serverVars == <<up, left, unsent>>
vars == <<clientVars, requests, inbox, serverVars>>

-----------------------------------------------------------------------------
(***************************************************************************)
(* The requests the prompts let a user make.                               *)
(***************************************************************************)
prepareReadRequest ==
  [op : {"READ"}, pathname : Texts, offset : Numbers, numBytes : Numbers]

prepareWriteRequest ==
  [op : {"WRITE"}, pathname : Texts, offset : Numbers, content : Texts]

prepareReplaceRequest ==
  [op : {"REPLACE"}, pathname : Texts, offset : Numbers, content : Texts]

prepareDeleteRequest ==
  [op : {"DELETE"}, pathname : Texts, offset : Numbers, numBytes : Numbers]

prepareSubscribeRequest ==
  [op : {"SUBSCRIBE"}, pathname : Texts, monitorIntervalSeconds : Numbers]

GetLastModifiedTimeRequest == [op : {"GET_LAST_MODIFIED_TIME"}, pathname : Texts]

Requests ==
  prepareReadRequest \cup prepareWriteRequest \cup prepareReplaceRequest \cup
  prepareDeleteRequest \cup prepareSubscribeRequest \cup GetLastModifiedTimeRequest

\* Requests on their way, with the number of the call.
Packets == [call : 1..MaxCalls, request : Requests]

NoRequest == [op |-> "NONE"]

Errors == {Error(e) : e \in Messages \cup {InvalidRequest}}

\* What a service may answer.
Responses(op) ==
  Errors \cup
    CASE op = "READ" -> [result : {"content"}, content : Contents]
      [] op = "GET_LAST_MODIFIED_TIME" -> [result : {"time"}, time : Times]
      [] OTHER -> {Done}

Notifications ==
  [call : {0}, op : {"UPDATE"},
   response : [result : {"content"}, content : Contents]]

Replies ==
  UNION {[call : 1..MaxCalls, op : {op}, response : Responses(op)] : op \in Ops}

TypeOK ==
  /\ state \in {"menu", "waiting", "timed", "listening", "ended", "died"}
  /\ calls \in 0..MaxCalls
  /\ request \in Requests \cup {NoRequest}
  /\ readReq \in prepareReadRequest \cup {NoRequest}
  /\ early \in 0..MaxEarly /\ strange \in BOOLEAN
  /\ elapsed \in Nat /\ idle \in Nat
  /\ requests \subseteq Packets
  /\ inbox \subseteq Replies \cup Notifications
  /\ up \in BOOLEAN /\ left \in [1..MaxCalls -> Nat] /\ unsent \in BOOLEAN
  /\ state = "waiting" => calls > 0 /\ request # NoRequest
  /\ state = "timed" => readReq # NoRequest
  /\ state = "listening" => request.op = "SUBSCRIBE"

Init ==
  /\ state = "menu" /\ calls = 0
  /\ request = NoRequest /\ readReq = NoRequest
  /\ early = 0 /\ strange = FALSE /\ elapsed = 0 /\ idle = 0
  /\ requests = {} /\ inbox = {}
  /\ up = TRUE /\ left = [c \in 1..MaxCalls |-> 0] /\ unsent = FALSE

\* The bytes of a datagram: an update is sent as it is, without a header.
RequestBytes(m) == MarshalRequest(m.call - 1, m.request)

ReplyBytes(d) ==
  IF d.op = "UPDATE" THEN d.response.content ELSE MarshalResponse(d.response)

-----------------------------------------------------------------------------
(***************************************************************************)
(* The client.                                                             *)
(***************************************************************************)
Current == [call |-> calls, request |-> request]

\* Marshal with the next identifier, id++, sendto.
Call(r) ==
  /\ calls < MaxCalls
  /\ calls' = calls + 1
  /\ request' = r
  /\ state' = "waiting"
  /\ requests' = requests \cup {[call |-> calls + 1, request |-> r]}
  /\ unsent' = FALSE
  /\ UNCHANGED <<historyVars, windowVars, inbox, up, left>>

\* Choice 1, when the cache cannot answer alone: the time is asked for first.
ChooseRead ==
  /\ state = "menu"
  /\ \E r \in prepareReadRequest :
       /\ readReq' = r
       /\ Call([op |-> "GET_LAST_MODIFIED_TIME", pathname |-> r.pathname])

ChooseWrite ==
  state = "menu" /\ (\E r \in prepareWriteRequest : Call(r)) /\ UNCHANGED readReq

ChooseMonitor ==
  state = "menu" /\ (\E r \in prepareSubscribeRequest : Call(r)) /\ UNCHANGED readReq

ChooseReplace ==
  state = "menu" /\ (\E r \in prepareReplaceRequest : Call(r)) /\ UNCHANGED readReq

ChooseDelete ==
  state = "menu" /\ (\E r \in prepareDeleteRequest : Call(r)) /\ UNCHANGED readReq

ChooseEnd ==
  /\ state = "menu"
  /\ state' = "ended"
  /\ UNCHANGED <<calls, request, readReq, historyVars, windowVars, requests, inbox, serverVars>>

\* After the time: the cache cannot vouch for its content, or it can.
AskContent ==
  /\ state = "timed"
  /\ Call(readReq)
  /\ readReq' = NoRequest

ShowCached ==
  /\ state = "timed"
  /\ state' = "menu"
  /\ readReq' = NoRequest
  /\ UNCHANGED <<calls, request, historyVars, windowVars, requests, inbox, serverVars>>

\* Nothing the client could still get is on its way.
Quiet == Current \notin requests /\ inbox = {}

GiveUp == requests

\* The same bytes again.
Resend == requests \cup {Current}

\* recvfrom fails after 15 seconds: the same bytes are sent again.
Timeout ==
  /\ state = "waiting"
  /\ \/ Quiet /\ UNCHANGED early
     \/ ~Quiet /\ early < MaxEarly /\ early' = early + 1
  /\ requests' = Resend
  /\ UNCHANGED <<state, calls, request, readReq, strange, windowVars, inbox, serverVars>>

BreakForgotten(r) ==
  IF r = Thrown THEN "died" ELSE IF r.result \in {"time", "error"} THEN "timed" ELSE "menu"

\* Where an exchange leads when its reply has been unmarshalled to r.  Nothing
\* catches an exception, and a window of no time ends at once.
NextState(r) ==
  CASE r = Thrown -> "died"
    [] r.result = "time" -> "timed"
    [] r = Done /\ request.op = "SUBSCRIBE" /\ request.monitorIntervalSeconds > 0
         -> "listening"
    [] OTHER -> "menu"

Understood(d) == UnmarshalResponse(request.op, Cut(ReplyBytes(d), ClientBuffer))

\* recvfrom returns: any datagram ends the retry loop.
Receive(d) ==
  /\ state = "waiting"
  /\ d \in inbox
  /\ inbox' = inbox \ {d}
  /\ state' = NextState(Understood(d))
  /\ readReq' = IF state' = "timed" THEN readReq ELSE NoRequest
  /\ strange' = (strange \/ d.call # calls)
  /\ UNCHANGED <<calls, request, early, windowVars, requests, serverVars>>

NeverOver == TRUE

\* The condition of the window's loop.
WindowOpen == elapsed < request.monitorIntervalSeconds

\* An iteration of the window's loop ends.
EndIteration ==
  /\ state' = IF WindowOpen THEN "listening" ELSE "menu"
  /\ elapsed' = IF WindowOpen THEN elapsed ELSE 0
  /\ idle' = 0
  /\ UNCHANGED <<calls, request, readReq, historyVars, requests, serverVars>>

\* Whatever arrives is shown.
Show(d) ==
  /\ state = "listening"
  /\ d \in inbox
  /\ inbox' = inbox \ {d}
  /\ EndIteration

\* Nothing arrived for as long as the interval.
ListenTimeout ==
  /\ state = "listening"
  /\ idle = request.monitorIntervalSeconds
  /\ UNCHANGED inbox
  /\ EndIteration

-----------------------------------------------------------------------------
(***************************************************************************)
(* The server.                                                             *)
(***************************************************************************)
Received(m) == Cut(RequestBytes(m), ServerBuffer)

\* What RouteRequest passes to the handler of type op, and the room behind it.
Data(m) == Slice(Received(m), 5, Len(Received(m)))
Room == ServerBuffer - 5

HasType(m, op) == MessageType[op] = Received(m)[1]

\* What the handlers make of the requests: slicing past the receive buffer, which
\* nothing recovers from; requests they cannot unmarshal; and those they can.
Panicking ==
  {m \in Packets : \E op \in Ops : HasType(m, op) /\ SliceTooFar(op, Data(m), Room)}

Valid(op, m) ==
  ~SliceTooFar(op, Data(m), Room) /\ validateMarshalledRequest(op, Data(m))

Invalid == {m \in Packets \ Panicking : \E op \in Ops : HasType(m, op) /\ ~Valid(op, m)}

Routed == {x \in Ops \X Packets : HasType(x[2], x[1]) /\ Valid(x[1], x[2])}

ReadFromClient(m) ==
  /\ up
  /\ m \in requests
  /\ requests' = requests \ {m}

Panic(m) ==
  /\ ReadFromClient(m)
  /\ m \in Panicking
  /\ up' = FALSE
  /\ UNCHANGED <<clientVars, inbox, left, unsent>>

\* SendToClient: an answer that is too long is an error, which is logged.
Reply(m, op, res) ==
  LET d == [call |-> m.call, op |-> op, response |-> res]
  IN  \/ /\ Len(ReplyBytes(d)) <= MaxDatagram
         /\ Cardinality(inbox) < MaxInbox
         /\ inbox' = inbox \cup {d}
         /\ UNCHANGED unsent
      \/ /\ Len(ReplyBytes(d)) > MaxDatagram
         /\ unsent' = (unsent \/ m = Current)
         /\ UNCHANGED inbox

Refuse(m) ==
  /\ ReadFromClient(m)
  /\ m \in Invalid
  /\ \E op \in Ops : HasType(m, op) /\ Reply(m, op, Error(InvalidRequest))
  /\ UNCHANGED <<clientVars, up, left>>

ExpiresLate(r) == r.monitorIntervalSeconds + 1

\* How long a subscription is active.
Subscribed(r) == r.monitorIntervalSeconds

\* The handler calls the service, and marshals what that answers.
Serve(m) ==
  /\ ReadFromClient(m)
  /\ \E op \in Ops :
       /\ <<op, m>> \in Routed
       /\ \E res \in Responses(op) :
            /\ Reply(m, op, res)
            /\ left' = IF op = "SUBSCRIBE" /\ res = Done
                       THEN [left EXCEPT ![m.call] =
                               Subscribed(UnmarshalRequest(op, Data(m)))]
                       ELSE left
  /\ UNCHANGED <<clientVars, up>>

Handle(m) == Panic(m) \/ Refuse(m) \/ Serve(m)

\* Another client changed a file this one is subscribed to.
Notify(c) ==
  /\ up
  /\ \E k \in 1..MaxCalls : left[k] > 0
  /\ Cardinality(inbox) < MaxInbox
  /\ Len(c) <= MaxDatagram
  /\ inbox' = inbox \cup {[call |-> 0, op |-> "UPDATE",
                           response |-> [result |-> "content", content |-> c]]}
  /\ UNCHANGED <<clientVars, requests, serverVars>>

-----------------------------------------------------------------------------
\* The network, or the operator's simulated losses (main.go).
Lose ==
  /\ \/ \E m \in requests : requests' = requests \ {m} /\ UNCHANGED inbox
     \/ \E d \in inbox : inbox' = inbox \ {d} /\ UNCHANGED requests
  /\ UNCHANGED <<clientVars, serverVars>>

\* A second passes.  recvfrom does not wait longer than it was told to.
Tick ==
  /\ state = "listening" => idle < request.monitorIntervalSeconds
  /\ left' = [k \in 1..MaxCalls |-> IF left[k] > 0 THEN left[k] - 1 ELSE 0]
  /\ elapsed' = IF state = "listening" THEN elapsed + 1 ELSE elapsed
  /\ idle' = IF state = "listening" THEN idle + 1 ELSE idle
  /\ UNCHANGED <<state, calls, request, readReq, historyVars, requests, inbox, up, unsent>>

Next ==
  \/ ChooseRead \/ ChooseWrite \/ ChooseMonitor \/ ChooseReplace \/ ChooseDelete
  \/ ChooseEnd \/ AskContent \/ ShowCached
  \/ Timeout \/ ListenTimeout
  \/ \E d \in inbox : Receive(d) \/ Show(d)
  \/ \E m \in requests : Handle(m)
  \/ \E c \in Contents : Notify(c)
  \/ Lose \/ Tick

Spec == Init /\ [][Next]_vars

(***************************************************************************)
(* Fairness.  The timeout fires.  A request that is sent again and again   *)
(* is handled some time, and of the datagrams that come again and again    *)
(* one is received.                                                        *)
(***************************************************************************)
FairSpec ==
  /\ Spec
  /\ WF_vars(Timeout)
  /\ SF_vars(\E m \in requests : m = Current /\ Handle(m))
  /\ SF_vars(\E d \in inbox : Receive(d))

-----------------------------------------------------------------------------
(***************************************************************************)
(* Properties.                                                             *)
(***************************************************************************)

\* The server unmarshals a request to the one the client marshalled if it fits
\* the receive buffer, and if it is cut off the server never takes it for
\* another one (validateMarshalledRequest and UnmarshalRequest).
RequestUnderstood ==
  \A m \in requests :
    LET op == m.request.op
    IN  /\ \A o \in Ops : HasType(m, o) <=> o = op
        /\ IF Len(RequestBytes(m)) <= ServerBuffer
           THEN <<op, m>> \in Routed /\ UnmarshalRequest(op, Data(m)) = m.request
           ELSE <<op, m>> \notin Routed

\* The client unmarshals a reply to its request to what the service answered,
\* and throws if the reply did not fit the buffer: a part of a content is
\* never shown for the whole.
ReplyUnderstood ==
  \A d \in inbox :
    d.op \in Ops =>
      LET bytes == ReplyBytes(d)
      IN  UnmarshalResponse(d.op, Cut(bytes, ClientBuffer)) =
            IF Len(bytes) <= ClientBuffer THEN d.response ELSE Thrown

\* The handlers' slicing ends the server for no request of the shipped client
\* but a WRITE or REPLACE whose pathname fills the receive buffer.
OnlyLongPathPanics ==
  \A m \in requests :
    m \in Panicking <=>
      HasContent(m.request.op) /\ 17 + Len(m.request.pathname) > ServerBuffer

\* The client dies of a datagram that is not a reply to its request, or of a
\* reply that is longer than its buffer.
OnlyStrangersKill ==
  [][\A d \in inbox :
       Receive(d) /\ state' = "died" =>
         d.call # calls \/ Len(ReplyBytes(d)) > ClientBuffer]_vars

\* A window lasts less than twice the interval, although each notification
\* makes recvfrom wait for the whole interval anew.
WindowBounded ==
  state = "listening" => elapsed < 2 * request.monitorIntervalSeconds

\* When the client stops listening, the server has stopped notifying it for that
\* SUBSCRIBE, however often the request was sent; unless a timeout was premature,
\* or the window was opened by something else than the reply.
SilentAfterWindow ==
  [][state = "listening" /\ state' = "menu" /\ early = 0 /\ ~strange
       => left[calls] = 0]_vars

\* Every retry loop ends, unless the server is down or cannot send the answer.
EveryCallReturns ==
  (state = "waiting") ~> (state # "waiting" \/ ~up \/ unsent)

\* The client goes on to accept requests until it is told to end.
KeepsAccepting == state # "died"

=============================================================================
