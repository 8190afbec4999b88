---------------------------- MODULE ClientProofs ----------------------------
(***************************************************************************)
(* Proofs about Client: with buffers, texts, contents and numbers of any   *)
(* size, for any number of calls and any delays.                           *)
(***************************************************************************)
EXTENDS Client, WireProofs

(***************************************************************************)
(* Requests and responses of Client are those of WireProofs.               *)
(***************************************************************************)

LEMMA ConstantTypes ==
  /\ Texts \subseteq Strings /\ Contents \subseteq Strings
  /\ Messages \cup {InvalidRequest} \subseteq Strings
  /\ Times \subseteq Timestamps
  /\ Numbers \subseteq Count /\ Numbers \subseteq Nat
<1>1. ASSUME NEW t \in Texts
      PROVE  t \in Strings
  <2>1. t \in Seq(Byte) /\ Len(t) <= 1022 /\ Len(t) \in Nat
    BY ClientAssumption, LenProperties
  <2>2. Len(t) \in Count
    BY <2>1, SMT DEF Count
  <2>. QED  BY <2>1, <2>2 DEF Strings
<1>2. Contents \subseteq Strings
  BY ClientAssumption DEF Strings
<1>3. Messages \cup {InvalidRequest} \subseteq Strings
  BY ClientAssumption DEF Strings
<1>4. Times \subseteq Timestamps
  BY ClientAssumption DEF Timestamps
<1>5. Numbers \subseteq Count
  BY ClientAssumption
<1>6. Count \subseteq Nat
  BY SMT DEF Count
<1>. QED  BY <1>1, <1>2, <1>3, <1>4, <1>5, <1>6

LEMMA RequestsAreWire == Requests \subseteq WireRequests
BY ConstantTypes
DEF Requests, WireRequests, prepareReadRequest, prepareWriteRequest,
    prepareReplaceRequest, prepareDeleteRequest, prepareSubscribeRequest,
    GetLastModifiedTimeRequest

LEMMA ResponsesAreWire ==
  ASSUME NEW op \in Ops
  PROVE  Responses(op) \subseteq WireResponses(op)
<1>1. Errors \subseteq WireErrors
  BY ConstantTypes DEF Errors, WireErrors
<1>2. CASE op = "READ"
  <2>1. Responses(op) = Errors \cup [result : {"content"}, content : Contents]
    BY <1>2, Zenon DEF Responses
  <2>2. WireResponses(op) = WireErrors \cup [result : {"content"}, content : Strings]
    BY <1>2 DEF WireResponses
  <2>. QED  BY <1>1, <2>1, <2>2, ConstantTypes
<1>3. CASE op = "GET_LAST_MODIFIED_TIME"
  <2>1. Responses(op) = Errors \cup [result : {"time"}, time : Times]
    BY <1>3, Zenon DEF Responses
  <2>2. WireResponses(op) = WireErrors \cup [result : {"time"}, time : Timestamps]
    BY <1>3 DEF WireResponses
  <2>. QED  BY <1>1, <2>1, <2>2, ConstantTypes
<1>4. CASE op # "READ" /\ op # "GET_LAST_MODIFIED_TIME"
  <2>1. Responses(op) = Errors \cup {Done}
    BY <1>4, Zenon DEF Responses
  <2>2. WireResponses(op) = WireErrors \cup {Done}
    BY <1>4, Zenon DEF WireResponses
  <2>. QED  BY <1>1, <2>1, <2>2
<1>. QED  BY <1>2, <1>3, <1>4

LEMMA NotThrown ==
  ASSUME NEW op \in Ops, NEW res \in WireResponses(op)
  PROVE  res # Thrown
<1>1. res.result \in {"error", "content", "time", "done"}
  BY DEF WireResponses, WireErrors, Error, Done
<1>. QED  BY <1>1 DEF Thrown

(***************************************************************************)
(* The server understands requests, and the client replies.                *)
(***************************************************************************)

\* One request, with any number of bytes, at the server.
LEMMA PacketUnderstood ==
  ASSUME NEW m \in Packets
  PROVE  /\ m.request.op \in Ops /\ RequestBytes(m) \in Seq(Byte)
         /\ \A o \in Ops : HasType(m, o) <=> o = m.request.op
         /\ Understands(m.request, RequestBytes(m), Data(m), Room)
         /\ Room + 5 = ServerBuffer /\ Room \in Nat
<1>. DEFINE r == m.request
            id == m.call - 1
            b == RequestBytes(m)
            w == Received(m)
            d == Data(m)
            room == Room
<1>1. r \in WireRequests
  BY RequestsAreWire DEF Packets
<1>2. id \in Count
  <2>1. /\ m.call \in 1..MaxCalls /\ MaxCalls \in Nat /\ MaxCalls <= 2147483647
    BY ClientAssumption, SMT DEF Packets, Count
  <2>2. m.call - 1 \in Nat /\ m.call - 1 <= 2147483647
    BY <2>1, SMT
  <2>. QED  BY <2>2, SMT DEF Count
<1>3. room \in Nat /\ room >= 12 /\ room + 5 = ServerBuffer
  BY ClientAssumption DEF Room
<1>4. b = MarshalRequest(id, r)
  BY DEF RequestBytes
<1>5. IsData(b, w, d, room)
  <2>1. w = Cut(b, ServerBuffer) /\ d = Slice(w, 5, Len(w))
    BY DEF Received, Data
  <2>. QED  BY <1>3, <2>1, Zenon DEF IsData
<1>6. w[1] = Received(m)[1]
  OBVIOUS
<1>. HIDE DEF r, id, b, w, d, room
<1>7. b \in Seq(Byte) /\ r.op \in Ops /\ w[1] = MessageType[r.op] /\ Understands(r, b, d, room)
  BY <1>1, <1>2, <1>3, <1>4, <1>5, RequestRoundTrip
<1>8. \A o \in Ops : HasType(m, o) <=> o = r.op
  <2>1. \A o, q \in Ops : MessageType[o] = MessageType[q] => o = q
    BY DEF Ops, MessageType
  <2>. QED  BY <1>6, <1>7, <2>1, Zenon DEF HasType
<1>. QED  BY <1>3, <1>7, <1>8 DEF r, b, d, room

LEMMA PacketRouted ==
  ASSUME NEW m \in Packets, NEW op \in Ops
  PROVE  /\ <<op, m>> \in Routed <=>
              op = m.request.op /\ Len(RequestBytes(m)) <= ServerBuffer
         /\ <<op, m>> \in Routed => UnmarshalRequest(op, Data(m)) = m.request
         /\ m \in Panicking <=>
              HasContent(m.request.op) /\ 17 + Len(m.request.pathname) > ServerBuffer
<1>. DEFINE r == m.request
            b == RequestBytes(m)
            d == Data(m)
<1>1. /\ r.op \in Ops /\ \A o \in Ops : HasType(m, o) <=> o = r.op
      /\ Understands(r, b, d, Room) /\ Room + 5 = ServerBuffer /\ Room \in Nat
  BY PacketUnderstood
<1>2. r \in WireRequests
  BY RequestsAreWire DEF Packets
<1>3. Len(r.pathname) \in Nat
  <2>1. r.pathname \in Strings
    BY <1>2 DEF WireRequests
  <2>. QED  BY <2>1, StrFields
<1>4. Len(b) \in Nat
  BY PacketUnderstood, LenProperties
<1>. HIDE DEF b, d, r
<1>5. <<op, m>> \in Routed <=> HasType(m, op) /\ Valid(op, m)
  BY DEF Routed
<1>6. ASSUME op = r.op, Len(b) <= ServerBuffer
      PROVE  Valid(op, m) /\ UnmarshalRequest(op, d) = r
  <2>1. Len(b) <= Room + 5
    BY <1>1, <1>6
  <2>. QED  BY <1>1, <1>6, <2>1, Zenon DEF Understands, Valid, d
<1>7. ASSUME op = r.op, ~(Len(b) <= ServerBuffer)
      PROVE  ~Valid(op, m)
  <2>1. Len(b) > Room + 5
    BY <1>1, <1>4, <1>7, ClientAssumption
  <2>. QED  BY <1>1, <1>7, <2>1, Zenon DEF Understands, Valid, d
<1>8. /\ <<op, m>> \in Routed <=> op = r.op /\ Len(b) <= ServerBuffer
      /\ <<op, m>> \in Routed => UnmarshalRequest(op, d) = r
  BY <1>1, <1>5, <1>6, <1>7, Zenon
<1>9. m \in Panicking <=> SliceTooFar(r.op, d, Room)
  BY <1>1, Zenon DEF Panicking, d
<1>10. SliceTooFar(r.op, d, Room) <=> HasContent(r.op) /\ 12 + Len(r.pathname) > Room
  BY <1>1, Zenon DEF Understands
<1>11. 12 + Len(r.pathname) > Room <=> 17 + Len(r.pathname) > ServerBuffer
  BY <1>1, <1>3, ClientAssumption
<1>. QED  BY <1>8, <1>9, <1>10, <1>11, Zenon DEF b, d, r

\* The client's side: what it makes of a reply, whole or cut off.
LEMMA ReplyIsUnderstood ==
  ASSUME NEW op \in Ops, NEW res \in Responses(op)
  PROVE  /\ UnmarshalResponse(op, Cut(MarshalResponse(res), ClientBuffer)) =
              IF Len(MarshalResponse(res)) <= ClientBuffer THEN res ELSE Thrown
         /\ res # Thrown
<1>1. res \in WireResponses(op)
  BY ResponsesAreWire
<1>2. ClientBuffer \in Nat /\ ClientBuffer > 9
  BY ClientAssumption
<1>. QED  BY <1>1, <1>2, ResponseRoundTrip, NotThrown

\* What is in the inbox.
LEMMA InInbox ==
  ASSUME NEW d \in Replies \cup Notifications
  PROVE  /\ d.op \in Ops \/ d.op = "UPDATE"
         /\ d.op \in Ops => d.call \in 1..MaxCalls /\ d.response \in Responses(d.op)
         /\ d.op \notin Ops => d.call = 0
<1>1. CASE d \in Replies
  <2>1. PICK op \in Ops :
          d \in [call : 1..MaxCalls, op : {op}, response : Responses(op)]
    BY <1>1 DEF Replies
  <2>. QED  BY <2>1
<1>2. CASE d \in Notifications
  <2>1. d.op = "UPDATE" /\ d.call = 0
    BY <1>2 DEF Notifications
  <2>2. "UPDATE" \notin Ops
    BY DEF Ops, MessageType
  <2>. QED  BY <2>1, <2>2
<1>. QED  BY <1>1, <1>2

\* Where a reply leads.
LEMMA NextStates ==
  ASSUME NEW r, r.result \in {"thrown", "error", "content", "time", "done"}
  PROVE  /\ NextState(r) \in {"died", "timed", "listening", "menu"}
         /\ NextState(r) = "died" => r = Thrown
         /\ NextState(r) = "timed" => r.result = "time"
         /\ NextState(r) = "listening" =>
              /\ r = Done /\ request.op = "SUBSCRIBE"
              /\ request.monitorIntervalSeconds > 0
<1>1. Thrown.result = "thrown" /\ Done.result = "done"
  BY DEF Thrown, Done
<1>. DEFINE opens == r = Done /\ request.op = "SUBSCRIBE"
                     /\ request.monitorIntervalSeconds > 0
<1>2. CASE r = Thrown
  <2>1. NextState(r) = "died"
    BY <1>1, <1>2, Zenon DEF NextState
  <2>. QED  BY <1>2, <2>1
<1>3. CASE r # Thrown /\ r.result = "time"
  <2>1. NextState(r) = "timed"
    BY <1>1, <1>3, Zenon DEF NextState
  <2>. QED  BY <1>3, <2>1
<1>4. CASE r # Thrown /\ r.result # "time" /\ opens
  <2>1. NextState(r) = "listening"
    BY <1>4, Zenon DEF NextState
  <2>. QED  BY <1>4, <2>1
<1>5. CASE r # Thrown /\ r.result # "time" /\ ~opens
  <2>1. NextState(r) = "menu"
    BY <1>5, Zenon DEF NextState
  <2>. QED  BY <2>1
<1>. QED  BY <1>2, <1>3, <1>4, <1>5, Zenon

\* What unmarshalling makes of a datagram, whatever its bytes are.
LEMMA UnmarshalledTo ==
  ASSUME NEW op \in Ops, NEW x
  PROVE  /\ UnmarshalResponse(op, x).result \in
              {"thrown", "error", "content", "time", "done"}
         /\ UnmarshalResponse(op, x).result = "time" => op = "GET_LAST_MODIFIED_TIME"
<1>. DEFINE kinds == {"thrown", "error", "content", "time", "done"}
<1>1. Thrown.result = "thrown" /\ Done.result = "done"
  BY DEF Thrown, Done
<1>2. \A m : Error(m).result = "error"
  BY DEF Error
<1>3. \A c : [result |-> "content", content |-> c].result = "content"
  OBVIOUS
<1>4. \A t : [result |-> "time", time |-> t].result = "time"
  OBVIOUS
<1>5. Outcome(x) = Done \/ Outcome(x) = Thrown \/ Outcome(x) = Error(String(x))
  <2>1. CASE x = <<1>>
    <3>1. ~Failed(x)
      BY <2>1 DEF Failed
    <3>. QED  BY <2>1, <3>1, Zenon DEF Outcome
  <2>2. CASE x # <<1>> /\ HasString(x) /\ Failed(x)
    BY <2>2, Zenon DEF Outcome
  <2>3. CASE x # <<1>> /\ ~(HasString(x) /\ Failed(x))
    BY <2>3, Zenon DEF Outcome
  <2>. QED  BY <2>1, <2>2, <2>3
<1>6. \/ unmarshalReadResponse(x) = Thrown
      \/ unmarshalReadResponse(x) = Error(String(x))
      \/ unmarshalReadResponse(x) = [result |-> "content", content |-> String(x)]
  BY Zenon DEF unmarshalReadResponse
<1>7. CASE op = "READ"
  <2>1. UnmarshalResponse(op, x) = unmarshalReadResponse(x)
    BY <1>7, Zenon DEF UnmarshalResponse
  <2>2. UnmarshalResponse(op, x).result \in {"thrown", "error", "content"}
    BY <1>1, <1>2, <1>3, <1>6, <2>1, Zenon
  <2>. QED  BY <2>2
<1>8. CASE op \in {"WRITE", "REPLACE", "DELETE", "SUBSCRIBE"}
  <2>1. UnmarshalResponse(op, x) = Outcome(x)
    BY <1>8, Zenon
    DEF UnmarshalResponse, unmarshalWriteResponse, unmarshalReplaceResponse,
        unmarshalDeleteResponse, unmarshalSubscribeResponse
  <2>2. UnmarshalResponse(op, x).result \in {"thrown", "error", "done"}
    BY <1>1, <1>2, <1>5, <2>1, Zenon
  <2>. QED  BY <2>2
<1>9. CASE op = "GET_LAST_MODIFIED_TIME"
  <2>. DEFINE u == unmarshalGetLastModifiedTimeResponse(x)
  <2>1. UnmarshalResponse(op, x) = u
    BY <1>9, Zenon DEF UnmarshalResponse
  <2>2. \/ u = Thrown \/ u = Error(String(x))
        \/ u = [result |-> "time", time |-> Slice(x, 1, 9)]
    <3>1. CASE Len(x) = 9 /\ ~Failed(x)
      BY <3>1, Zenon DEF unmarshalGetLastModifiedTimeResponse
    <3>2. CASE ~(Len(x) = 9 /\ ~Failed(x)) /\ HasString(x) /\ Failed(x)
      BY <3>2, Zenon DEF unmarshalGetLastModifiedTimeResponse
    <3>3. CASE ~(Len(x) = 9 /\ ~Failed(x)) /\ ~(HasString(x) /\ Failed(x))
      BY <3>3, Zenon DEF unmarshalGetLastModifiedTimeResponse
    <3>. QED  BY <3>1, <3>2, <3>3
  <2>. HIDE DEF u
  <2>3. u.result \in {"thrown", "error", "time"}
    BY <1>1, <1>2, <1>4, <2>2, Zenon
  <2>. QED  BY <1>9, <2>1, <2>3
<1>. QED  BY <1>7, <1>8, <1>9 DEF Ops, MessageType

(***************************************************************************)
(* The inductive invariant.                                                *)
(***************************************************************************)

\* A READ asks for the time first.
TimeAsked ==
  state = "waiting" /\ request.op = "GET_LAST_MODIFIED_TIME" => readReq # NoRequest

\* A datagram is of this call or of an earlier one.
Belongs(d) ==
  d.call <= calls /\ (d.call = calls /\ calls > 0 => d.op = request.op)

\* Requests and replies on their way are those of this call or of earlier ones.
Matched ==
  /\ request # NoRequest => calls > 0
  /\ \A m \in requests : m.call <= calls /\ (m.call = calls => m = Current)
  /\ \A d \in inbox : Belongs(d)
  /\ \A k \in 1..MaxCalls : k > calls => left[k] = 0

\* recvfrom began to wait when the window's loop last went on.
Windows ==
  /\ state # "listening" => elapsed = 0 /\ idle = 0
  /\ state = "listening" =>
       /\ idle <= request.monitorIntervalSeconds
       /\ elapsed < idle + request.monitorIntervalSeconds

BaseInv == TypeOK /\ TimeAsked /\ Matched /\ Windows

\* A request that is waited for, and one whose window is open.
LEMMA CurrentRequest ==
  ASSUME TypeOK, Matched
  PROVE  /\ state = "waiting" => request \in Requests /\ request.op \in Ops
         /\ state = "listening" =>
              request \in Requests /\ request.monitorIntervalSeconds \in Nat
         /\ request \in Requests /\ request.op = "SUBSCRIBE" =>
              request.monitorIntervalSeconds \in Nat
         /\ state \in {"waiting", "listening"} => calls > 0
<1>1. \A r \in Requests : r.op \in Ops
  BY DEF Requests, prepareReadRequest, prepareWriteRequest, prepareReplaceRequest,
         prepareDeleteRequest, prepareSubscribeRequest, GetLastModifiedTimeRequest,
         Ops, MessageType
<1>2. \A r \in Requests : r.op = "SUBSCRIBE" => r.monitorIntervalSeconds \in Nat
  BY ConstantTypes
  DEF Requests, prepareReadRequest, prepareWriteRequest, prepareReplaceRequest,
      prepareDeleteRequest, prepareSubscribeRequest, GetLastModifiedTimeRequest
<1>3. NoRequest.op # "SUBSCRIBE"
  BY DEF NoRequest
<1>4. /\ request \in Requests \cup {NoRequest}
      /\ state = "waiting" => calls > 0 /\ request # NoRequest
      /\ state = "listening" => request.op = "SUBSCRIBE"
      /\ request # NoRequest => calls > 0
  BY DEF TypeOK, Matched
<1>5. state = "listening" => request # NoRequest
  BY <1>3, <1>4
<1>. QED  BY <1>1, <1>2, <1>4, <1>5

LEMMA BaseInvInit == Init => BaseInv
<1>. SUFFICES ASSUME Init
              PROVE  BaseInv
  OBVIOUS
<1>1. MaxCalls \in Nat
  BY ClientAssumption, SMT DEF Count
<1>2. TypeOK
  <2>1. strange \in BOOLEAN /\ up \in BOOLEAN /\ unsent \in BOOLEAN
    BY Zenon DEF Init
  <2>2. left \in [1..MaxCalls -> Nat]
    BY DEF Init
  <2>3. /\ calls \in 0..MaxCalls /\ early \in 0..MaxEarly
        /\ elapsed \in Nat /\ idle \in Nat
    BY <1>1, ClientAssumption DEF Init
  <2>4. requests \subseteq Packets /\ inbox \subseteq Replies \cup Notifications
    BY DEF Init
  <2>. QED  BY <2>1, <2>2, <2>3, <2>4, Zenon DEF Init, TypeOK
<1>. QED  BY <1>1, <1>2 DEF Init, BaseInv, TimeAsked, Matched, Windows

\* The client makes a request.
LEMMA CallKeeps ==
  ASSUME BaseInv, NEW r \in Requests, Call(r), state # "listening",
         readReq' \in prepareReadRequest \cup {NoRequest},
         r.op = "GET_LAST_MODIFIED_TIME" => readReq' # NoRequest
  PROVE  BaseInv'
<1>1. /\ calls < MaxCalls /\ calls' = calls + 1 /\ request' = r /\ state' = "waiting"
      /\ requests' = requests \cup {[call |-> calls + 1, request |-> r]}
      /\ unsent' = FALSE
      /\ early' = early /\ strange' = strange /\ elapsed' = elapsed /\ idle' = idle
      /\ inbox' = inbox /\ up' = up /\ left' = left
  BY DEF Call, historyVars, windowVars
<1>2. MaxCalls \in Nat /\ calls \in Nat
  BY ClientAssumption, SMT DEF Count, BaseInv, TypeOK
<1>3. calls + 1 \in 1..MaxCalls /\ calls + 1 > 0 /\ calls + 1 \in 0..MaxCalls
  BY <1>1, <1>2
<1>4. r # NoRequest
  BY DEF Requests, prepareReadRequest, prepareWriteRequest, prepareReplaceRequest,
         prepareDeleteRequest, prepareSubscribeRequest, GetLastModifiedTimeRequest,
         NoRequest
<1>5. TypeOK'
  <2>1. requests' \subseteq Packets
    <3>1. [call |-> calls + 1, request |-> r] \in Packets
      BY <1>3 DEF Packets
    <3>. QED  BY <1>1, <3>1 DEF BaseInv, TypeOK
  <2>2. strange' \in BOOLEAN /\ up' \in BOOLEAN /\ unsent' \in BOOLEAN
    BY <1>1, Zenon DEF BaseInv, TypeOK
  <2>3. /\ early' \in 0..MaxEarly /\ elapsed' \in Nat /\ idle' \in Nat
        /\ inbox' \subseteq Replies \cup Notifications
        /\ left' \in [1..MaxCalls -> Nat]
    BY <1>1, Zenon DEF BaseInv, TypeOK
  <2>4. /\ state' = "waiting" /\ calls' \in 0..MaxCalls /\ calls' > 0
        /\ request' \in Requests \cup {NoRequest} /\ request' # NoRequest
    BY <1>1, <1>3, <1>4
  <2>5. /\ state' \in {"menu", "waiting", "timed", "listening", "ended", "died"}
        /\ state' # "timed" /\ state' # "listening"
    BY <1>1
  <2>. QED  BY <2>1, <2>2, <2>3, <2>4, <2>5, Zenon DEF TypeOK
<1>6. TimeAsked'
  BY <1>1 DEF TimeAsked
<1>7. Matched'
  <2>1. ASSUME NEW m \in requests'
        PROVE  m.call <= calls' /\ (m.call = calls' => m = Current')
    <3>1. CASE m \in requests
      <4>1. m.call \in Nat /\ m.call <= calls
        BY <3>1, <1>2 DEF BaseInv, TypeOK, Matched, Packets
      <4>. QED  BY <1>1, <1>2, <4>1
    <3>2. CASE m = [call |-> calls + 1, request |-> r]
      BY <1>1, <1>2, <3>2 DEF Current
    <3>. QED  BY <1>1, <2>1, <3>1, <3>2
  <2>2. ASSUME NEW d \in inbox'
        PROVE  d.call <= calls' /\ d.call # calls'
    <3>1. d \in inbox /\ d \in Replies \cup Notifications
      BY <1>1, <2>2 DEF BaseInv, TypeOK
    <3>2. d.call <= calls
      BY <3>1 DEF BaseInv, Matched, Belongs
    <3>3. d.call \in Nat
      BY <1>2, <3>1, InInbox
    <3>. QED  BY <1>1, <1>2, <3>2, <3>3
  <2>3. \A k \in 1..MaxCalls : k > calls' => left'[k] = 0
    BY <1>1, <1>2 DEF BaseInv, Matched
  <2>4. calls' > 0
    BY <1>1, <1>2
  <2>. QED  BY <2>1, <2>2, <2>3, <2>4 DEF Matched, Belongs
<1>8. Windows'
  BY <1>1 DEF BaseInv, Windows
<1>. QED  BY <1>5, <1>6, <1>7, <1>8 DEF BaseInv

LEMMA ChooseKeeps ==
  ASSUME BaseInv,
         ChooseRead \/ ChooseWrite \/ ChooseMonitor \/ ChooseReplace \/ ChooseDelete
                    \/ AskContent
  PROVE  \E r \in Requests : Call(r) /\ state # "listening" /\ BaseInv'
<1>. USE DEF Requests
<1>1. CASE ChooseRead
  <2>1. PICK q \in prepareReadRequest :
          /\ readReq' = q
          /\ Call([op |-> "GET_LAST_MODIFIED_TIME", pathname |-> q.pathname])
    BY <1>1 DEF ChooseRead
  <2>. DEFINE r == [op |-> "GET_LAST_MODIFIED_TIME", pathname |-> q.pathname]
  <2>2. r \in Requests
    BY DEF prepareReadRequest, GetLastModifiedTimeRequest
  <2>3. q # NoRequest
    BY DEF prepareReadRequest, NoRequest
  <2>4. Call(r) /\ state # "listening"
    BY <1>1, <2>1 DEF ChooseRead
  <2>. HIDE DEF r, Requests
  <2>. QED  BY <2>1, <2>2, <2>3, <2>4, CallKeeps
<1>2. CASE ChooseWrite \/ ChooseMonitor \/ ChooseReplace \/ ChooseDelete
  <2>1. PICK r \in Requests :
          Call(r) /\ r.op # "GET_LAST_MODIFIED_TIME" /\ readReq' = readReq
    BY <1>2
    DEF ChooseWrite, ChooseMonitor, ChooseReplace, ChooseDelete, prepareWriteRequest,
        prepareSubscribeRequest, prepareReplaceRequest, prepareDeleteRequest
  <2>2. state # "listening"
    BY <1>2 DEF ChooseWrite, ChooseMonitor, ChooseReplace, ChooseDelete
  <2>3. readReq' \in prepareReadRequest \cup {NoRequest}
    BY <2>1 DEF BaseInv, TypeOK
  <2>. HIDE DEF Requests
  <2>. QED  BY <2>1, <2>2, <2>3, CallKeeps
<1>3. CASE AskContent
  <2>1. Call(readReq) /\ readReq' = NoRequest /\ state = "timed"
    BY <1>3 DEF AskContent
  <2>2. readReq \in prepareReadRequest
    BY <2>1 DEF BaseInv, TypeOK
  <2>3. readReq \in Requests /\ readReq.op # "GET_LAST_MODIFIED_TIME"
    BY <2>2 DEF prepareReadRequest
  <2>. HIDE DEF Requests
  <2>. QED  BY <2>1, <2>3, CallKeeps
<1>. QED  BY <1>1, <1>2, <1>3

\* A step within a call: what is on the way then is as good as what was.
LEMMA SameCall ==
  ASSUME BaseInv, UNCHANGED <<calls, request>>,
         \A m \in requests' : m \in requests \/ m = Current,
         \A d \in inbox' : d \in inbox \/ Belongs(d),
         \A k \in 1..MaxCalls : k > calls => left'[k] = 0
  PROVE  Matched'
<1>1. Current' = Current
  BY DEF Current
<1>2. Current.call <= calls /\ calls \in Nat
  BY DEF Current, BaseInv, TypeOK
<1>3. \A m \in requests' : m.call <= calls' /\ (m.call = calls' => m = Current')
  BY <1>1, <1>2 DEF BaseInv, Matched
<1>4. ASSUME NEW d \in inbox'
      PROVE  d.call <= calls' /\ (d.call = calls' /\ calls' > 0 => d.op = request'.op)
  <2>1. Belongs(d)
    BY <1>4, Zenon DEF BaseInv, Matched
  <2>. QED  BY <2>1 DEF Belongs
<1>5. /\ request' # NoRequest => calls' > 0
      /\ \A k \in 1..MaxCalls : k > calls' => left'[k] = 0
  BY DEF BaseInv, Matched
<1>. QED  BY <1>3, <1>4, <1>5 DEF Matched, Belongs

LEMMA LeaveKeeps ==
  ASSUME BaseInv, ChooseEnd \/ ShowCached
  PROVE  BaseInv' /\ state' \in {"ended", "menu"}
<1>1. /\ UNCHANGED <<calls, request, early, strange, elapsed, idle, requests, inbox,
                     up, left, unsent>>
      /\ state # "listening" /\ state' \in {"ended", "menu"}
      /\ readReq' \in {readReq, NoRequest}
  BY DEF ChooseEnd, ShowCached, historyVars, windowVars, serverVars
<1>2. TypeOK'
  <2>1. strange' \in BOOLEAN /\ up' \in BOOLEAN /\ unsent' \in BOOLEAN
    BY <1>1, Zenon DEF BaseInv, TypeOK
  <2>2. /\ calls' \in 0..MaxCalls /\ request' \in Requests \cup {NoRequest}
        /\ early' \in 0..MaxEarly /\ elapsed' \in Nat /\ idle' \in Nat
        /\ requests' \subseteq Packets /\ inbox' \subseteq Replies \cup Notifications
        /\ left' \in [1..MaxCalls -> Nat]
    BY <1>1, Zenon DEF BaseInv, TypeOK
  <2>3. readReq' \in prepareReadRequest \cup {NoRequest}
    BY <1>1 DEF BaseInv, TypeOK
  <2>4. /\ state' \in {"menu", "waiting", "timed", "listening", "ended", "died"}
        /\ state' # "waiting" /\ state' # "timed" /\ state' # "listening"
    BY <1>1
  <2>. QED  BY <2>1, <2>2, <2>3, <2>4, Zenon DEF TypeOK
<1>3. Matched'
  BY <1>1, SameCall DEF BaseInv, Matched
<1>. QED  BY <1>1, <1>2, <1>3 DEF BaseInv, TimeAsked, Windows

LEMMA TimeoutKeeps ==
  ASSUME BaseInv, Timeout
  PROVE  BaseInv'
<1>1. /\ state = "waiting" /\ requests' = requests \cup {Current}
      /\ UNCHANGED <<state, calls, request, readReq, strange, elapsed, idle, inbox,
                     up, left, unsent>>
  BY DEF Timeout, Resend, windowVars, serverVars
<1>2. early' \in 0..MaxEarly
  BY ClientAssumption DEF Timeout, BaseInv, TypeOK
<1>3. Current \in Packets
  <2>1. calls \in 1..MaxCalls /\ request \in Requests
    BY <1>1, CurrentRequest, ClientAssumption DEF BaseInv, TypeOK
  <2>. QED  BY <2>1 DEF Current, Packets
<1>4. TypeOK'
  <2>1. requests' \subseteq Packets
    BY <1>1, <1>3 DEF BaseInv, TypeOK
  <2>. QED  BY <1>1, <1>2, <2>1, Zenon DEF BaseInv, TypeOK
<1>5. Matched'
  BY <1>1, SameCall DEF BaseInv, Matched
<1>. QED  BY <1>1, <1>4, <1>5 DEF BaseInv, TimeAsked, Windows

LEMMA ReceiveKeeps ==
  ASSUME BaseInv, NEW d \in inbox, Receive(d)
  PROVE  BaseInv'
<1>1. /\ state = "waiting" /\ inbox' = inbox \ {d}
      /\ state' = NextState(Understood(d))
      /\ readReq' = IF state' = "timed" THEN readReq ELSE NoRequest
      /\ strange' = (strange \/ d.call # calls)
      /\ UNCHANGED <<calls, request, early, elapsed, idle, requests, up, left, unsent>>
  BY DEF Receive, windowVars, serverVars
<1>2. request \in Requests /\ request.op \in Ops
  BY <1>1, CurrentRequest DEF BaseInv
<1>. DEFINE r == Understood(d)
<1>3. /\ r.result \in {"thrown", "error", "content", "time", "done"}
      /\ r.result = "time" => request.op = "GET_LAST_MODIFIED_TIME"
  BY <1>2, UnmarshalledTo DEF Understood
<1>. HIDE DEF r
<1>4. /\ state' \in {"died", "timed", "listening", "menu"}
      /\ state' = "timed" => request.op = "GET_LAST_MODIFIED_TIME"
      /\ state' = "listening" =>
           request.op = "SUBSCRIBE" /\ request.monitorIntervalSeconds > 0
  BY <1>1, <1>3, NextStates DEF r
<1>5. state' = "timed" => readReq' # NoRequest
  BY <1>1, <1>4 DEF BaseInv, TimeAsked
<1>6. TypeOK'
  <2>1. strange' \in BOOLEAN /\ up' \in BOOLEAN /\ unsent' \in BOOLEAN
    BY <1>1, Zenon DEF BaseInv, TypeOK
  <2>2. inbox' \subseteq Replies \cup Notifications
    BY <1>1 DEF BaseInv, TypeOK
  <2>3. readReq' \in prepareReadRequest \cup {NoRequest}
    BY <1>1 DEF BaseInv, TypeOK
  <2>4. /\ calls' \in 0..MaxCalls /\ request' \in Requests \cup {NoRequest}
        /\ early' \in 0..MaxEarly /\ elapsed' \in Nat /\ idle' \in Nat
        /\ requests' \subseteq Packets /\ left' \in [1..MaxCalls -> Nat]
    BY <1>1, Zenon DEF BaseInv, TypeOK
  <2>5. /\ state' \in {"menu", "waiting", "timed", "listening", "ended", "died"}
        /\ state' # "waiting" /\ (state' = "listening" => request'.op = "SUBSCRIBE")
    BY <1>1, <1>4
  <2>. QED  BY <1>5, <2>1, <2>2, <2>3, <2>4, <2>5, Zenon DEF TypeOK
<1>7. Matched'
  BY <1>1, SameCall DEF BaseInv, Matched
<1>8. Windows'
  <2>1. elapsed' = 0 /\ idle' = 0
    BY <1>1 DEF BaseInv, Windows
  <2>2. state' = "listening" => request.monitorIntervalSeconds \in Nat
    BY <1>2, <1>4, CurrentRequest DEF BaseInv
  <2>. QED  BY <1>1, <1>4, <2>1, <2>2 DEF Windows
<1>9. TimeAsked'
  BY <1>4 DEF TimeAsked
<1>. QED  BY <1>6, <1>7, <1>8, <1>9 DEF BaseInv

LEMMA ListenKeeps ==
  ASSUME BaseInv, EndIteration, state = "listening", inbox' \subseteq inbox
  PROVE  /\ BaseInv'
         /\ state' = "menu" => elapsed >= request.monitorIntervalSeconds
<1>1. /\ state' = IF WindowOpen THEN "listening" ELSE "menu"
      /\ elapsed' = IF WindowOpen THEN elapsed ELSE 0
      /\ idle' = 0
      /\ UNCHANGED <<calls, request, readReq, early, strange, requests, up, left, unsent>>
  BY DEF EndIteration, historyVars, serverVars
<1>2. request.monitorIntervalSeconds \in Nat /\ elapsed \in Nat
  BY CurrentRequest DEF BaseInv, TypeOK
<1>3. TypeOK'
  <2>1. strange' \in BOOLEAN /\ up' \in BOOLEAN /\ unsent' \in BOOLEAN
    BY <1>1, Zenon DEF BaseInv, TypeOK
  <2>2. inbox' \subseteq Replies \cup Notifications
    BY DEF BaseInv, TypeOK
  <2>3. elapsed' \in Nat /\ idle' \in Nat
    BY <1>1, <1>2
  <2>4. /\ calls' \in 0..MaxCalls /\ request' \in Requests \cup {NoRequest}
        /\ readReq' \in prepareReadRequest \cup {NoRequest}
        /\ early' \in 0..MaxEarly
        /\ requests' \subseteq Packets /\ left' \in [1..MaxCalls -> Nat]
    BY <1>1, Zenon DEF BaseInv, TypeOK
  <2>5. /\ state' \in {"menu", "waiting", "timed", "listening", "ended", "died"}
        /\ state' # "waiting" /\ state' # "timed"
        /\ state' = "listening" => request'.op = "SUBSCRIBE"
    BY <1>1 DEF BaseInv, TypeOK
  <2>. QED  BY <2>1, <2>2, <2>3, <2>4, <2>5, Zenon DEF TypeOK
<1>4. Matched'
  BY <1>1, SameCall DEF BaseInv, Matched
<1>5. Windows'
  BY <1>1, <1>2 DEF Windows, WindowOpen
<1>6. TimeAsked'
  BY <1>1 DEF TimeAsked
<1>7. state' = "menu" => elapsed >= request.monitorIntervalSeconds
  BY <1>1, <1>2 DEF WindowOpen
<1>. QED  BY <1>3, <1>4, <1>5, <1>6, <1>7 DEF BaseInv

\* A step of the server or of the network.
LEMMA OutsideKeeps ==
  ASSUME BaseInv, UNCHANGED clientVars, requests' \subseteq requests,
         inbox' \subseteq Replies \cup Notifications,
         \A d \in inbox' : d \in inbox \/ Belongs(d),
         up' \in BOOLEAN, unsent' \in BOOLEAN, left' \in [1..MaxCalls -> Nat],
         \A k \in 1..MaxCalls : k > calls => left'[k] = 0
  PROVE  BaseInv'
<1>1. UNCHANGED <<state, calls, request, readReq, early, strange, elapsed, idle>>
  BY DEF clientVars, historyVars, windowVars
<1>2. TypeOK'
  <2>1. requests' \subseteq Packets
    BY DEF BaseInv, TypeOK
  <2>. QED  BY <1>1, <2>1, Zenon DEF BaseInv, TypeOK
<1>3. Matched'
  BY <1>1, SameCall
<1>. QED  BY <1>1, <1>2, <1>3 DEF BaseInv, TimeAsked, Windows

\* The answer to request m.
Answer(m, res) == [call |-> m.call, op |-> m.request.op, response |-> res]

LEMMA ReplyAdds ==
  ASSUME BaseInv, NEW m \in requests, NEW res \in Responses(m.request.op),
         Reply(m, m.request.op, res)
  PROVE  /\ inbox' = inbox \/ inbox' = inbox \cup {Answer(m, res)}
         /\ inbox' \subseteq Replies \cup Notifications
         /\ \A d \in inbox' : d \in inbox \/ Belongs(d)
         /\ unsent' \in BOOLEAN
<1>. DEFINE a == Answer(m, res)
<1>1. m \in Packets /\ m.call \in 1..MaxCalls
  BY DEF BaseInv, TypeOK, Packets
<1>2. /\ inbox' = inbox \/ inbox' = inbox \cup {a}
      /\ unsent' = unsent \/ unsent' = (unsent \/ m = Current)
  BY DEF Reply, Answer
<1>3. a \in Replies
  <2>1. m.request.op \in Ops
    BY <1>1, PacketUnderstood
  <2>. QED  BY <1>1, <2>1 DEF Replies, Answer
<1>4. Belongs(a)
  BY DEF Answer, BaseInv, Matched, Belongs, Current
<1>5. unsent' \in BOOLEAN
  BY <1>2, Zenon DEF BaseInv, TypeOK
<1>. HIDE DEF a
<1>6. inbox \subseteq Replies \cup Notifications
  BY DEF BaseInv, TypeOK
<1>7. inbox' = inbox \/ inbox' = inbox \cup {Answer(m, res)}
  BY <1>2 DEF a
<1>. QED  BY <1>2, <1>3, <1>4, <1>5, <1>6, <1>7

\* What Serve does to the subscriptions: only the interval the client asked for
\* is stored, for the call it asked it in.
LEMMA ServeEffect ==
  ASSUME BaseInv, NEW m \in requests, Serve(m)
  PROVE  /\ \E res \in Responses(m.request.op) : Reply(m, m.request.op, res)
         /\ requests' = requests \ {m}
         /\ UNCHANGED <<clientVars, up>>
         /\ \/ left' = left
            \/ /\ m.request.op = "SUBSCRIBE"
               /\ m.request.monitorIntervalSeconds \in Nat
               /\ left' = [left EXCEPT ![m.call] = m.request.monitorIntervalSeconds]
<1>1. m \in Packets /\ m.request \in Requests
  BY DEF BaseInv, TypeOK, Packets
<1>2. requests' = requests \ {m} /\ UNCHANGED <<clientVars, up>>
  BY DEF Serve, ReadFromClient
<1>3. PICK op \in Ops :
        /\ <<op, m>> \in Routed
        /\ \E res \in Responses(op) :
             /\ Reply(m, op, res)
             /\ left' = IF op = "SUBSCRIBE" /\ res = Done
                        THEN [left EXCEPT ![m.call] =
                                Subscribed(UnmarshalRequest(op, Data(m)))]
                        ELSE left
  BY Zenon DEF Serve
<1>4. op = m.request.op /\ UnmarshalRequest(op, Data(m)) = m.request
  BY <1>1, <1>3, PacketRouted
<1>5. PICK res \in Responses(op) :
        /\ Reply(m, op, res)
        /\ left' = IF op = "SUBSCRIBE" /\ res = Done
                   THEN [left EXCEPT ![m.call] = Subscribed(m.request)]
                   ELSE left
  BY <1>3, <1>4, Zenon
<1>6. m.request.op = "SUBSCRIBE" => m.request.monitorIntervalSeconds \in Nat
  BY <1>1, ConstantTypes
  DEF Requests, prepareReadRequest, prepareWriteRequest, prepareReplaceRequest,
      prepareDeleteRequest, prepareSubscribeRequest, GetLastModifiedTimeRequest
<1>7. \/ left' = left
      \/ /\ m.request.op = "SUBSCRIBE"
         /\ left' = [left EXCEPT ![m.call] = m.request.monitorIntervalSeconds]
  BY <1>4, <1>5, Zenon DEF Subscribed
<1>. QED  BY <1>2, <1>4, <1>5, <1>6, <1>7, Zenon

LEMMA ServeKeeps ==
  ASSUME BaseInv, NEW m \in requests, Serve(m)
  PROVE  BaseInv'
<1>1. PICK res \in Responses(m.request.op) : Reply(m, m.request.op, res)
  BY ServeEffect
<1>2. /\ inbox' \subseteq Replies \cup Notifications
      /\ \A d \in inbox' : d \in inbox \/ Belongs(d)
      /\ unsent' \in BOOLEAN
  BY <1>1, ReplyAdds
<1>3. requests' \subseteq requests /\ UNCHANGED clientVars
  BY ServeEffect
<1>4. up' \in BOOLEAN
  BY ServeEffect, Zenon DEF BaseInv, TypeOK
<1>5. m.call <= calls /\ m.call \in Nat /\ calls \in Nat
  BY DEF BaseInv, TypeOK, Matched, Packets
<1>6. /\ left' \in [1..MaxCalls -> Nat]
      /\ \A k \in 1..MaxCalls : k > calls => left'[k] = 0
  <2>1. /\ left \in [1..MaxCalls -> Nat]
        /\ \A k \in 1..MaxCalls : k > calls => left[k] = 0
    BY Zenon DEF BaseInv, TypeOK, Matched
  <2>2. \/ left' = left
        \/ /\ m.request.monitorIntervalSeconds \in Nat
           /\ left' = [left EXCEPT ![m.call] = m.request.monitorIntervalSeconds]
    BY ServeEffect, Zenon
  <2>3. CASE left' = left
    BY <2>1, <2>3
  <2>4. ASSUME NEW i \in Nat,
               left' = [left EXCEPT ![m.call] = i]
        PROVE  /\ left' \in [1..MaxCalls -> Nat]
               /\ \A k \in 1..MaxCalls : k > calls => left'[k] = 0
    <3>1. left' \in [1..MaxCalls -> Nat]
      BY <2>1, <2>4
    <3>2. ASSUME NEW k \in 1..MaxCalls, k > calls
          PROVE  left'[k] = 0
      <4>1. k # m.call
        BY <1>5, <3>2
      <4>. QED  BY <2>1, <2>4, <3>2, <4>1
    <3>. QED  BY <3>1, <3>2
  <2>. QED  BY <2>2, <2>3, <2>4
<1>. QED  BY <1>2, <1>3, <1>4, <1>6, OutsideKeeps

LEMMA RefuseEffect ==
  ASSUME BaseInv, NEW m \in requests, Refuse(m)
  PROVE  /\ \E res \in Responses(m.request.op) : Reply(m, m.request.op, res)
         /\ requests' = requests \ {m}
         /\ UNCHANGED <<clientVars, up, left>>
<1>1. m \in Packets
  BY DEF BaseInv, TypeOK
<1>2. /\ m.request.op \in Ops
      /\ \A o \in Ops : HasType(m, o) <=> o = m.request.op
  BY <1>1, PacketUnderstood
<1>3. PICK op \in Ops : HasType(m, op) /\ Reply(m, op, Error(InvalidRequest))
  BY Zenon DEF Refuse
<1>4. op = m.request.op
  BY <1>2, <1>3
<1>5. Error(InvalidRequest) \in Responses(op)
  <2>1. Error(InvalidRequest) \in Errors
    BY DEF Errors
  <2>. QED  BY <2>1, Zenon DEF Responses
<1>. QED  BY <1>3, <1>4, <1>5, Zenon DEF Refuse, ReadFromClient

LEMMA HandleKeeps ==
  ASSUME BaseInv, NEW m \in requests, Handle(m)
  PROVE  BaseInv'
<1>1. CASE Panic(m)
  <2>1. /\ requests' \subseteq requests /\ inbox' = inbox
        /\ UNCHANGED <<clientVars, left>>
    BY <1>1 DEF Panic, ReadFromClient
  <2>2. up' \in BOOLEAN /\ unsent' \in BOOLEAN
    BY <1>1, Zenon DEF Panic, BaseInv, TypeOK
  <2>3. /\ inbox' \subseteq Replies \cup Notifications
        /\ left' \in [1..MaxCalls -> Nat]
        /\ \A k \in 1..MaxCalls : k > calls => left'[k] = 0
    BY <2>1, Zenon DEF BaseInv, TypeOK, Matched
  <2>. QED  BY <2>1, <2>2, <2>3, OutsideKeeps
<1>2. CASE Refuse(m)
  <2>1. PICK res \in Responses(m.request.op) : Reply(m, m.request.op, res)
    BY <1>2, RefuseEffect
  <2>2. /\ inbox' \subseteq Replies \cup Notifications
        /\ \A d \in inbox' : d \in inbox \/ Belongs(d)
        /\ unsent' \in BOOLEAN
    BY <2>1, ReplyAdds
  <2>3. requests' \subseteq requests /\ UNCHANGED <<clientVars, left>>
    BY <1>2, RefuseEffect
  <2>4. up' \in BOOLEAN
    BY <1>2, RefuseEffect, Zenon DEF BaseInv, TypeOK
  <2>5. /\ left' \in [1..MaxCalls -> Nat]
        /\ \A k \in 1..MaxCalls : k > calls => left'[k] = 0
    BY <2>3, Zenon DEF BaseInv, TypeOK, Matched
  <2>. QED  BY <2>2, <2>3, <2>4, <2>5, OutsideKeeps
<1>. QED  BY <1>1, <1>2, ServeKeeps DEF Handle

LEMMA NotifyKeeps ==
  ASSUME BaseInv, NEW c \in Contents, Notify(c)
  PROVE  BaseInv'
<1>. DEFINE n == [call |-> 0, op |-> "UPDATE",
                  response |-> [result |-> "content", content |-> c]]
<1>1. /\ inbox' = inbox \cup {n}
      /\ UNCHANGED <<clientVars, requests, up, left, unsent>>
  BY DEF Notify, serverVars
<1>2. n \in Notifications /\ n.call = 0
  BY DEF Notifications
<1>. HIDE DEF n
<1>3. calls \in Nat
  BY DEF BaseInv, TypeOK
<1>4. Belongs(n)
  BY <1>2, <1>3 DEF Belongs
<1>5. /\ inbox' \subseteq Replies \cup Notifications
      /\ \A d \in inbox' : d \in inbox \/ Belongs(d)
  BY <1>1, <1>2, <1>4 DEF BaseInv, TypeOK
<1>6. up' \in BOOLEAN /\ unsent' \in BOOLEAN
  BY <1>1, Zenon DEF BaseInv, TypeOK
<1>7. /\ left' \in [1..MaxCalls -> Nat]
      /\ \A k \in 1..MaxCalls : k > calls => left'[k] = 0
  BY <1>1, Zenon DEF BaseInv, TypeOK, Matched
<1>. QED  BY <1>1, <1>5, <1>6, <1>7, OutsideKeeps

LEMMA LoseKeeps ==
  ASSUME BaseInv, Lose
  PROVE  BaseInv' /\ requests' \subseteq requests /\ inbox' \subseteq inbox
<1>1. /\ requests' \subseteq requests /\ inbox' \subseteq inbox
      /\ UNCHANGED <<clientVars, up, left, unsent>>
  BY DEF Lose, serverVars
<1>2. up' \in BOOLEAN /\ unsent' \in BOOLEAN
  BY <1>1, Zenon DEF BaseInv, TypeOK
<1>3. /\ left' \in [1..MaxCalls -> Nat]
      /\ \A k \in 1..MaxCalls : k > calls => left'[k] = 0
  BY <1>1, Zenon DEF BaseInv, TypeOK, Matched
<1>4. inbox' \subseteq Replies \cup Notifications
  BY <1>1 DEF BaseInv, TypeOK
<1>. QED  BY <1>1, <1>2, <1>3, <1>4, OutsideKeeps

LEMMA TickKeeps ==
  ASSUME BaseInv, Tick
  PROVE  BaseInv'
<1>1. /\ state = "listening" => idle < request.monitorIntervalSeconds
      /\ left' = [k \in 1..MaxCalls |-> IF left[k] > 0 THEN left[k] - 1 ELSE 0]
      /\ elapsed' = IF state = "listening" THEN elapsed + 1 ELSE elapsed
      /\ idle' = IF state = "listening" THEN idle + 1 ELSE idle
      /\ UNCHANGED <<state, calls, request, readReq, early, strange, requests, inbox,
                     up, unsent>>
  BY DEF Tick, historyVars
<1>2. left \in [1..MaxCalls -> Nat] /\ elapsed \in Nat /\ idle \in Nat
  BY DEF BaseInv, TypeOK
<1>3. /\ left' \in [1..MaxCalls -> Nat] /\ elapsed' \in Nat /\ idle' \in Nat
      /\ \A k \in 1..MaxCalls : left'[k] <= left[k]
  BY <1>1, <1>2
<1>4. TypeOK'
  BY <1>1, <1>3, Zenon DEF BaseInv, TypeOK
<1>5. \A k \in 1..MaxCalls : k > calls => left'[k] = 0
  BY <1>1, <1>2 DEF BaseInv, Matched
<1>6. Matched'
  BY <1>1, <1>5, SameCall
<1>7. Windows'
  <2>1. state = "listening" => request.monitorIntervalSeconds \in Nat
    BY CurrentRequest DEF BaseInv
  <2>. QED  BY <1>1, <1>2, <2>1 DEF BaseInv, Windows
<1>. QED  BY <1>1, <1>4, <1>6, <1>7 DEF BaseInv, TimeAsked

LEMMA BaseInvStep == BaseInv /\ [Next]_vars => BaseInv'
<1>. SUFFICES ASSUME BaseInv, [Next]_vars
              PROVE  BaseInv'
  OBVIOUS
<1>1. CASE ChooseRead \/ ChooseWrite \/ ChooseMonitor \/ ChooseReplace \/ ChooseDelete
             \/ AskContent
  BY <1>1, ChooseKeeps
<1>2. CASE ChooseEnd \/ ShowCached
  BY <1>2, LeaveKeeps
<1>3. CASE Timeout
  BY <1>3, TimeoutKeeps
<1>4. CASE ListenTimeout
  BY <1>4, ListenKeeps DEF ListenTimeout
<1>5. ASSUME NEW d \in inbox, Receive(d) \/ Show(d)
      PROVE  BaseInv'
  BY <1>5, ReceiveKeeps, ListenKeeps DEF Show
<1>6. ASSUME NEW m \in requests, Handle(m)
      PROVE  BaseInv'
  BY <1>6, HandleKeeps
<1>7. ASSUME NEW c \in Contents, Notify(c)
      PROVE  BaseInv'
  BY <1>7, NotifyKeeps
<1>8. CASE Lose
  BY <1>8, LoseKeeps
<1>9. CASE Tick
  BY <1>9, TickKeeps
<1>10. CASE UNCHANGED vars
  <2>1. UNCHANGED <<state, calls, request, readReq, early, strange, elapsed, idle,
                    requests, inbox, up, left, unsent>>
    BY <1>10 DEF vars, clientVars, serverVars, historyVars, windowVars
  <2>2. TypeOK'
    BY <2>1, Zenon DEF BaseInv, TypeOK
  <2>3. Matched'
    BY <2>1, SameCall DEF BaseInv, Matched
  <2>. QED  BY <2>1, <2>2, <2>3 DEF BaseInv, TimeAsked, Windows
<1>. QED
  BY <1>1, <1>2, <1>3, <1>4, <1>5, <1>6, <1>7, <1>8, <1>9, <1>10 DEF Next

LEMMA BaseInvHolds == Spec => []BaseInv
BY BaseInvInit, BaseInvStep, PTL DEF Spec

(***************************************************************************)
(* The window and the subscription it is opened for.                       *)
(***************************************************************************)

\* Of the subscription, the server keeps no more than was asked for.
AsLongAsAsked ==
  calls > 0 /\ request.op = "SUBSCRIBE" =>
    left[calls] <= request.monitorIntervalSeconds

\* Without a premature timeout a request is on its way, or one answer to it.
OneAnswer ==
  early = 0 /\ state = "waiting" =>
    \A d \in inbox :
      d.call = calls =>
        Current \notin requests /\ (\A e \in inbox : e.call = calls => e = d)

\* The subscription and the window end together, or the subscription first.
EndsInTime ==
  early = 0 /\ ~strange /\ state = "listening" =>
    /\ Current \notin requests
    /\ left[calls] = 0 \/ elapsed + left[calls] <= request.monitorIntervalSeconds

Single == AsLongAsAsked /\ OneAnswer /\ EndsInTime

\* The call that is being made is one of those that are counted.
LEMMA CallsInRange ==
  ASSUME BaseInv
  PROVE  /\ calls \in Nat
         /\ calls > 0 => calls \in 1..MaxCalls /\ left[calls] \in Nat
<1>1. calls \in 0..MaxCalls /\ left \in [1..MaxCalls -> Nat]
  BY DEF BaseInv, TypeOK
<1>2. MaxCalls \in Nat
  BY ClientAssumption, SMT DEF Count
<1>3. calls \in Nat /\ (calls > 0 => calls \in 1..MaxCalls)
  BY <1>1, <1>2
<1>. QED  BY <1>1, <1>3

LEMMA SingleInit == Init => Single
BY DEF Init, Single, AsLongAsAsked, OneAnswer, EndsInTime

LEMMA CallKeepsSingle ==
  ASSUME BaseInv, Single, NEW r \in Requests, Call(r)
  PROVE  Single'
<1>1. /\ calls < MaxCalls /\ calls' = calls + 1 /\ request' = r /\ state' = "waiting"
      /\ inbox' = inbox /\ left' = left
  BY DEF Call
<1>2. MaxCalls \in Nat /\ calls \in Nat
  BY ClientAssumption, SMT DEF Count, BaseInv, TypeOK
<1>3. calls' \in 1..MaxCalls /\ calls' > calls
  BY <1>1, <1>2
<1>4. AsLongAsAsked'
  <2>1. left'[calls'] = 0
    BY <1>1, <1>3 DEF BaseInv, Matched
  <2>2. r.op = "SUBSCRIBE" => r.monitorIntervalSeconds \in Nat
    BY ConstantTypes
    DEF Requests, prepareReadRequest, prepareWriteRequest, prepareReplaceRequest,
        prepareDeleteRequest, prepareSubscribeRequest, GetLastModifiedTimeRequest
  <2>. QED  BY <1>1, <2>1, <2>2 DEF AsLongAsAsked
<1>5. \A d \in inbox' : d.call # calls'
  <2>1. ASSUME NEW d \in inbox
        PROVE  d.call <= calls /\ d.call \in Nat
    <3>1. d \in Replies \cup Notifications
      BY DEF BaseInv, TypeOK
    <3>2. d.call \in Nat
      BY <1>2, <3>1, InInbox
    <3>. QED  BY <3>2 DEF BaseInv, Matched, Belongs
  <2>. QED  BY <1>1, <1>2, <2>1
<1>6. OneAnswer'
  BY <1>5 DEF OneAnswer
<1>7. EndsInTime'
  BY <1>1 DEF EndsInTime
<1>. QED  BY <1>4, <1>6, <1>7 DEF Single

\* A step that neither answers the current request nor goes on with the client.
LEMMA OthersKeepSingle ==
  ASSUME BaseInv, Single,
         UNCHANGED <<state, calls, request, early, strange, elapsed>>,
         requests' \subseteq requests,
         \A d \in inbox' : d \in inbox \/ d.call # calls,
         calls > 0 => left'[calls] = left[calls]
  PROVE  Single'
<1>1. Current' = Current
  BY DEF Current
<1>2. AsLongAsAsked'
  BY DEF Single, AsLongAsAsked
<1>3. OneAnswer'
  BY <1>1 DEF Single, OneAnswer
<1>4. EndsInTime'
  <2>1. state = "listening" => calls > 0
    BY CurrentRequest DEF BaseInv
  <2>. QED  BY <1>1, <2>1 DEF Single, EndsInTime
<1>. QED  BY <1>2, <1>3, <1>4 DEF Single

LEMMA AnswerKeepsSingle ==
  ASSUME BaseInv, Single, NEW m \in requests, NEW res \in Responses(m.request.op),
         Reply(m, m.request.op, res), requests' = requests \ {m},
         UNCHANGED clientVars,
         \/ left' = left
         \/ /\ m.request.op = "SUBSCRIBE"
            /\ left' = [left EXCEPT ![m.call] = m.request.monitorIntervalSeconds]
  PROVE  Single'
<1>1. UNCHANGED <<state, calls, request, early, strange, elapsed>>
  BY DEF clientVars, historyVars, windowVars
<1>2. m.call \in 1..MaxCalls /\ m.call <= calls /\ (m.call = calls => m = Current)
  BY DEF BaseInv, TypeOK, Packets, Matched
<1>3. inbox' = inbox \/ inbox' = inbox \cup {Answer(m, res)}
  BY ReplyAdds
<1>4. left \in [1..MaxCalls -> Nat] /\ (calls > 0 => calls \in 1..MaxCalls)
  BY CallsInRange DEF BaseInv, TypeOK
<1>5. CASE m.call # calls
  <2>1. Answer(m, res).call # calls
    BY <1>5 DEF Answer
  <2>2. calls > 0 => left'[calls] = left[calls]
    BY <1>4, <1>5
  <2>3. \A d \in inbox' : d \in inbox \/ d.call # calls
    BY <1>3, <2>1
  <2>. QED  BY <1>1, <2>2, <2>3, OthersKeepSingle
<1>6. CASE m.call = calls
  <2>1. m = Current /\ m.request = request /\ Current' = Current
    BY <1>1, <1>2, <1>6 DEF Current
  <2>2. AsLongAsAsked'
    <3>1. request.op = "SUBSCRIBE" => request.monitorIntervalSeconds \in Nat
      <4>1. m.request \in Requests
        BY DEF BaseInv, TypeOK, Packets
      <4>. QED  BY <2>1, <4>1, CurrentRequest DEF BaseInv
    <3>2. CASE left' = left
      BY <1>1, <3>2 DEF Single, AsLongAsAsked
    <3>3. CASE left' = [left EXCEPT ![m.call] = m.request.monitorIntervalSeconds]
      <4>1. calls > 0 => left'[calls] = request.monitorIntervalSeconds
        BY <1>4, <1>6, <2>1, <3>3
      <4>. QED  BY <1>1, <3>1, <4>1 DEF AsLongAsAsked
    <3>. QED  BY <3>2, <3>3
  <2>3. OneAnswer'
    <3>1. SUFFICES ASSUME early = 0, state = "waiting"
                   PROVE  OneAnswer'
      BY <1>1 DEF OneAnswer
    <3>2. \A d \in inbox : d.call # calls
      BY <2>1, <3>1 DEF Single, OneAnswer
    <3>3. \A d \in inbox' : d.call = calls => d = Answer(m, res)
      BY <1>3, <3>2
    <3>4. Current' \notin requests'
      BY <2>1
    <3>. QED  BY <1>1, <3>3, <3>4 DEF OneAnswer
  <2>4. EndsInTime'
    BY <1>1, <2>1 DEF Single, EndsInTime
  <2>. QED  BY <2>2, <2>3, <2>4 DEF Single
<1>. QED  BY <1>5, <1>6

LEMMA TimeoutKeepsSingle ==
  ASSUME BaseInv, Single, Timeout
  PROVE  Single'
<1>1. /\ state = "waiting"
      /\ UNCHANGED <<state, calls, request, inbox, left>>
      /\ inbox = {} \/ early' = early + 1
  BY DEF Timeout, Quiet, serverVars
<1>2. early \in Nat
  BY ClientAssumption DEF BaseInv, TypeOK
<1>3. AsLongAsAsked'
  BY <1>1 DEF Single, AsLongAsAsked
<1>4. OneAnswer'
  BY <1>1, <1>2 DEF OneAnswer
<1>5. EndsInTime'
  BY <1>1 DEF EndsInTime
<1>. QED  BY <1>3, <1>4, <1>5 DEF Single

\* The window opens with the reply, so no request is on its way then.
LEMMA ReceiveKeepsSingle ==
  ASSUME BaseInv, Single, NEW d \in inbox, Receive(d)
  PROVE  Single'
<1>1. /\ state = "waiting" /\ state' = NextState(Understood(d))
      /\ strange' = (strange \/ d.call # calls)
      /\ UNCHANGED <<calls, request, early, elapsed, requests, left>>
  BY DEF Receive, windowVars, serverVars
<1>2. /\ state' # "waiting"
      /\ state' = "listening" => request.op = "SUBSCRIBE"
  <2>1. request.op \in Ops
    BY <1>1, CurrentRequest DEF BaseInv
  <2>2. Understood(d).result \in {"thrown", "error", "content", "time", "done"}
    BY <2>1, UnmarshalledTo DEF Understood
  <2>. QED  BY <1>1, <2>2, NextStates
<1>3. AsLongAsAsked'
  BY <1>1 DEF Single, AsLongAsAsked
<1>4. OneAnswer'
  BY <1>2 DEF OneAnswer
<1>5. EndsInTime'
  <2>1. SUFFICES ASSUME early = 0, ~strange', state' = "listening"
                 PROVE  /\ Current \notin requests
                        /\ left[calls] <= request.monitorIntervalSeconds
                        /\ elapsed = 0 /\ left[calls] \in Nat
    <3>1. Current' = Current
      BY <1>1 DEF Current
    <3>2. request.op = "SUBSCRIBE" => request.monitorIntervalSeconds \in Nat
      BY <1>1, CurrentRequest DEF BaseInv
    <3>. QED  BY <1>1, <1>2, <2>1, <3>1, <3>2 DEF EndsInTime
  <2>2. d.call = calls
    BY <1>1, <2>1, Zenon
  <2>3. calls > 0
    BY <1>1, CurrentRequest DEF BaseInv
  <2>. QED
    BY <1>1, <1>2, <2>1, <2>2, <2>3, CallsInRange
    DEF Single, OneAnswer, AsLongAsAsked, BaseInv, Windows
<1>. QED  BY <1>3, <1>4, <1>5 DEF Single

LEMMA ListenKeepsSingle ==
  ASSUME BaseInv, Single, EndIteration, state = "listening"
  PROVE  Single'
<1>1. /\ UNCHANGED <<calls, request, early, strange, requests, left>>
      /\ state' \in {"listening", "menu"}
      /\ state' = "listening" => elapsed' = elapsed
      /\ Current' = Current
  BY DEF EndIteration, historyVars, serverVars, Current
<1>2. AsLongAsAsked'
  BY <1>1 DEF Single, AsLongAsAsked
<1>3. OneAnswer'
  BY <1>1 DEF OneAnswer
<1>4. EndsInTime'
  BY <1>1 DEF Single, EndsInTime
<1>. QED  BY <1>2, <1>3, <1>4 DEF Single

LEMMA TickKeepsSingle ==
  ASSUME BaseInv, Single, Tick
  PROVE  Single'
<1>1. /\ left' = [k \in 1..MaxCalls |-> IF left[k] > 0 THEN left[k] - 1 ELSE 0]
      /\ state = "listening" => elapsed' = elapsed + 1
      /\ UNCHANGED <<state, calls, request, early, strange, requests, inbox>>
  BY DEF Tick, historyVars
<1>2. /\ calls > 0 => calls \in 1..MaxCalls /\ left[calls] \in Nat
      /\ elapsed \in Nat
  BY CallsInRange DEF BaseInv, TypeOK
<1>3. calls > 0 =>
        /\ left[calls] = 0 => left'[calls] = 0
        /\ left[calls] > 0 => left'[calls] = left[calls] - 1
  BY <1>1, <1>2
<1>4. AsLongAsAsked'
  <2>1. request.op = "SUBSCRIBE" /\ calls > 0 => request.monitorIntervalSeconds \in Nat
    <3>1. request \in Requests \/ request = NoRequest
      BY DEF BaseInv, TypeOK
    <3>. QED  BY <3>1, CurrentRequest DEF BaseInv, NoRequest
  <2>. QED  BY <1>1, <1>2, <1>3, <2>1 DEF Single, AsLongAsAsked
<1>5. OneAnswer'
  BY <1>1 DEF Single, OneAnswer, Current
<1>6. EndsInTime'
  <2>1. state = "listening" =>
          calls > 0 /\ request.monitorIntervalSeconds \in Nat
    BY CurrentRequest DEF BaseInv
  <2>. QED  BY <1>1, <1>2, <1>3, <2>1 DEF Single, EndsInTime, Current
<1>. QED  BY <1>4, <1>5, <1>6 DEF Single

LEMMA SingleStep == BaseInv /\ Single /\ [Next]_vars => Single'
<1>. SUFFICES ASSUME BaseInv, Single, [Next]_vars
              PROVE  Single'
  OBVIOUS
<1>1. CASE ChooseRead \/ ChooseWrite \/ ChooseMonitor \/ ChooseReplace \/ ChooseDelete
             \/ AskContent
  BY <1>1, ChooseKeeps, CallKeepsSingle
<1>2. CASE ChooseEnd \/ ShowCached
  <2>1. /\ UNCHANGED <<calls, request, early, strange, elapsed, requests, inbox, left>>
        /\ state' \in {"ended", "menu"}
    BY <1>2 DEF ChooseEnd, ShowCached, historyVars, windowVars, serverVars
  <2>. QED  BY <2>1 DEF Single, AsLongAsAsked, OneAnswer, EndsInTime
<1>3. CASE Timeout
  BY <1>3, TimeoutKeepsSingle
<1>4. CASE ListenTimeout
  BY <1>4, ListenKeepsSingle DEF ListenTimeout
<1>5. ASSUME NEW d \in inbox, Receive(d) \/ Show(d)
      PROVE  Single'
  BY <1>5, ReceiveKeepsSingle, ListenKeepsSingle DEF Show
<1>6. ASSUME NEW m \in requests, Handle(m)
      PROVE  Single'
  <2>1. CASE Panic(m)
    <3>1. /\ UNCHANGED <<state, calls, request, early, strange, elapsed>>
          /\ requests' \subseteq requests /\ inbox' = inbox /\ left' = left
      BY <2>1 DEF Panic, ReadFromClient, clientVars, historyVars, windowVars
    <3>. QED  BY <3>1, OthersKeepSingle
  <2>2. CASE Refuse(m)
    BY <2>2, RefuseEffect, AnswerKeepsSingle
  <2>3. CASE Serve(m)
    BY <2>3, ServeEffect, AnswerKeepsSingle
  <2>. QED  BY <1>6, <2>1, <2>2, <2>3 DEF Handle
<1>7. ASSUME NEW c \in Contents, Notify(c)
      PROVE  Single'
  <2>. DEFINE n == [call |-> 0, op |-> "UPDATE",
                    response |-> [result |-> "content", content |-> c]]
  <2>1. /\ inbox' = inbox \cup {n}
        /\ UNCHANGED <<state, calls, request, early, strange, elapsed, requests, left>>
    BY <1>7 DEF Notify, serverVars, clientVars, historyVars, windowVars
  <2>2. n.call = 0
    OBVIOUS
  <2>3. \E k \in 1..MaxCalls : left[k] > 0
    BY <1>7 DEF Notify
  <2>4. calls > 0
    BY <2>3, CallsInRange DEF BaseInv, Matched
  <2>. HIDE DEF n
  <2>5. \A d \in inbox' : d \in inbox \/ d.call # calls
    BY <2>1, <2>2, <2>4
  <2>. QED  BY <2>1, <2>5, OthersKeepSingle
<1>8. CASE Lose
  <2>1. /\ UNCHANGED <<state, calls, request, early, strange, elapsed, left>>
        /\ requests' \subseteq requests /\ inbox' \subseteq inbox
    BY <1>8 DEF Lose, clientVars, serverVars, historyVars, windowVars
  <2>. QED  BY <2>1, OthersKeepSingle
<1>9. CASE Tick
  BY <1>9, TickKeepsSingle
<1>10. CASE UNCHANGED vars
  <2>1. UNCHANGED <<state, calls, request, early, strange, elapsed, requests, inbox, left>>
    BY <1>10 DEF vars, clientVars, serverVars, historyVars, windowVars
  <2>. QED  BY <2>1, OthersKeepSingle
<1>. QED
  BY <1>1, <1>2, <1>3, <1>4, <1>5, <1>6, <1>7, <1>8, <1>9, <1>10 DEF Next

LEMMA SingleHolds == Spec => []Single
BY SingleInit, SingleStep, BaseInvHolds, PTL DEF Spec

(***************************************************************************)
(* The theorems.                                                           *)
(***************************************************************************)

\* Every variable keeps its type: what is on the wire are requests and replies
\* of calls that were made, and the client waits only with a request.
THEOREM TypeInvariant == Spec => []TypeOK
<1>1. BaseInv => TypeOK
  BY DEF BaseInv
<1>. QED  BY <1>1, BaseInvHolds, PTL

\* The server takes every request for the one that was marshalled, or for none
\* at all if the receive buffer cut it off, for texts and buffers of any length
\* (validateMarshalledRequest and UnmarshalRequest).
THEOREM RequestUnderstoodHolds == Spec => []RequestUnderstood
<1>1. BaseInv => RequestUnderstood
  <2>1. SUFFICES ASSUME BaseInv, NEW m \in requests
                 PROVE  LET op == m.request.op
                        IN  /\ \A o \in Ops : HasType(m, o) <=> o = op
                            /\ IF Len(RequestBytes(m)) <= ServerBuffer
                               THEN /\ <<op, m>> \in Routed
                                    /\ UnmarshalRequest(op, Data(m)) = m.request
                               ELSE <<op, m>> \notin Routed
    BY Zenon DEF RequestUnderstood
  <2>2. m \in Packets
    BY <2>1 DEF BaseInv, TypeOK
  <2>3. m.request.op \in Ops /\ (\A o \in Ops : HasType(m, o) <=> o = m.request.op)
    BY <2>2, PacketUnderstood
  <2>. QED  BY <2>2, <2>3, PacketRouted
<1>. QED  BY <1>1, BaseInvHolds, PTL

\* The client takes a reply to its request for what the service answered, and
\* throws if its buffer cut the reply off (UnmarshalResponse).
THEOREM ReplyUnderstoodHolds == Spec => []ReplyUnderstood
<1>1. BaseInv => ReplyUnderstood
  <2>1. SUFFICES ASSUME BaseInv, NEW d \in inbox, d.op \in Ops
                 PROVE  LET bytes == ReplyBytes(d)
                        IN  UnmarshalResponse(d.op, Cut(bytes, ClientBuffer)) =
                              IF Len(bytes) <= ClientBuffer THEN d.response ELSE Thrown
    BY Zenon DEF ReplyUnderstood
  <2>2. d.response \in Responses(d.op)
    <3>1. d \in Replies \cup Notifications
      BY <2>1 DEF BaseInv, TypeOK
    <3>. QED  BY <2>1, <3>1, InInbox
  <2>3. ReplyBytes(d) = MarshalResponse(d.response)
    <3>1. d.op # "UPDATE"
      BY <2>1 DEF Ops, MessageType
    <3>. QED  BY <3>1, Zenon DEF ReplyBytes
  <2>. QED  BY <2>1, <2>2, <2>3, ReplyIsUnderstood
<1>. QED  BY <1>1, BaseInvHolds, PTL

\* The handlers slice past the receive buffer for a WRITE or REPLACE with a
\* pathname that fills it, and for no other request of the shipped client.
THEOREM OnlyLongPathPanicsHolds == Spec => []OnlyLongPathPanics
<1>1. BaseInv => OnlyLongPathPanics
  <2>1. SUFFICES ASSUME BaseInv, NEW m \in requests
                 PROVE  m \in Panicking <=>
                          /\ HasContent(m.request.op)
                          /\ 17 + Len(m.request.pathname) > ServerBuffer
    BY Zenon DEF OnlyLongPathPanics
  <2>2. m \in Packets
    BY <2>1 DEF BaseInv, TypeOK
  <2>3. m.request.op \in Ops
    BY <2>2, PacketUnderstood
  <2>. QED  BY <2>2, <2>3, PacketRouted
<1>. QED  BY <1>1, BaseInvHolds, PTL

\* An open window is younger than twice the interval, for every interval and any
\* number of notifications (client_udp.cpp, the window's loop).
THEOREM WindowBoundedHolds == Spec => []WindowBounded
<1>1. BaseInv => WindowBounded
  <2>1. SUFFICES ASSUME BaseInv, state = "listening"
                 PROVE  elapsed < 2 * request.monitorIntervalSeconds
    BY DEF WindowBounded
  <2>2. request.monitorIntervalSeconds \in Nat /\ elapsed \in Nat /\ idle \in Nat
    BY <2>1, CurrentRequest DEF BaseInv, TypeOK
  <2>. QED  BY <2>1, <2>2 DEF BaseInv, Windows
<1>. QED  BY <1>1, BaseInvHolds, PTL

\* A reply to the request, if it fits the client's buffer, never makes the
\* unmarshalling throw: only another datagram does.
THEOREM OnlyStrangersKillHolds == Spec => OnlyStrangersKill
<1>1. ASSUME BaseInv, NEW d \in inbox, Receive(d), state' = "died"
      PROVE  d.call # calls \/ Len(ReplyBytes(d)) > ClientBuffer
  <2>1. SUFFICES ASSUME d.call = calls
                 PROVE  Len(ReplyBytes(d)) > ClientBuffer
    OBVIOUS
  <2>2. state = "waiting" /\ state' = NextState(Understood(d))
    BY <1>1 DEF Receive
  <2>3. request.op \in Ops /\ calls > 0
    BY <1>1, <2>2, CurrentRequest DEF BaseInv
  <2>4. d.op = request.op
    BY <1>1, <2>1, <2>3 DEF BaseInv, Matched, Belongs
  <2>5. d.response \in Responses(d.op)
    <3>1. d \in Replies \cup Notifications
      BY <1>1 DEF BaseInv, TypeOK
    <3>. QED  BY <2>3, <2>4, <3>1, InInbox
  <2>6. ReplyBytes(d) = MarshalResponse(d.response)
    <3>1. d.op # "UPDATE"
      BY <2>3, <2>4 DEF Ops, MessageType
    <3>. QED  BY <3>1, Zenon DEF ReplyBytes
  <2>7. Understood(d) = Thrown
    <3>1. Understood(d).result \in {"thrown", "error", "content", "time", "done"}
      BY <2>3, UnmarshalledTo DEF Understood
    <3>. QED  BY <1>1, <2>2, <3>1, NextStates
  <2>8. /\ Understood(d) =
             IF Len(ReplyBytes(d)) <= ClientBuffer THEN d.response ELSE Thrown
        /\ d.response # Thrown
    BY <2>3, <2>4, <2>5, <2>6, ReplyIsUnderstood DEF Understood
  <2>9. ~(Len(ReplyBytes(d)) <= ClientBuffer)
    BY <2>7, <2>8, Zenon
  <2>10. Len(ReplyBytes(d)) \in Nat
    <3>1. d.response \in WireResponses(d.op)
      BY <2>3, <2>4, <2>5, ResponsesAreWire
    <3>. QED  BY <2>3, <2>4, <2>6, <3>1, ResponseRoundTrip, LenProperties
  <2>. QED  BY <2>9, <2>10, ClientAssumption
<1>2. BaseInv =>
        \A d \in inbox :
          Receive(d) /\ state' = "died" =>
            d.call # calls \/ Len(ReplyBytes(d)) > ClientBuffer
  BY <1>1, Zenon
<1>. QED  BY <1>2, BaseInvHolds, PTL DEF OnlyStrangersKill

\* With the window the subscription ends, unless a timeout was premature or
\* another datagram opened the window: nothing the server sends for it then is
\* left for the retry loop of the next request.
THEOREM SilentAfterWindowHolds == Spec => SilentAfterWindow
<1>1. ASSUME BaseInv, Single, [Next]_vars,
             state = "listening", state' = "menu", early = 0, ~strange
      PROVE  left[calls] = 0
  <2>1. EndIteration /\ inbox' \subseteq inbox
    <3>1. CASE ListenTimeout
      BY <3>1 DEF ListenTimeout
    <3>2. CASE \E d \in inbox : Show(d)
      BY <3>2 DEF Show
    <3>3. CASE Next /\ ~ListenTimeout /\ ~(\E d \in inbox : Show(d))
      BY <1>1, <3>3
      DEF Next, ChooseRead, ChooseWrite, ChooseMonitor, ChooseReplace, ChooseDelete,
          ChooseEnd, AskContent, ShowCached, Timeout, Receive, Handle, Panic, Refuse,
          Serve, Notify, Lose, Tick, clientVars
    <3>4. CASE UNCHANGED vars
      BY <1>1, <3>4 DEF vars, clientVars
    <3>. QED  BY <1>1, <3>1, <3>2, <3>3, <3>4
  <2>2. elapsed >= request.monitorIntervalSeconds
    BY <1>1, <2>1, ListenKeeps
  <2>3. left[calls] = 0 \/ elapsed + left[calls] <= request.monitorIntervalSeconds
    BY <1>1, Zenon DEF Single, EndsInTime
  <2>4. /\ elapsed \in Nat /\ request.monitorIntervalSeconds \in Nat
        /\ left[calls] \in Nat
    BY <1>1, CurrentRequest, CallsInRange DEF BaseInv, TypeOK
  <2>. QED  BY <2>2, <2>3, <2>4
<1>2. BaseInv /\ Single /\ [Next]_vars =>
        (state = "listening" /\ state' = "menu" /\ early = 0 /\ ~strange
           => left[calls] = 0)
  BY <1>1, Zenon
<1>. QED  BY <1>2, BaseInvHolds, SingleHolds, PTL DEF Spec, SilentAfterWindow

=============================================================================
