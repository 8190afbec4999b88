-------------------------------- MODULE Wire --------------------------------
(***************************************************************************)
(* The bytes of requests and responses: how the client marshals a request  *)
(* and the server validates and unmarshals it (client/messages/*.cpp,      *)
(* server/apis/*/messages/request.go), and the way back (response.go, and  *)
(* again client/messages/*.cpp).                                           *)
(*                                                                         *)
(* A byte vector is a sequence of numbers below 256.  A string is the      *)
(* sequence of its bytes, a modification time that of its eight.  What a   *)
(* service answers and what the client makes of it are records with a      *)
(* field "result".                                                         *)
(***************************************************************************)
EXTENDS Naturals, Sequences

Byte == 0..255

\* What the client marshals as a uint32: an int that is not negative.
Count == {n \in Nat : n <= 2147483647}

MessageType == [READ |-> 1, WRITE |-> 2, SUBSCRIBE |-> 4, REPLACE |-> 8,
                DELETE |-> 16, GET_LAST_MODIFIED_TIME |-> 32]

Ops == DOMAIN MessageType

\* htonl and memcpy: most significant byte first.
Uint32(n) ==
  <<n \div 16777216, (n \div 65536) % 256, (n \div 256) % 256, n % 256>>

\* A string with its length before it.
Str(s) == Uint32(Len(s)) \o s

\* b[from:to], counted from 0 as in the code.
Slice(b, from, to) == SubSeq(b, from + 1, to)

\* The uint32 at b[at:at+4].
Number(b, at) ==
  16777216 * b[at + 1] + 65536 * b[at + 2] + 256 * b[at + 3] + b[at + 4]

\* What a receive buffer of n bytes keeps of a datagram.
Cut(b, n) == IF Len(b) <= n THEN b ELSE Slice(b, 0, n)

-----------------------------------------------------------------------------
(***************************************************************************)
(* The client marshals a request.                                          *)
(***************************************************************************)
Header(op, id) == <<MessageType[op]>> \o Uint32(id)

marshalReadRequest(id, r) ==
  Header("READ", id) \o Str(r.pathname) \o Uint32(r.offset) \o Uint32(r.numBytes)

marshalWriteRequest(id, r) ==
  Header("WRITE", id) \o Str(r.pathname) \o Uint32(r.offset) \o Str(r.content)

marshalReplaceRequest(id, r) ==
  Header("REPLACE", id) \o Str(r.pathname) \o Uint32(r.offset) \o Str(r.content)

marshalDeleteRequest(id, r) ==
  Header("DELETE", id) \o Str(r.pathname) \o Uint32(r.offset) \o Uint32(r.numBytes)

marshalSubscribeRequest(id, r) ==
  Header("SUBSCRIBE", id) \o Str(r.pathname) \o Uint32(r.monitorIntervalSeconds)

marshalGetLastModifiedTimeRequest(id, r) ==
  Header("GET_LAST_MODIFIED_TIME", id) \o Str(r.pathname)

MarshalRequest(id, r) ==
  CASE r.op = "READ"      -> marshalReadRequest(id, r)
    [] r.op = "WRITE"     -> marshalWriteRequest(id, r)
    [] r.op = "REPLACE"   -> marshalReplaceRequest(id, r)
    [] r.op = "DELETE"    -> marshalDeleteRequest(id, r)
    [] r.op = "SUBSCRIBE" -> marshalSubscribeRequest(id, r)
    [] r.op = "GET_LAST_MODIFIED_TIME" -> marshalGetLastModifiedTimeRequest(id, r)

-----------------------------------------------------------------------------
(***************************************************************************)
(* The server takes it apart: data is what follows the header.             *)
(***************************************************************************)
HasContent(op) == op \in {"WRITE", "REPLACE"}

\* The uint32s in the data of a request.
Words(op) ==
  IF op = "GET_LAST_MODIFIED_TIME" THEN 1 ELSE IF op = "SUBSCRIBE" THEN 2 ELSE 3

PathnameLen(data) == Number(data, 0)

ContentLen(op, data) ==
  IF HasContent(op) THEN Number(data, 8 + PathnameLen(data)) ELSE 0

SlicedByAll(op, data, room) ==
  Len(data) >= 12 /\ 12 + PathnameLen(data) > room

\* The content's length is read where the pathname is said to end.  A slice may
\* reach past the data as far as the receive buffer has room, and not further.
SliceTooFar(op, data, room) ==
  HasContent(op) /\ Len(data) >= 12 /\ 12 + PathnameLen(data) > room

LengthUnchecked(op, data) ==
  /\ Len(data) >= 4 * Words(op)
  /\ Len(data) >= 4 * Words(op) + PathnameLen(data)

\* When the fields before the content end past the data, so does the sum below,
\* whatever the content's length.
validateMarshalledRequest(op, data) ==
  /\ Len(data) >= 4 * Words(op)
  /\ Len(data) >= 4 * Words(op) + PathnameLen(data)
  /\ Len(data) = 4 * Words(op) + PathnameLen(data) + ContentLen(op, data)

\* The identifier RouteRequest looks up among the stored responses.
getMessageId(req) == Number(req, 1)

UnmarshalRequest(op, data) ==
  LET end == 4 + PathnameLen(data)
      pathname == Slice(data, 4, end)
  IN  CASE op \in {"READ", "DELETE"} ->
             [op |-> op, pathname |-> pathname, offset |-> Number(data, end),
              numBytes |-> Number(data, end + 4)]
        [] HasContent(op) ->
             [op |-> op, pathname |-> pathname, offset |-> Number(data, end),
              content |-> Slice(data, end + 8, Len(data))]
        [] op = "SUBSCRIBE" ->
             [op |-> op, pathname |-> pathname,
              monitorIntervalSeconds |-> Number(data, end)]
        [] op = "GET_LAST_MODIFIED_TIME" -> [op |-> op, pathname |-> pathname]

-----------------------------------------------------------------------------
(***************************************************************************)
(* The server marshals a response.                                         *)
(***************************************************************************)
Done == [result |-> "done"]

LengthForgotten(res) ==
  CASE res.result = "done"    -> <<1>>
    [] res.result = "content" -> <<1>> \o Str(res.content)
    [] res.result = "time"    -> <<1>> \o res.time
    [] res.result = "error"   -> <<0>> \o res.message

\* The success flag and what goes with it.
MarshalResponse(res) ==
  CASE res.result = "done"    -> <<1>>
    [] res.result = "content" -> <<1>> \o Str(res.content)
    [] res.result = "time"    -> <<1>> \o res.time
    [] res.result = "error"   -> <<0>> \o Str(res.message)

-----------------------------------------------------------------------------
(***************************************************************************)
(* The client takes it apart, or throws.                                   *)
(***************************************************************************)
Thrown == [result |-> "thrown"]

\* Any flag but 1 is a failure.
Failed(res) == res[1] # 1

\* A flag, a length, and a string of that length.  (A shorter vector is read
\* past its end for the length, and is refused whatever is found there.)
HasString(res) == Len(res) >= 5 /\ Len(res) = 5 + Number(res, 1)

String(res) == Slice(res, 5, Len(res))

Error(message) == [result |-> "error", message |-> message]

\* Success alone, or a failure with its message.
Outcome(res) ==
  CASE res = <<1>>                       -> Done
    [] HasString(res) /\ Failed(res)     -> Error(String(res))
    [] OTHER                             -> Thrown

unmarshalWriteResponse(res) == Outcome(res)
unmarshalReplaceResponse(res) == Outcome(res)
unmarshalDeleteResponse(res) == Outcome(res)
unmarshalSubscribeResponse(res) == Outcome(res)

LengthTrusted(res) ==
  IF Len(res) < 5 THEN Thrown
  ELSE IF Failed(res) THEN Error(String(res))
  ELSE [result |-> "content", content |-> String(res)]

unmarshalReadResponse(res) ==
  IF ~HasString(res) THEN Thrown
  ELSE IF Failed(res) THEN Error(String(res))
  ELSE [result |-> "content", content |-> String(res)]

unmarshalGetLastModifiedTimeResponse(res) ==
  CASE Len(res) = 9 /\ ~Failed(res)      -> [result |-> "time", time |-> Slice(res, 1, 9)]
    [] HasString(res) /\ Failed(res)     -> Error(String(res))
    [] OTHER                             -> Thrown

\* What the retry loop of a request of type op passes its datagram to.
UnmarshalResponse(op, res) ==
  CASE op = "READ"      -> unmarshalReadResponse(res)
    [] op = "WRITE"     -> unmarshalWriteResponse(res)
    [] op = "REPLACE"   -> unmarshalReplaceResponse(res)
    [] op = "DELETE"    -> unmarshalDeleteResponse(res)
    [] op = "SUBSCRIBE" -> unmarshalSubscribeResponse(res)
    [] op = "GET_LAST_MODIFIED_TIME" -> unmarshalGetLastModifiedTimeResponse(res)

=============================================================================
