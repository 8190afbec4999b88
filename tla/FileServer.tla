---------------------------- MODULE FileServer ----------------------------
(***************************************************************************)
(* The server's file requests, on its disk: the packet loop takes one      *)
(* request at a time, reads the file, writes the new content with          *)
(* os.WriteFile (which truncates the file first) and notifies the          *)
(* subscribers.  The process can end at any point: a panic (nothing        *)
(* recovers it), or a signal.                                              *)
(***************************************************************************)
EXTENDS FileOps

CONSTANTS
  Paths,         \* pathnames requests are for
  Files,         \* those that name a file of the disk
  Bytes,         \* the bytes clients write
  Inputs,        \* offsets and byte counts the client lets a user enter
  MaxContent,    \* bound: bytes in one request
  MaxLen,        \* bound: bytes in a file
  WriteMayFail,  \* may os.WriteFile return an error
  MayCrash       \* may the process be killed

\* A count of the client is an int that is not negative: two do not overflow.
ASSUME FileServerAssumption ==
  /\ Files \subseteq Paths
  /\ Inputs \subseteq {k \in Nat : k + k < WordSize}
  /\ MaxContent \in Nat /\ MaxLen \in Nat /\ MaxLen + MaxContent < WordSize
  /\ WriteMayFail \in BOOLEAN /\ MayCrash \in BOOLEAN

VARIABLES
  disk,       \* disk[p]: the content of file p
  up,         \* the server process runs
  stage,      \* where the handler of an update is: "idle" when none is
  request,    \* the request handled now or last
  buf,        \* the content the handler writes out
  reply,      \* the response to the last request: "none", "ok" or "failed"
  before,     \* history: the file's content when the request came
  notified    \* history: what the request's subscribers were sent

vars == <<disk, up, stage, request, buf, reply, before, notified>>

UpTo(S, n) == UNION {[1..k -> S] : k \in 0..n}
Contents == UpTo(Bytes, MaxLen)
Payloads == UpTo(Bytes, MaxContent)

Requests ==
  [op : {"READ", "DELETE"}, path : Paths, offset : Inputs, numBytes : Inputs]
    \cup
  [op : {"WRITE", "REPLACE"}, path : Paths, offset : Inputs, content : Payloads]

NoRequest == [op |-> "NONE"]

TypeOK ==
  /\ disk \in [Files -> Contents]
  /\ up \in BOOLEAN
  /\ stage \in {"idle", "open", "write", "notify"}
  /\ request \in Requests \cup {NoRequest}
  /\ buf \in Contents
  /\ reply \in {"none", "ok", "failed"}
  /\ before \in Contents
  /\ notified \in SUBSET Contents
  /\ stage # "idle" => request # NoRequest /\ request.path \in Files

Init ==
  /\ disk = [p \in Files |-> <<>>]
  /\ up = TRUE
  /\ stage = "idle"
  /\ request = NoRequest
  /\ buf = <<>>
  /\ reply = "none"
  /\ before = <<>>
  /\ notified = {}

-----------------------------------------------------------------------------
Listening == up /\ stage = "idle"

Respond(r) == stage' = "idle" /\ reply' = r

\* A handler begins.
Handle(r) ==
  /\ Listening
  /\ request' = r
  /\ notified' = {}

\* os.ReadFile fails.
NoSuchFile(r) ==
  /\ Handle(r)
  /\ r.path \notin Files
  /\ before' = <<>> /\ buf' = <<>>
  /\ Respond("failed")
  /\ UNCHANGED <<disk, up>>

\* The file is read; what happens then depends on its content.
Serve(r) ==
  /\ Handle(r)
  /\ r.path \in Files
  /\ before' = disk[r.path]

\* A sanity check answers.
Refuse(r) ==
  /\ Serve(r)
  /\ Fails(r, disk[r.path])
  /\ buf' = <<>>
  /\ Respond("failed")
  /\ UNCHANGED <<disk, up>>

\* A slice expression panics; no handler recovers, so the process ends.
Panic(r) ==
  /\ Serve(r)
  /\ Panics(r, disk[r.path])
  /\ up' = FALSE
  /\ buf' = <<>>
  /\ Respond("none")
  /\ UNCHANGED disk

Read(r) ==
  /\ Serve(r)
  /\ r.op = "READ"
  /\ ~Fails(r, disk[r.path]) /\ ~Panics(r, disk[r.path])
  /\ buf' = <<>>
  /\ Respond("ok")
  /\ UNCHANGED <<disk, up>>

\* WRITE, REPLACE or DELETE makes the new content.
Prepare(r) ==
  /\ Serve(r)
  /\ r.op # "READ"
  /\ ~Fails(r, disk[r.path]) /\ ~Panics(r, disk[r.path])
  /\ Len(Updated(r, disk[r.path])) <= MaxLen
  /\ buf' = Updated(r, disk[r.path])
  /\ stage' = "open"
  /\ reply' = "none"
  /\ UNCHANGED <<disk, up>>

NotTruncated(p) == disk[p]

\* What is in a file when os.WriteFile has opened it, with O_TRUNC.
Opened(p) == <<>>

\* What is in it when the first k bytes of buf are written from its start on.
Written(p, k) == SubSeq(buf, 1, k) \o After(disk[p], k)

OpenFile ==
  /\ up /\ stage = "open"
  /\ disk' = [disk EXCEPT ![request.path] = Opened(request.path)]
  /\ stage' = "write"
  /\ UNCHANGED <<up, request, buf, reply, before, notified>>

OpenFails ==
  /\ WriteMayFail
  /\ up /\ stage = "open"
  /\ Respond("failed")
  /\ UNCHANGED <<disk, up, request, buf, before, notified>>

WriteFile ==
  /\ up /\ stage = "write"
  /\ disk' = [disk EXCEPT ![request.path] = Written(request.path, Len(buf))]
  /\ stage' = "notify"
  /\ UNCHANGED <<up, request, buf, reply, before, notified>>

WriteFailsUnnoticed ==
  /\ WriteMayFail
  /\ up /\ stage = "write"
  /\ \E k \in 0..Len(buf) :
       disk' = [disk EXCEPT ![request.path] = Written(request.path, k)]
  /\ stage' = "notify"
  /\ UNCHANGED <<up, request, buf, reply, before, notified>>

\* Only a part is written, and os.WriteFile returns an error.
WriteFails ==
  /\ WriteMayFail
  /\ up /\ stage = "write"
  /\ \E k \in 0..Len(buf) :
       /\ k < Len(buf)
       /\ disk' = [disk EXCEPT ![request.path] = Written(request.path, k)]
  /\ Respond("failed")
  /\ UNCHANGED <<up, request, buf, before, notified>>

ContentRead == before

\* What HandleNotification is called with.
Update == buf

\* HandleNotification, then the successful response.
HandleNotification ==
  /\ up /\ stage = "notify"
  /\ notified' = {Update}
  /\ Respond("ok")
  /\ UNCHANGED <<disk, up, request, buf, before>>

\* The process is killed: what it was doing is lost.
Crash ==
  /\ MayCrash
  /\ up
  /\ up' = FALSE
  /\ stage' = "idle"
  /\ UNCHANGED <<disk, request, buf, reply, before, notified>>

Restart ==
  /\ ~up
  /\ up' = TRUE
  /\ UNCHANGED <<disk, stage, request, buf, reply, before, notified>>

-----------------------------------------------------------------------------
Next ==
  \/ \E r \in Requests :
       NoSuchFile(r) \/ Refuse(r) \/ Panic(r) \/ Read(r) \/ Prepare(r)
  \/ OpenFile \/ OpenFails \/ WriteFile \/ WriteFails \/ HandleNotification
  \/ Crash \/ Restart

Spec == Init /\ [][Next]_vars

-----------------------------------------------------------------------------
(***************************************************************************)
(* Properties.                                                             *)
(***************************************************************************)

Done(op) == request.op = op /\ reply = "ok"

\* The buffers and copies of the services put the content where it is meant to
\* go and leave every other byte of the file in its place.
UpdateIsMeant ==
  \A op \in {"WRITE", "REPLACE", "DELETE"} :
    Done(op) => disk[request.path] = Meant(request, before)

\* When a handler is through, subscribers have been sent what the file contains
\* if it was a successful update, and nothing if it was not: they never hear of
\* a content that is not on disk.
NotifiedIsOnDisk ==
  stage = "idle" =>
    notified = IF \E op \in {"WRITE", "REPLACE", "DELETE"} : Done(op)
               THEN {disk[request.path]}
               ELSE {}

\* Repeating a REPLACE, as at-least-once semantics may, changes nothing more.
ReplaceMayRepeat ==
  Done("REPLACE") =>
    LET f == disk[request.path]
    IN  ~Fails(request, f) /\ ~Panics(request, f) /\ Updated(request, f) = f

\* A DELETE of the bytes a WRITE put in gives the content there was before.
DeleteUndoesWrite ==
  Done("WRITE") =>
    LET f == disk[request.path]
        undo == [op |-> "DELETE", path |-> request.path,
                 offset |-> request.offset, numBytes |-> Len(request.content)]
    IN  ~Fails(undo, f) /\ ~Panics(undo, f) /\ Updated(undo, f) = before

\* No service panics, whatever the shipped client asks for, except that of a
\* REPLACE that runs over the end of the file, which it leaves alone.
OnlyOverrunPanics ==
  [][request' # NoRequest /\ Panic(request') =>
       /\ request'.op = "REPLACE"
       /\ request'.offset + Len(request'.content) > Len(disk[request'.path])
     ]_vars

\* When the process is killed, or a write fails, in the middle of an update the
\* file holds the old content or a part, from the start, of the new one.
TornIsPrefix ==
  stage = "idle" /\ request.op \in {"WRITE", "REPLACE", "DELETE"}
                 /\ request.path \in Files =>
    LET f == disk[request.path]
    IN  \/ f = before
        \/ Len(f) <= Len(buf) /\ f = SubSeq(buf, 1, Len(f))

\* What the next request would find in file p: nothing is served while an update
\* is under way, so until its handler is through the update has not happened.
Found(p) == IF stage # "idle" /\ p = request.path THEN before ELSE disk[p]

\* Requests, buffers, the stages of a write, its failures and crashes implement
\* module FileStore: whatever is seen of an update, by requests and subscribers,
\* is all of it at once, or a part that is announced to no one.
Store == INSTANCE FileStore WITH
  files <- [p \in Files |-> Found(p)],
  announced <- notified,
  Places <- Inputs,
  MayBreak <- WriteMayFail \/ MayCrash
ImplementsFileStore == Store!Spec

\* The packet loop goes on.
AlwaysUp == up

=============================================================================
