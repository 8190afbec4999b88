---------------------------- MODULE RecentReads ----------------------------
(***************************************************************************)
(* What a client that keeps a copy promises its user about the age of what *)
(* it shows.  Other clients update the file.  An exchange with the server  *)
(* ends with a version that was current when it began, or later; for less  *)
(* than the freshness interval after that the client may show that version *)
(* again on its own.  There are no contents, modification times or entries *)
(* here: Cache is shown to implement this module.                          *)
(***************************************************************************)
EXTENDS Naturals

CONSTANTS
  fInterval,     \* the client's freshness interval
  None,          \* nothing shown
  MaxTime,       \* bound: the clock
  MaxVersion     \* bound: versions of the file

VARIABLES
  now,           \* the clock
  version,       \* the file's version at the server
  busy,          \* an exchange with the server is under way
  asked,         \* the version there was when the last exchange began
  valid,         \* since: the version there was when the last exchange that
                 \*   succeeded began; at: the time it ended
  shown          \* what was shown last: its version, and when; or None

vars == <<now, version, busy, asked, valid, shown>>

Init ==
  /\ now = 0
  /\ version = 0
  /\ busy = FALSE
  /\ asked = 0
  /\ valid = [since |-> 0, at |-> 0]
  /\ shown = None

Show(v) == shown' = [version |-> v, at |-> now]

Vouch == valid' = [since |-> asked, at |-> now]

Tick ==
  /\ now < MaxTime
  /\ now' = now + 1
  /\ UNCHANGED <<version, busy, asked, valid, shown>>

Update ==
  /\ version < MaxVersion
  /\ version' = version + 1
  /\ UNCHANGED <<now, busy, asked, valid, shown>>

\* An exchange begins, or one request of it follows another.
Ask ==
  /\ busy' = TRUE
  /\ asked' = version
  /\ UNCHANGED <<now, version, valid, shown>>

\* It ends with an error.
Fail ==
  /\ busy
  /\ busy' = FALSE
  /\ UNCHANGED <<now, version, asked, valid, shown>>

\* It ends with a version that is not older than what was there when it began,
\* nor, therefore, than what was shown before.
Fetch(v) ==
  /\ busy
  /\ v >= asked /\ v <= version
  /\ shown # None => shown.version <= v
  /\ busy' = FALSE
  /\ Vouch
  /\ Show(v)
  /\ UNCHANGED <<now, version, asked>>

\* It ends with the word that what was shown last was still current; the client
\* shows that again, or ends.
Confirm ==
  /\ busy
  /\ shown # None /\ shown.version = asked
  /\ busy' = FALSE
  /\ Vouch
  /\ Show(shown.version) \/ UNCHANGED shown
  /\ UNCHANGED <<now, version, asked>>

\* Without an exchange, what was shown last is shown again.
Recall ==
  /\ ~busy
  /\ shown # None
  /\ shown.version >= valid.since
  /\ now < valid.at + fInterval
  /\ Show(shown.version)
  /\ UNCHANGED <<now, version, busy, asked, valid>>

\* The client is started again.
Forget ==
  /\ ~busy
  /\ shown' = None
  /\ UNCHANGED <<now, version, busy, asked, valid>>

Next ==
  \/ Tick \/ Update
  \/ Ask \/ Fail \/ Confirm
  \/ \E v \in asked..version : Fetch(v)
  \/ Recall \/ Forget

Spec == Init /\ [][Next]_vars

=============================================================================
