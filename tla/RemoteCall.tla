----------------------------- MODULE RemoteCall -----------------------------
(***************************************************************************)
(* What a remote invocation promises to the person at a client: a call is  *)
(* made, the server executes its operation, and only then does the call    *)
(* return.  With at-most-once semantics (Repeatable = FALSE) the operation *)
(* is executed exactly once per returned call; with at-least-once          *)
(* semantics it may be executed again while the call is outstanding.       *)
(* There is no network here: Invocation is shown to implement this module. *)
(***************************************************************************)
EXTENDS Naturals

CONSTANTS
  Clients,      \* the client processes
  MaxCalls,     \* bound: calls one client makes
  Repeatable    \* may an outstanding call be executed again?

VARIABLES
  calls,        \* calls[c]: calls client c has made
  waiting,      \* waiting[c]: the last of them has not returned
  executed      \* executed[x]: 0, 1 or 2 ("more than once") executions of x

vars == <<calls, waiting, executed>>

Calls == Clients \X (1..MaxCalls)

Current(c) == <<c, calls[c]>>

\* Execution counts above one are not told apart.
Again(n) == IF n = 2 THEN 2 ELSE n + 1

Init ==
  /\ calls = [c \in Clients |-> 0]
  /\ waiting = [c \in Clients |-> FALSE]
  /\ executed = [x \in Calls |-> 0]

Call(c) ==
  /\ ~waiting[c]
  /\ calls[c] < MaxCalls
  /\ calls' = [calls EXCEPT ![c] = @ + 1]
  /\ waiting' = [waiting EXCEPT ![c] = TRUE]
  /\ UNCHANGED executed

Execute(c) ==
  /\ waiting[c]
  /\ executed[Current(c)] = 0 \/ Repeatable
  /\ executed' = [executed EXCEPT ![Current(c)] = Again(@)]
  /\ UNCHANGED <<calls, waiting>>

Return(c) ==
  /\ waiting[c]
  /\ executed[Current(c)] > 0
  /\ waiting' = [waiting EXCEPT ![c] = FALSE]
  /\ UNCHANGED <<calls, executed>>

Next == \E c \in Clients : Call(c) \/ Execute(c) \/ Return(c)

Spec == Init /\ [][Next]_vars

=============================================================================
