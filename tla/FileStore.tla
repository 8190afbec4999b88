----------------------------- MODULE FileStore -----------------------------
(***************************************************************************)
(* What the file services promise to clients and subscribers: a file       *)
(* changes by one insertion, replacement or deletion at a time, all at     *)
(* once and together with its announcement; or, when something breaks, it  *)
(* is cut short and nothing is announced.  No other file changes.  There   *)
(* are no requests, checks, buffers, or stages of a write here: FileServer *)
(* is shown to implement this module.                                      *)
(***************************************************************************)
EXTENDS Naturals, Sequences

CONSTANTS
  Files,        \* the files there are
  Places,       \* offsets and byte counts that can be asked for
  Payloads,     \* contents that can be put in
  MayBreak      \* may an update break off

VARIABLES
  files,        \* files[p]: what a request for file p finds
  announced     \* the contents announced since the last request came

vars == <<files, announced>>

Init ==
  /\ files = [p \in Files |-> <<>>]
  /\ announced = {}

\* A request comes.
Attend ==
  /\ announced' = {}
  /\ UNCHANGED files

\* f with its n bytes from offset o on replaced by c.
Splice(f, o, n, c) == SubSeq(f, 1, o) \o c \o SubSeq(f, o + n + 1, Len(f))

\* An update of p is to leave g in it.
Ends(p, g) ==
  \/ /\ files' = [files EXCEPT ![p] = g]
     /\ announced' = {g}
  \/ /\ MayBreak
     /\ \E k \in 0..Len(g) : files' = [files EXCEPT ![p] = SubSeq(g, 1, k)]
     /\ announced = {} /\ announced' = {}

Insert(p) ==
  \E o \in Places, c \in Payloads :
    /\ o <= Len(files[p])
    /\ Ends(p, Splice(files[p], o, 0, c))

Replace(p) ==
  \E o \in Places, c \in Payloads :
    /\ o + Len(c) <= Len(files[p])
    /\ Ends(p, Splice(files[p], o, Len(c), c))

Delete(p) ==
  \E o \in Places, n \in Places :
    /\ o + n <= Len(files[p])
    /\ Ends(p, Splice(files[p], o, n, <<>>))

Next ==
  \/ Attend
  \/ \E p \in Files : Insert(p) \/ Replace(p) \/ Delete(p)

Spec == Init /\ [][Next]_vars

=============================================================================
