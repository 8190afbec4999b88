------------------------------ MODULE MCClient ------------------------------
(***************************************************************************)
(* Instances of Client for TLC.  Buffers are scaled down with the strings  *)
(* that are to fill them.                                                  *)
(***************************************************************************)
EXTENDS Client, TLC

\* n bytes from a on.
Run(a, n) == [i \in 1..n |-> a + i]

\* A server of 24 bytes handles a WRITE to the first, and not to the second;
\* as a content, the second does not fit.
MCTexts == {<<97>>, Run(97, 8)}

\* A byte, more than a client of 12 bytes receives, more than is sent.
MCContents == {<<1>>, Run(0, 9), Run(0, 12)}

MCTimes == {Run(0, 8)}

MCInvalidRequest == <<105>>

MCMessages == {MCInvalidRequest}

\* What a client of 12 bytes always receives whole.
ShortTexts == {<<97>>}

ShortContents == {<< >>, <<1>>}

=============================================================================
