---------------------------- MODULE MCInvocation ----------------------------
(***************************************************************************)
(* Instances of Invocation for TLC.                                        *)
(***************************************************************************)
EXTENDS Invocation, TLC

\* Clients are interchangeable: each starts counting its requests from 0.
ClientSymmetry == Permutations(Clients)

=============================================================================
