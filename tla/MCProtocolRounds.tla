-------------------------- MODULE MCProtocolRounds --------------------------
(***************************************************************************)
(* Instances of ProtocolRounds for TLC.  Shares are numbered among all     *)
(* shares of the task, so those of the active ones need not be adjacent.   *)
(***************************************************************************)
EXTENDS ProtocolRounds, TLC

CONSTANTS a, b, c

SharesABBC == (1 :> a) @@ (3 :> b) @@ (4 :> b) @@ (5 :> c)

=============================================================================
