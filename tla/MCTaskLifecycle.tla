-------------------------- MODULE MCTaskLifecycle --------------------------
(***************************************************************************)
(* Instances of TaskLifecycle for TLC.                                     *)
(***************************************************************************)
EXTENDS TaskLifecycle, TLC

CONSTANTS a, b, c

\* One share each: shares 0, 1, 2 of a, b, c.
OwnerABC == (0 :> a) @@ (1 :> b) @@ (2 :> c)

\* Two devices, the second with two shares.
OwnerABB == (0 :> a) @@ (1 :> b) @@ (2 :> b)

\* Three devices, four shares.
OwnerABBC == (0 :> a) @@ (1 :> b) @@ (2 :> b) @@ (3 :> c)
=============================================================================
