--------------------------- MODULE MCRtkCoreRaces ---------------------------
(***************************************************************************)
(* Instances of RtkCore for TLC in which several threads make lifecycle    *)
(* calls, as doc/API.md:446 says they may.                                 *)
(***************************************************************************)
EXTENDS RtkCore, TLC

CONSTANTS c1, c2, w1, w2

\* c1 runs the service, c2 stops it.
MayCallStopper == c1 :> {"init", "start", "deinit"} @@ c2 :> {"stop"}

\* Both do everything, but for the broadcast.
MayCallAnything == [c \in Callers |-> API \ {"broadcast"}]

\* The thread identities are interchangeable.
WorkerSymmetry == Permutations({w1, w2})
=============================================================================
