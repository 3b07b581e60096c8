------------------------------ MODULE MCRtkCore ------------------------------
(***************************************************************************)
(* Instances of RtkCoreOwned for TLC.                                      *)
(***************************************************************************)
EXTENDS RtkCoreOwned

CONSTANTS c1

\* One thread does everything, as rtk_main.c does.
MayCallSingle == [c \in Callers |-> API]
=============================================================================
