---------------------------- MODULE MCRtkService ----------------------------
(***************************************************************************)
(* An instance of RtkService for TLC.                                      *)
(***************************************************************************)
EXTENDS RtkService, TLC

CONSTANTS main, worker, sixents

\* What each thread calls.
MayUseService ==
    [t \in Threads |-> CASE t = Main    -> {"open", "close"}
                         [] t = Worker  -> {"read", "reconnect"}
                         [] t = Sixents -> {"write"}]
=============================================================================
