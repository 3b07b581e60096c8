------------------------------ MODULE MCRtkGps ------------------------------
(***************************************************************************)
(* Instances of RtkGps for TLC.                                            *)
(***************************************************************************)
EXTENDS RtkGps, TLC

CONSTANTS main, worker, sixents, app

\* What each thread calls.
MayUseService ==
    [t \in Threads |-> CASE t = Main    -> {"open", "close"}
                         [] t = Worker  -> {"read", "reconnect"}
                         [] t = Sixents -> {"write"}
                         [] t = App     -> {"open", "close"}]
=============================================================================
