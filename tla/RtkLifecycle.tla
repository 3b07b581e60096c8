---------------------------- MODULE RtkLifecycle ----------------------------
(***************************************************************************)
(* What the lifecycle API of rtk_sdk promises to an application, without   *)
(* threads, locks or the reconnect loop: rtk_sdk_init/deinit bracket       *)
(* everything, rtk_sdk_start/stop bracket the time in which a Sixents      *)
(* session can exist, and rtk_sdk_stop returns only when no session is     *)
(* left.  RtkCore is shown to implement this module (RtkCoreOwned!Abs).    *)
(***************************************************************************)
VARIABLES
    phase,      \* where the application is in init -> start -> stop -> deinit
    session     \* TRUE while the Sixents library holds an open session

vars == <<phase, session>>

TypeOK == /\ phase \in {"idle", "ready", "active", "stopping"}
          /\ session \in BOOLEAN

Init == phase = "idle" /\ session = FALSE

Move(from, to) == phase = from /\ phase' = to /\ UNCHANGED session

Initialize == Move("idle", "ready")
Start      == Move("ready", "active")
StopBegin  == Move("active", "stopping")
StopEnd    == session = FALSE /\ Move("stopping", "ready")
Deinit     == Move("ready", "idle")

\* A session may still be opened after stop was requested: the thread that
\* opens it learns of the request only when it next looks.
SessionOpen  == /\ phase \in {"active", "stopping"} /\ ~session
                /\ session' = TRUE  /\ UNCHANGED phase
SessionClose == /\ phase \in {"active", "stopping"} /\ session
                /\ session' = FALSE /\ UNCHANGED phase

Next == \/ Initialize \/ Start \/ StopBegin \/ StopEnd \/ Deinit
        \/ SessionOpen \/ SessionClose

\* A stop that was requested ends: its session is closed and it returns.
Fairness == /\ WF_vars(phase = "stopping" /\ SessionClose)
            /\ SF_vars(StopEnd)

Safety == Init /\ [][Next]_vars
Spec == Safety /\ Fairness
=============================================================================
