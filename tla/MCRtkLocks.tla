----------------------------- MODULE MCRtkLocks -----------------------------
(***************************************************************************)
(* Instances of RtkLocks for TLC: what the application does in callbacks.  *)
(***************************************************************************)
EXTENDS RtkLocks, TLC

CONSTANTS app, gps, sixents

\* API.md 7.1 allows all calls but stop and deinit.  The RTCM callback is the
\* GPS worker's, as in the bundled program.
ReentryApi ==
    [k \in Callbacks |->
        CASE k = "log"      -> {}
          [] k = "status"   -> {"get_state", "set_callback"}
          [] k = "error"    -> {"input_gga", "disable", "enable"}
          [] k = "rtcm"     -> {"gps_rtcm"}
          [] k = "position" -> {"get_position", "input_gga"}]

\* What the proofs ask of callbacks is true of these.
ASSUME ReentryAssumption == Reentry = ReentryApi => ReentrySafe
=============================================================================
