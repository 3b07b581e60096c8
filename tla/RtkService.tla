----------------------------- MODULE RtkService -----------------------------
(***************************************************************************)
(* src/main/rtk_main.c: the bundled program.  Its main thread brings the   *)
(* configuration, the SDK (phase, as in RtkLifecycle), the UDP broadcast   *)
(* (RtkBroadcast) and the GPS worker (RtkGps) up, waits for a signal or a  *)
(* quit command and takes everything down again, as far as it came.        *)
(*                                                                         *)
(* What the configuration says is chosen where it is used.  The inside of  *)
(* rtk_sdk_start and rtk_sdk_stop is in RtkCore.                           *)
(***************************************************************************)
EXTENDS RtkGps

CONSTANTS
    Addrs, Malformed, NoAddr, Socks, NoSocket,   \* see RtkBroadcast
    Switching   \* TRUE if another part of the program switches the broadcast

VARIABLES
    at,           \* where main is
    g_running,    \* cleared by the signal handler and by the quit command
    phase,        \* of the SDK; its mutexes exist unless it is "idle"
    broadcast_enabled, broadcast_socket, broadcast_addr, checked, open, sent

program == <<at, g_running, phase>>
bvars   == <<broadcast_enabled, broadcast_socket, broadcast_addr, checked, open, sent>>
svars   == <<gvars, program, bvars>>

B == INSTANCE RtkBroadcast WITH Senders <- {Worker, Sixents}

ASSUME ServiceAssumption == Switching \in BOOLEAN /\ B!BroadcastConstants

ServiceInit ==
    /\ GpsInit /\ B!Init
    /\ at = "load"
    /\ g_running = TRUE
    /\ phase = "idle"

Goes(from, to) == at = from /\ at' = to /\ UNCHANGED g_running

-----------------------------------------------------------------------------
(* Up                                                                      *)
\* rtk_config_load fails, or rtk_config_validate does; an out-of-range port
\* or timeout is left as it is.
Load == /\ Goes("load", "init") \/ Goes("load", "exited")
        /\ UNCHANGED <<gvars, bvars, phase>>

\* A validated configuration has what rtk_sdk_init checks.
SdkInit == /\ Goes("init", "enable")
           /\ phase' = "ready"
           /\ B!Reset
           /\ UNCHANGED gvars

\* The program goes on without the broadcast if that fails.
EnableBroadcast == /\ Goes("enable", "start")
                   /\ (\E a \in Addrs : B!Enable(a)) \/ B!EnableMalformed \/ UNCHANGED bvars
                   /\ UNCHANGED <<gvars, phase>>

SdkStart == /\ Goes("start", "gps_start")
            /\ phase' = "active"
            /\ UNCHANGED <<gvars, bvars>>

SdkStartFails == /\ Goes("start", "deinit")
                 /\ UNCHANGED <<gvars, bvars, phase>>

NoGps == /\ mpc = "idle"
         /\ Goes("gps_start", "loop")
         /\ UNCHANGED <<gvars, bvars, phase>>

\* rtk_gps_worker_start; the program goes on without GPS if that fails.
GpsStart == /\ at = "gps_start"
            /\ StartOpen \/ StartRegister \/ StartThread \/ StartThreadFails
            /\ Goes("gps_start", IF mpc' = "idle" THEN "loop" ELSE "gps_start")
            /\ UNCHANGED <<bvars, phase>>

-----------------------------------------------------------------------------
(* The signal handler is installed before anything else.                   *)
Signal == /\ at # "exited"
          /\ g_running' = FALSE
          /\ UNCHANGED <<gvars, bvars, at, phase>>

\* A turn of the loop without a signal changes nothing.
LoopEnds == /\ ~g_running
            /\ Goes("loop", "gps_stop")
            /\ UNCHANGED <<gvars, bvars, phase>>

SwitchBroadcast == /\ Switching /\ at = "loop"
                   /\ B!Disable \/ B!EnableMalformed \/ \E a \in Addrs : B!Enable(a)
                   /\ UNCHANGED <<gvars, program>>

-----------------------------------------------------------------------------
(* Down                                                                    *)
\* Mutant of GpsStop: the GPS worker is left to itself.
GpsStopSkipped == /\ Goes("gps_stop", "sdk_stop")
                  /\ UNCHANGED <<gvars, bvars, phase>>

\* rtk_gps_worker_stop, if rtk_gps_worker_is_running
GpsStop == /\ at = "gps_stop"
           /\ \/ StopEnter \/ StopJoin \/ StopClose \/ StopUnregister
              \/ mpc = "idle" /\ ~running /\ UNCHANGED gvars
           /\ Goes("gps_stop", IF mpc' = "idle" THEN "sdk_stop" ELSE "gps_stop")
           /\ UNCHANGED <<bvars, phase>>

SdkStop == /\ at = "sdk_stop" /\ phase = "active"
           /\ phase' = "stopping"
           /\ UNCHANGED <<gvars, bvars, at, g_running>>

\* The session is closed and its thread joined: no callback is running.
SdkStopped == /\ phase = "stopping" /\ spc = "idle" /\ Sixents \notin checked
              /\ phase' = "ready"
              /\ Goes("sdk_stop", "deinit")
              /\ UNCHANGED <<gvars, bvars>>

SdkDeinit == /\ Goes("deinit", "exited")
             /\ phase' = "idle"
             /\ \/ B!Disable
                \/ ~broadcast_enabled /\ UNCHANGED bvars
             /\ UNCHANGED gvars

MainStep == \/ Load \/ SdkInit \/ EnableBroadcast \/ SdkStart \/ SdkStartFails
            \/ NoGps \/ GpsStart \/ LoopEnds \/ GpsStop \/ SdkStop \/ SdkDeinit

-----------------------------------------------------------------------------
(* The GPS worker, whose packets go through the broadcast switch           *)
Talking == wpc \in {"beat_error", "beat_idle", "beat_silent", "gga"}

Works == /\ WorkerStep
         /\ \/ (Talking => ~broadcast_enabled /\ Worker \notin checked) /\ UNCHANGED bvars
            \/ Talking /\ B!Send(Worker)
         /\ UNCHANGED program

Looks == /\ Talking
         /\ B!Check(Worker)
         /\ UNCHANGED <<gvars, program>>

(* rtk_sixents_diff_callback: corrections arrive while there is a session, *)
(* go to the callback and then, as a packet, through the broadcast.        *)
InSession == phase \in {"active", "stopping"}

Corrections == /\ \/ RtcmDispatch /\ InSession /\ Sixents \notin checked
                  \/ RtcmStep
               /\ UNCHANGED <<program, bvars>>

Relays == /\ \/ spc = "idle" /\ InSession /\ B!Check(Sixents)
             \/ B!Send(Sixents)
          /\ UNCHANGED <<gvars, program>>

Time == Tick /\ UNCHANGED <<program, bvars>>

ServiceNext == \/ MainStep \/ SdkStopped \/ Signal \/ SwitchBroadcast
               \/ Works \/ Looks \/ Corrections \/ Relays \/ Time

\* Threads are scheduled, reads and writes return, the receive buffer has a
\* last sentence, and rtk_sdk_stop returns (RtkCoreOwned!StopReturns) however
\* many corrections arrive before it does.
ServiceFairness ==
    /\ WF_svars(MainStep)
    /\ SF_svars(SdkStopped)
    /\ WF_svars(Works \/ Looks)
    /\ SF_svars(wpc \in {"gga", "other"} /\ Works /\ wpc' = "loop")
    /\ WF_svars(RtcmStep /\ UNCHANGED <<program, bvars>>)
    /\ WF_svars(B!Send(Sixents) /\ UNCHANGED <<gvars, program>>)

ServiceSafety == ServiceInit /\ [][ServiceNext]_svars
ServiceSpec   == ServiceSafety /\ ServiceFairness

-----------------------------------------------------------------------------
\* However far the start came and whatever failed on the way, a program that
\* has exited left no thread, no correction under way and no open port or socket
\* behind.
EverythingReleased ==
    at = "exited" => /\ wpc = "none" /\ spc = "idle"
                     /\ state \in {"CLOSED", "ERROR"} /\ fd = NoFd
                     /\ \A n \in Fds : owner[n] = "free"
                     /\ open = {}

\* While the SDK is not initialised, its mutexes destroyed, no worker thread is
\* there to take them and no callback is on its way.  (Main itself takes one:
\* rtk_sdk_deinit logs after it has destroyed callback_mutex.)
NobodyLeftAtDeinit ==
    phase = "idle" => wpc = "none" /\ spc = "idle" /\ checked = {}

\* Packets leave only while the broadcast is on, for the address it is on for.
ImplementsSwitch == B!Switch!Spec

\* A signal, at whatever moment it comes, ends the program.
SignalEndsProgram == ~g_running ~> at = "exited"
=============================================================================
