------------------------------- MODULE RtkGps -------------------------------
(***************************************************************************)
(* src/src/rtk_gps_worker.c over the serial port (RtkSerial): the thread   *)
(* that reads NMEA, broadcasts positions and heartbeats and reconnects the *)
(* port; the start and stop that main.c calls; the RTCM callback, run by   *)
(* the Sixents thread, that writes to the same port; and, if App is a      *)
(* thread, an application that opens and closes the port through rtk_sdk.h.*)
(*                                                                         *)
(* Time is kept as ages: how long ago a time stamp was taken, up to        *)
(* AgeLimit.  `now` is a snapshot, so now - last_x can be negative, which  *)
(* the code's unsigned subtraction turns into a huge elapsed time.  What   *)
(* is inside a sentence, logging and the statistics are left out.          *)
(***************************************************************************)
EXTENDS RtkSerial

CONSTANTS
    Main, Worker, Sixents,   \* the three threads of the bundled program
    App,                     \* the application's own thread, if in Threads
    HeartbeatInterval,       \* RTK_GPS_HEARTBEAT_INTERVAL_MS
    NoDataTimeout            \* RTK_GPS_NO_DATA_TIMEOUT_MS

AgeLimit == NoDataTimeout    \* bound: an age this large stays

ASSUME GpsAssumption ==
    /\ {Main, Worker, Sixents} \subseteq Threads
    /\ Threads \subseteq {Main, Worker, Sixents, App}
    /\ Main # Worker /\ Main # Sixents /\ Worker # Sixents
    /\ App \notin {Main, Worker, Sixents}
    /\ HeartbeatInterval \in Nat \ {0}
    /\ NoDataTimeout \in Nat
    /\ HeartbeatInterval <= NoDataTimeout

ASSUME GpsUse ==
    /\ MayUse[Main] = {"open", "close"}
    /\ MayUse[Worker] = {"read", "reconnect"}
    /\ MayUse[Sixents] = {"write"}
    /\ App \in Threads => MayUse[App] = {"open", "close"}

VARIABLES
    running,       \* g_gps_worker.running
    rtcm_cb,       \* rtk_gps_on_rtcm_data is the registered RTCM callback
    mpc, wpc, spc, \* where Main, Worker and Sixents are
    now_age,       \* time since the worker took `now`
    nmea_age,      \* time since last_nmea_time
    bcast_age,     \* time since last_broadcast_time
    now_nmea,      \* now - last_nmea_time, Wrapped if that is negative
    now_bcast,     \* now - last_broadcast_time, likewise
    packet         \* gps_state of the last packet, or NoPacket

Wrapped  == -1
NoPacket == -1

clocks  == <<now_age, nmea_age, bcast_age, now_nmea, now_bcast>>
pcs     == <<mpc, wpc, spc>>
control == <<running, rtcm_cb>>
gvars   == <<vars, control, pcs, clocks, packet>>

Ages == 0..AgeLimit

GpsTypeOK ==
    /\ TypeOK
    /\ running \in BOOLEAN /\ rtcm_cb \in BOOLEAN
    /\ mpc \in {"idle", "register", "create", "join", "close", "unregister"}
    /\ wpc \in {"none", "loop", "beat_error", "beat_idle", "reconnect", "reopen", "check",
                "beat_silent", "read", "reading", "gga", "other", "exited"}
    /\ spc \in {"idle", "get_state", "write", "writing"}
    /\ now_age \in Ages /\ nmea_age \in Ages /\ bcast_age \in Ages
    /\ now_nmea \in Ages \cup {Wrapped} /\ now_bcast \in Ages \cup {Wrapped}
    /\ packet \in {NoPacket, 0, 1, 2, 3}

GpsInit ==
    /\ Init
    /\ running = FALSE /\ rtcm_cb = FALSE
    /\ mpc = "idle" /\ wpc = "none" /\ spc = "idle"
    /\ now_age = 0 /\ nmea_age = 0 /\ bcast_age = AgeLimit
    /\ now_nmea = 0 /\ now_bcast = 0
    /\ packet = NoPacket

-----------------------------------------------------------------------------
(* Time                                                                    *)
Older(age) == IF age < AgeLimit THEN age + 1 ELSE age

Tick ==
    /\ now_age' = Older(now_age)
    /\ nmea_age' = Older(nmea_age)
    /\ bcast_age' = Older(bcast_age)
    /\ UNCHANGED <<vars, control, pcs, now_nmea, now_bcast, packet>>

\* now - last >= limit in unsigned arithmetic
Elapsed(diff, limit) == diff = Wrapped \/ diff >= limit

\* now - t for a time stamp t taken at this moment
NowMinusClock == IF now_age > 0 THEN Wrapped ELSE 0

\* broadcast_position, broadcast_heartbeat: a packet, and last_broadcast_time
\* is the time after it was sent
Send(gps_state) ==
    /\ packet' = gps_state
    /\ bcast_age' = 0
    /\ now_bcast' = NowMinusClock

-----------------------------------------------------------------------------
(* rtk_gps_worker_start.  The thread identity is fresh: the previous one   *)
(* was joined.                                                             *)
\* rtk_sdk_close_gps_serial, a no-op on a closed port
MainCloses == \/ Close(Main)
              \/ state = "CLOSED" /\ UNCHANGED vars

StartOpen ==
    /\ mpc = "idle" /\ ~running
    /\ \/ OpenOk(Main) /\ mpc' = "register"
       \/ OpenFails(Main) /\ mpc' = "idle"
       \/ state = "OPEN" /\ UNCHANGED vars /\ mpc' = "register"
    /\ UNCHANGED <<control, wpc, spc, clocks, packet>>

StartRegister ==
    /\ mpc = "register"
    /\ rtcm_cb' = TRUE
    /\ mpc' = "create"
    /\ UNCHANGED <<vars, running, wpc, spc, clocks, packet>>

\* last_broadcast_time = 0: long ago; last_nmea_time = now
StartThread ==
    /\ mpc = "create"
    /\ running' = TRUE
    /\ wpc' = "loop"
    /\ nmea_age' = 0
    /\ bcast_age' = AgeLimit
    /\ mpc' = "idle"
    /\ UNCHANGED <<vars, rtcm_cb, spc, now_age, now_nmea, now_bcast, packet>>

\* pthread_create fails: the port is closed, the callback stays registered.
StartThreadFails ==
    /\ mpc = "create"
    /\ mpc' = "idle"
    /\ MainCloses
    /\ nmea_age' = 0
    /\ bcast_age' = AgeLimit
    /\ UNCHANGED <<control, wpc, spc, now_age, now_nmea, now_bcast, packet>>

-----------------------------------------------------------------------------
(* rtk_gps_worker_stop                                                     *)
StopEnter ==
    /\ mpc = "idle" /\ running
    /\ running' = FALSE
    /\ mpc' = "join"
    /\ UNCHANGED <<vars, rtcm_cb, wpc, spc, clocks, packet>>

\* Mutant of StopJoin: the thread is not waited for.
StopJoinDetached ==
    /\ mpc = "join"
    /\ mpc' = "close"
    /\ UNCHANGED <<vars, control, wpc, spc, clocks, packet>>

StopJoin ==
    /\ mpc = "join"
    /\ wpc = "exited"
    /\ wpc' = "none"
    /\ mpc' = "close"
    /\ UNCHANGED <<vars, control, spc, clocks, packet>>

StopClose ==
    /\ mpc = "close"
    /\ MainCloses
    /\ mpc' = "unregister"
    /\ UNCHANGED <<control, wpc, spc, clocks, packet>>

StopUnregister ==
    /\ mpc = "unregister"
    /\ rtcm_cb' = FALSE
    /\ mpc' = "idle"
    /\ UNCHANGED <<vars, running, wpc, spc, clocks, packet>>

-----------------------------------------------------------------------------
(* gps_worker_thread                                                       *)

TakeNow ==
    /\ now_age' = 0
    /\ now_nmea' = nmea_age
    /\ now_bcast' = bcast_age

Due == Elapsed(now_bcast', HeartbeatInterval)

\* Mutants of WorkerLoop: running is not looked at; the interval is not.
WorkerLoopIgnoresStop ==
    /\ wpc = "loop"
    /\ TakeNow
    /\ \/ state = "OPEN" /\ wpc' = "check"
       \/ state = "ERROR" /\ wpc' = IF Due THEN "beat_error" ELSE "reconnect"
       \/ state \notin {"OPEN", "ERROR"} /\ wpc' = IF Due THEN "beat_idle" ELSE "loop"
    /\ UNCHANGED <<vars, control, mpc, spc, nmea_age, bcast_age, packet>>

WorkerLoopAlwaysBeats ==
    /\ wpc = "loop"
    /\ TakeNow
    /\ \/ ~running /\ wpc' = "exited"
       \/ running /\ state = "OPEN" /\ wpc' = "check"
       \/ running /\ state = "ERROR" /\ wpc' = "beat_error"
       \/ running /\ state \notin {"OPEN", "ERROR"} /\ wpc' = "beat_idle"
    /\ UNCHANGED <<vars, control, mpc, spc, nmea_age, bcast_age, packet>>

\* The head of the loop: running, now, and the state of the port.
WorkerLoop ==
    /\ wpc = "loop"
    /\ TakeNow
    /\ \/ ~running /\ wpc' = "exited"
       \/ running /\ state = "OPEN" /\ wpc' = "check"
       \/ running /\ state = "ERROR" /\ wpc' = IF Due THEN "beat_error" ELSE "reconnect"
       \/ /\ running /\ state \notin {"OPEN", "ERROR"}
          /\ wpc' = IF Due THEN "beat_idle" ELSE "loop"
    /\ UNCHANGED <<vars, control, mpc, spc, nmea_age, bcast_age, packet>>

\* ERROR: heartbeat, then reconnect
WorkerBeatError ==
    /\ wpc = "beat_error"
    /\ Send(0)
    /\ wpc' = "reconnect"
    /\ UNCHANGED <<vars, control, mpc, spc, now_age, nmea_age, now_nmea>>

\* neither OPEN nor ERROR: heartbeat, then wait
WorkerBeatIdle ==
    /\ wpc = "beat_idle"
    /\ Send(0)
    /\ wpc' = "loop"
    /\ UNCHANGED <<vars, control, mpc, spc, now_age, nmea_age, now_nmea>>

WorkerReconnect ==
    /\ wpc = "reconnect"
    /\ \/ Reconnect(Worker) /\ wpc' = "reopen"
       \/ reconnect_count >= MaxReconnects /\ UNCHANGED vars /\ wpc' = "loop"
    /\ UNCHANGED <<control, mpc, spc, clocks, packet>>

\* last_nmea_time = the time after the reconnect, while `now` is from before
WorkerReopenOk ==
    /\ wpc = "reopen"
    /\ ReopenOk(Worker)
    /\ nmea_age' = 0
    /\ now_nmea' = NowMinusClock
    /\ wpc' = "check"
    /\ UNCHANGED <<control, mpc, spc, now_age, bcast_age, now_bcast, packet>>

WorkerReopenFails ==
    /\ wpc = "reopen"
    /\ ReopenFails(Worker)
    /\ wpc' = "loop"
    /\ UNCHANGED <<control, mpc, spc, clocks, packet>>

\* OPEN: is the module silent?
WorkerCheck ==
    /\ wpc = "check"
    /\ wpc' = IF /\ Elapsed(now_nmea, NoDataTimeout)
                 /\ Elapsed(now_bcast, HeartbeatInterval)
              THEN "beat_silent" ELSE "read"
    /\ UNCHANGED <<vars, control, mpc, spc, clocks, packet>>

WorkerBeatSilent ==
    /\ wpc = "beat_silent"
    /\ Send(3)
    /\ wpc' = "read"
    /\ UNCHANGED <<vars, control, mpc, spc, now_age, nmea_age, now_nmea>>

WorkerRead ==
    /\ wpc = "read"
    /\ \/ ReadBegin(Worker) /\ wpc' = "reading"
       \/ Refused /\ UNCHANGED vars /\ wpc' = "loop"
    /\ UNCHANGED <<control, mpc, spc, clocks, packet>>

\* What the extraction finds next: a valid GGA sentence, another NMEA sentence
\* (or an invalid GGA), or no complete sentence any more.
Extracted == wpc' \in {"gga", "other", "loop"}

WorkerReadEnds ==
    /\ wpc = "reading"
    /\ \/ ReadNothing(Worker) /\ wpc' = "loop"
       \/ ReadFails(Worker) /\ wpc' = "loop"
       \/ ReadData(Worker) /\ Extracted
    /\ UNCHANGED <<control, mpc, spc, clocks, packet>>

\* A valid GGA sentence is broadcast, and last_nmea_time = now.
WorkerGga(gps_state) ==
    /\ wpc = "gga"
    /\ Send(gps_state)
    /\ nmea_age' = now_age
    /\ now_nmea' = 0
    /\ Extracted
    /\ UNCHANGED <<vars, control, mpc, spc, now_age>>

\* Any other sentence is dropped.
WorkerOther ==
    /\ wpc = "other"
    /\ Extracted
    /\ UNCHANGED <<vars, control, mpc, spc, clocks, packet>>

WorkerStep == \/ WorkerLoop \/ WorkerBeatError \/ WorkerBeatIdle \/ WorkerReconnect
              \/ WorkerReopenOk \/ WorkerReopenFails \/ WorkerCheck \/ WorkerBeatSilent
              \/ WorkerRead \/ WorkerReadEnds
              \/ \E gps_state \in {1, 2} : WorkerGga(gps_state)
              \/ WorkerOther

-----------------------------------------------------------------------------
(* rtk_dispatch_rtcm copies the callback under the lock and calls it       *)
(* without: rtk_gps_on_rtcm_data looks at the port, then writes to it.     *)
RtcmDispatch ==
    /\ spc = "idle"
    /\ rtcm_cb
    /\ spc' = "get_state"
    /\ UNCHANGED <<vars, control, mpc, wpc, clocks, packet>>

RtcmGetState ==
    /\ spc = "get_state"
    /\ spc' = IF state = "OPEN" THEN "write" ELSE "idle"
    /\ UNCHANGED <<vars, control, mpc, wpc, clocks, packet>>

RtcmWrite ==
    /\ spc = "write"
    /\ \/ WriteBegin(Sixents) /\ spc' = "writing"
       \/ Refused /\ UNCHANGED vars /\ spc' = "idle"
    /\ UNCHANGED <<control, mpc, wpc, clocks, packet>>

RtcmWritten ==
    /\ spc = "writing"
    /\ WriteDone(Sixents) \/ WriteFails(Sixents)
    /\ spc' = "idle"
    /\ UNCHANGED <<control, mpc, wpc, clocks, packet>>

-----------------------------------------------------------------------------
\* rtk_sdk_open_gps_serial and rtk_sdk_close_gps_serial from elsewhere
AppCalls ==
    /\ App \in Threads
    /\ OpenOk(App) \/ OpenFails(App) \/ Close(App)
    /\ UNCHANGED <<control, pcs, clocks, packet>>

MainBegins == StartOpen \/ StopEnter
MainGoesOn == \/ StartRegister \/ StartThread \/ StartThreadFails
              \/ StopJoin \/ StopClose \/ StopUnregister
RtcmStep   == RtcmGetState \/ RtcmWrite \/ RtcmWritten

GpsNext == \/ MainBegins \/ MainGoesOn \/ WorkerStep
           \/ RtcmDispatch \/ RtcmStep \/ AppCalls \/ Tick

\* The receive buffer is finite: there comes a last sentence in it.
WorkerLastSentence == wpc \in {"gga", "other"} /\ WorkerStep /\ wpc' = "loop"

\* Threads are scheduled, reads and writes return.
GpsFairness == /\ WF_gvars(MainGoesOn)
               /\ WF_gvars(WorkerLastSentence)
               /\ WF_gvars(WorkerStep)
               /\ WF_gvars(RtcmStep)

GpsSpec == GpsInit /\ [][GpsNext]_gvars
FairGpsSpec == GpsSpec /\ GpsFairness

-----------------------------------------------------------------------------
(* Safety                                                                  *)

\* Once start has failed or stop has returned, the port is given back: no
\* descriptor is open but the duplicate of a correction still being written,
\* and no reconnect can bring the port back.
StoppedMeansClosed ==
    mpc = "idle" /\ ~running
        => /\ fd = NoFd /\ state \in {"CLOSED", "ERROR"}
           /\ \A n \in Fds : owner[n] \in {"free", Sixents}

\* gps_state 0 packets are at least an interval away from the packet before.
HeartbeatsSpaced ==
    [][WorkerBeatError \/ WorkerBeatIdle => bcast_age >= HeartbeatInterval]_gvars

\* gps_state 3 means that for NoDataTimeout no position was read and the port
\* was not reconnected.
SilenceIsReal == [][WorkerBeatSilent => nmea_age >= NoDataTimeout]_gvars

-----------------------------------------------------------------------------
(* Liveness                                                                *)

\* A port in ERROR is reopened, unless the reconnects are used up or the
\* worker is stopped: it is never left in ERROR or half-way.
PortRecovers == state \in {"ERROR", "RECONNECTING"} /\ running
                    ~> state = "OPEN" \/ reconnect_count = MaxReconnects \/ ~running

\* rtk_gps_worker_stop returns, also from the middle of a reconnect.
StopReturns == mpc = "join" ~> mpc = "idle"
=============================================================================
