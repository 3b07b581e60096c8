-------------------------- MODULE RtkServiceProofs --------------------------
(***************************************************************************)
(* RtkService uses the GPS worker and the broadcast only through their     *)
(* operations, so what is proved of RtkGps and RtkBroadcast holds of the   *)
(* program; and it takes down whatever it brought up.                      *)
(***************************************************************************)
EXTENDS RtkService, RtkGpsProofs

BP == INSTANCE RtkBroadcastProofs WITH Senders <- {Worker, Sixents}

USE DEF Goes, program, bvars

LEMMA SameConstants == BP!BroadcastConstants
  BY ServiceAssumption DEF BP!BroadcastConstants, B!BroadcastConstants

LEMMA ServiceUsesGps == [ServiceNext]_svars => [GpsNext]_gvars
<1> SUFFICES ASSUME [ServiceNext]_svars PROVE [GpsNext]_gvars
  OBVIOUS
<1>1. CASE MainStep
  BY <1>1 DEF MainStep, Load, SdkInit, EnableBroadcast, SdkStart, SdkStartFails, NoGps, GpsStart,
              LoopEnds, GpsStop, SdkStop, SdkDeinit, GpsNext, MainBegins, MainGoesOn
<1>2. CASE SdkStopped \/ Signal \/ SwitchBroadcast
  BY <1>2 DEF SdkStopped, Signal, SwitchBroadcast
<1>3. CASE Works \/ Looks \/ Corrections \/ Relays \/ Time
  BY <1>3 DEF Works, Looks, Corrections, Relays, Time, GpsNext
<1>4. CASE UNCHANGED svars
  BY <1>4 DEF svars
<1> QED BY <1>1, <1>2, <1>3, <1>4 DEF ServiceNext

LEMMA ServiceUsesBroadcast == [ServiceNext]_svars => [BP!Next]_(BP!vars)
<1> SUFFICES ASSUME [ServiceNext]_svars PROVE [BP!Next]_(BP!vars)
  OBVIOUS
<1> USE DEF BP!Next, BP!vars, BP!switch
<1>1. CASE MainStep
  BY <1>1 DEF MainStep, Load, SdkInit, EnableBroadcast, SdkStart, SdkStartFails, NoGps, GpsStart,
              LoopEnds, GpsStop, SdkStop, SdkDeinit, B!Reset, BP!Reset, B!Enable, BP!Enable,
              B!EnableMalformed, BP!EnableMalformed, B!Disable, BP!Disable, B!Opened, BP!Opened
<1>2. CASE SdkStopped \/ Signal
  BY <1>2 DEF SdkStopped, Signal
<1>3. CASE SwitchBroadcast
  BY <1>3 DEF SwitchBroadcast, B!Enable, BP!Enable, B!EnableMalformed, BP!EnableMalformed,
              B!Disable, BP!Disable, B!Opened, BP!Opened
<1>4. CASE Works \/ Looks \/ Relays
  BY <1>4 DEF Works, Looks, Relays, B!Send, BP!Send, B!Deliver, BP!Deliver, B!Check, BP!Check,
              B!switch, BP!switch
<1>5. CASE Corrections \/ Time
  BY <1>5 DEF Corrections, Time
<1>6. CASE UNCHANGED svars
  BY <1>6 DEF svars
<1> QED BY <1>1, <1>2, <1>3, <1>4, <1>5, <1>6 DEF ServiceNext

\* The program broadcasts as RtkSwitch promises.
THEOREM ServiceImplementsSwitch == ServiceSafety => ImplementsSwitch
<1>1. ServiceInit => BP!Init
  BY DEF ServiceInit, B!Init, BP!Init
<1>2. BP!Spec => BP!Switch!Spec
  BY BP!BroadcastImplementsSwitch, SameConstants DEF BP!ImplementsSwitch
<1>3. BP!Switch!Spec => B!Switch!Spec
  BY DEF BP!Switch!Spec, BP!Switch!Init, BP!Switch!Next, BP!Switch!vars,
         BP!Switch!TurnOn, BP!Switch!TurnOff, BP!Switch!Packet,
         B!Switch!Spec, B!Switch!Init, B!Switch!Next, B!Switch!vars,
         B!Switch!TurnOn, B!Switch!TurnOff, B!Switch!Packet
<1> QED BY <1>1, <1>2, <1>3, ServiceUsesBroadcast, PTL DEF ServiceSafety, BP!Spec, ImplementsSwitch

-----------------------------------------------------------------------------
(***************************************************************************)
(* Stage says what is up at each point of main.  The worker's part is in   *)
(* GpsInv (it runs only while running is set or main joins it), the        *)
(* socket's in RtkBroadcastProofs.                                         *)
(***************************************************************************)
Stage ==
    /\ at \notin {"gps_start", "gps_stop"} => mpc = "idle"
    /\ at = "gps_start" => mpc \in {"idle", "register", "create"}
    /\ at = "gps_stop" => mpc \in {"idle", "join", "close", "unregister"}
    /\ running => at \in {"loop", "gps_stop"}
    /\ at \in {"load", "init", "exited"} => phase = "idle" /\ ~broadcast_enabled
    /\ at \in {"enable", "start", "deinit"} => phase = "ready"
    /\ at \in {"gps_start", "loop", "gps_stop"} => phase = "active"
    /\ at = "sdk_stop" => phase \in {"active", "stopping"}
    /\ at \in {"load", "init", "enable", "start", "gps_start", "loop", "gps_stop",
               "sdk_stop", "deinit", "exited"}
    /\ spc # "idle" => InSession
    /\ Worker \in checked => Talking
    /\ Sixents \in checked => spc = "idle" /\ InSession

LEMMA StepStage ==
    ASSUME Stage, GpsInv, BP!Inv, App \notin Threads, [ServiceNext]_svars
    PROVE  Stage'
<1> USE DEF Stage, Talking, InSession, GpsInv, Turns, BP!Inv, BP!TypeOK, gvars, control, pcs
<1>1. CASE Load \/ SdkInit \/ EnableBroadcast \/ SdkStart \/ SdkStartFails \/ NoGps
  BY <1>1 DEF Load, SdkInit, EnableBroadcast, SdkStart, SdkStartFails, NoGps, B!Reset, B!Enable,
              B!EnableMalformed
<1>2. CASE GpsStart
  BY <1>2 DEF GpsStart, StartOpen, StartRegister, StartThread, StartThreadFails
<1>3. CASE GpsStop
  BY <1>3 DEF GpsStop, StopEnter, StopJoin, StopClose, StopUnregister
<1>4. CASE LoopEnds \/ SdkStop \/ SdkStopped \/ SdkDeinit
  BY <1>4 DEF LoopEnds, SdkStop, SdkStopped, SdkDeinit, B!Disable
<1>5. CASE Signal \/ SwitchBroadcast
  BY <1>5 DEF Signal, SwitchBroadcast, B!Enable, B!EnableMalformed, B!Disable
<1>6. CASE Works
  <2>1. UNCHANGED <<mpc, running, spc, at, phase, broadcast_enabled>>
    BY <1>6 DEF Works, WorkerStep, WorkerLoop, WorkerBeatError, WorkerBeatIdle, WorkerReconnect,
                WorkerReopenOk, WorkerReopenFails, WorkerCheck, WorkerBeatSilent, WorkerRead,
                WorkerReadEnds, WorkerGga, WorkerOther, B!Send, B!switch
  <2>2. Worker \notin checked' /\ checked' \subseteq checked
    BY <1>6 DEF Works, B!Send
  <2> QED BY <2>1, <2>2
<1>7. CASE Looks
  BY <1>7, GpsAssumption DEF Looks, B!Check, B!switch
<1>8. CASE Corrections
  BY <1>8 DEF Corrections, RtcmDispatch, RtcmStep, RtcmGetState, RtcmWrite, RtcmWritten
<1>9. CASE Relays
  BY <1>9, GpsAssumption DEF Relays, B!Check, B!Send, B!switch
<1>10. CASE Time
  BY <1>10 DEF Time, Tick
<1>11. CASE UNCHANGED svars
  BY <1>11 DEF svars
<1> QED BY <1>1, <1>2, <1>3, <1>4, <1>5, <1>6, <1>7, <1>8, <1>9, <1>10, <1>11 DEF ServiceNext, MainStep

LEMMA ServiceInvariance ==
    ASSUME App \notin Threads
    PROVE  ServiceSafety => [](Stage /\ GpsInv /\ BP!Inv)
<1>1. ServiceInit => Stage /\ GpsInit /\ BP!Init
  BY DEF ServiceInit, Stage, GpsInit, B!Init, BP!Init
<1>2. BP!Init => BP!Inv
  BY BP!InitInv, SameConstants
<1>3. BP!Inv /\ [BP!Next]_(BP!vars) => BP!Inv'
  BY BP!StepInv, SameConstants
<1>4. Stage /\ GpsInv /\ BP!Inv /\ [ServiceNext]_svars => Stage'
  BY StepStage
<1>5. GpsSpec => []GpsInv
  BY GpsInvariance
<1> QED BY <1>1, <1>2, <1>3, <1>4, <1>5, ServiceUsesGps, ServiceUsesBroadcast, PTL
        DEF ServiceSafety, GpsSpec

\* A program that has exited, at whatever point its start failed, left no
\* thread, correction, descriptor or socket behind.
THEOREM ServiceReleases ==
    ASSUME App \notin Threads
    PROVE  ServiceSafety => []EverythingReleased
<1>1. Stage /\ GpsInv /\ BP!Inv => EverythingReleased
  <2> SUFFICES ASSUME Stage, GpsInv, BP!Inv PROVE EverythingReleased
    OBVIOUS
  <2> USE DEF Stage, InSession, GpsInv, Turns, BP!Inv, BP!TypeOK
  <2>1. phase = "idle" => wpc = "none" /\ spc = "idle" /\ checked = {}
    BY DEF Talking
  <2>2. at = "exited" => \A n \in Fds : owner[n] = "free"
    BY <2>1, GpsAssumption, SerialAssumption DEF Ops, Owned, Serial, TypeOK
  <2>3. at = "exited" => open = {}
    BY DEF BP!Inv, BP!SocketMatches
  <2> QED BY <2>1, <2>2, <2>3 DEF EverythingReleased
<1> QED BY <1>1, ServiceInvariance, PTL

\* The mutexes are destroyed only when no worker and no callback is left to take
\* them.
THEOREM ServiceDeinitAlone ==
    ASSUME App \notin Threads
    PROVE  ServiceSafety => []NobodyLeftAtDeinit
<1>1. Stage /\ GpsInv /\ BP!Inv => NobodyLeftAtDeinit
  BY DEF Stage, InSession, GpsInv, Turns, BP!Inv, BP!TypeOK, NobodyLeftAtDeinit, Talking
<1> QED BY <1>1, ServiceInvariance, PTL

-----------------------------------------------------------------------------
(***************************************************************************)
(* Main against the lifecycle contract.  That a session is open can only   *)
(* be noticed by the corrections that come from it.                        *)
(***************************************************************************)
Correcting == spc # "idle" \/ Sixents \in checked

L == INSTANCE RtkLifecycle WITH session <- Correcting

LEMMA StepLifecycle ==
    ASSUME Stage, Stage', BP!TypeOK, [ServiceNext]_svars
    PROVE  [L!Next]_(L!vars)
<1> USE DEF Stage, InSession, Correcting, BP!TypeOK, L!Next, L!vars, L!Move, gvars, control, pcs
<1>1. CASE Load \/ EnableBroadcast \/ SdkStartFails \/ NoGps \/ LoopEnds \/ Signal \/ SwitchBroadcast
  BY <1>1 DEF Load, EnableBroadcast, SdkStartFails, NoGps, LoopEnds, Signal, SwitchBroadcast,
              B!Enable, B!EnableMalformed, B!Disable, B!switch
<1>2. CASE SdkInit \/ SdkStart \/ SdkStop \/ SdkStopped \/ SdkDeinit
  BY <1>2 DEF SdkInit, SdkStart, SdkStop, SdkStopped, SdkDeinit, B!Reset, B!Disable, B!switch,
              L!Initialize, L!Start, L!StopBegin, L!StopEnd, L!Deinit
<1>3. CASE GpsStart \/ GpsStop
  BY <1>3 DEF GpsStart, GpsStop, StartOpen, StartRegister, StartThread, StartThreadFails,
              StopEnter, StopJoin, StopClose, StopUnregister
<1>4. CASE Works \/ Looks
  <2>1. UNCHANGED <<spc, phase>>
    BY <1>4 DEF Works, Looks, WorkerStep, WorkerLoop, WorkerBeatError, WorkerBeatIdle, WorkerReconnect,
                WorkerReopenOk, WorkerReopenFails, WorkerCheck, WorkerBeatSilent, WorkerRead,
                WorkerReadEnds, WorkerGga, WorkerOther
  <2>2. Sixents \in checked' <=> Sixents \in checked
    BY <1>4, GpsAssumption DEF Works, Looks, B!Send, B!Check
  <2> QED BY <2>1, <2>2
<1>5. CASE Corrections \/ Relays \/ Time \/ UNCHANGED svars
  <2>1. UNCHANGED phase
    BY <1>5 DEF Corrections, Relays, Time, svars
  <2>2. Correcting \/ Correcting' => InSession
    BY <2>1
  <2> QED BY <2>1, <2>2 DEF L!SessionOpen, L!SessionClose
<1> QED BY <1>1, <1>2, <1>3, <1>4, <1>5 DEF ServiceNext, MainStep

\* However the program goes up and down, it uses the SDK as the lifecycle
\* contract lets it: each of the four calls in its phase, corrections only
\* between start and the end of stop, and stop ends when none is under way.
THEOREM ServiceKeepsLifecycle ==
    ASSUME App \notin Threads
    PROVE  ServiceSafety => L!Safety
<1>1. ServiceInit => L!Init
  BY DEF ServiceInit, GpsInit, B!Init, L!Init, Correcting
<1>2. Stage /\ Stage' /\ BP!Inv /\ [ServiceNext]_svars => [L!Next]_(L!vars)
  BY StepLifecycle DEF BP!Inv
<1> QED BY <1>1, <1>2, ServiceInvariance, PTL DEF ServiceSafety, L!Safety
=============================================================================
