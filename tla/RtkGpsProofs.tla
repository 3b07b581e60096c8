---------------------------- MODULE RtkGpsProofs ----------------------------
(***************************************************************************)
(* First the serial port, for any threads, descriptor numbers and limits:  *)
(* Serial is its inductive invariant (who owns a descriptor number is what *)
(* makes both closing and reusing numbers safe).  RtkGps uses the port     *)
(* only through its operations, so the same holds of the GPS worker.       *)
(***************************************************************************)
EXTENDS RtkGps, TLAPS

Serial == TypeOK /\ DescriptorSafety /\ StateMatchesFd

USE DEF Calls, In, Goto, Usable, Begin, ReadBegin, WriteBegin, End, Lowest, Allocated, Closed,
        OneMoreError, States, Operations, port, threads

LEMMA InitSerial == Init => Serial
  BY SerialAssumption DEF Init, Serial, TypeOK, DescriptorSafety, StateMatchesFd

\* Each operation keeps the types.
LEMMA TypeStep ==
    ASSUME TypeOK, [Next]_vars
    PROVE  TypeOK'
<1> USE SerialAssumption DEF TypeOK
<1>1. CASE UNCHANGED vars
  BY <1>1 DEF vars
<1>2. ASSUME NEW t \in Threads, OpenOk(t) \/ OpenFails(t) \/ Close(t) PROVE TypeOK'
  BY <1>2 DEF OpenOk, OpenFails, Close
<1>3. ASSUME NEW t \in Threads, Reconnect(t) PROVE TypeOK'
  BY <1>3 DEF Reconnect
<1>4. ASSUME NEW t \in Threads, ReopenOk(t) \/ ReopenFails(t) PROVE TypeOK'
  BY <1>4 DEF ReopenOk, ReopenFails
<1>5. ASSUME NEW t \in Threads, NEW f \in {"read", "write"}, Begin(t, f) PROVE TypeOK'
  BY <1>5
<1>6. ASSUME NEW t \in Threads,
             ReadNothing(t) \/ ReadData(t) \/ ReadFails(t) \/ WriteDone(t) \/ WriteFails(t)
      PROVE  TypeOK'
  BY <1>6 DEF ReadNothing, ReadData, ReadFails, WriteDone, WriteFails
<1> QED BY <1>1, <1>2, <1>3, <1>4, <1>5, <1>6 DEF Next

LEMMA StateStep ==
    ASSUME TypeOK, StateMatchesFd, [Next]_vars
    PROVE  StateMatchesFd'
<1> USE SerialAssumption DEF TypeOK, StateMatchesFd
<1>1. CASE UNCHANGED vars
  BY <1>1 DEF vars
<1>2. ASSUME NEW t \in Threads, OpenOk(t) \/ OpenFails(t) \/ Close(t) PROVE StateMatchesFd'
  BY <1>2 DEF OpenOk, OpenFails, Close
<1>3. ASSUME NEW t \in Threads, Reconnect(t) \/ ReopenOk(t) \/ ReopenFails(t)
      PROVE  StateMatchesFd'
  BY <1>3 DEF Reconnect, ReopenOk, ReopenFails
<1>4. ASSUME NEW t \in Threads, NEW f \in {"read", "write"}, Begin(t, f) PROVE StateMatchesFd'
  BY <1>4
<1>5. ASSUME NEW t \in Threads,
             ReadNothing(t) \/ ReadData(t) \/ ReadFails(t) \/ WriteDone(t) \/ WriteFails(t)
      PROVE  StateMatchesFd'
  BY <1>5 DEF ReadNothing, ReadData, ReadFails, WriteDone, WriteFails
<1> QED BY <1>1, <1>2, <1>3, <1>4, <1>5 DEF Next

\* A number that is free belongs to no operation and not to the port; a number
\* that is closed belonged to the one who closes it.
LEMMA SafetyStep ==
    ASSUME TypeOK, DescriptorSafety, [Next]_vars
    PROVE  DescriptorSafety'
<1> USE SerialAssumption DEF TypeOK, DescriptorSafety
<1>1. CASE UNCHANGED vars
  BY <1>1 DEF vars
<1>2. ASSUME NEW t \in Threads, OpenOk(t) PROVE DescriptorSafety'
  BY <1>2 DEF OpenOk
<1>3. ASSUME NEW t \in Threads, OpenFails(t) PROVE DescriptorSafety'
  BY <1>3 DEF OpenFails
<1>4. ASSUME Closed(fd), fd' = NoFd, UNCHANGED dup,
             \A u \in Threads : op'[u] \in {"read", "write"} => op[u] = op'[u]
      PROVE  DescriptorSafety'
  <2> SUFFICES ASSUME NEW u \in Threads, op[u] \in {"read", "write"}
               PROVE  dup[u] \in Fds /\ owner'[dup[u]] = u
    BY <1>4
  <2>1. dup[u] \in Fds /\ owner[dup[u]] = u /\ u # "port"
    OBVIOUS
  <2>2. CASE fd \in Fds
    BY <1>4, <2>1, <2>2
  <2>3. CASE fd \notin Fds
    BY <1>4, <2>1, <2>3
  <2> QED BY <2>2, <2>3
<1>5. ASSUME NEW t \in Threads, Close(t) \/ Reconnect(t) PROVE DescriptorSafety'
  <2>1. /\ Closed(fd) /\ fd' = NoFd /\ UNCHANGED dup
        /\ \A u \in Threads : op'[u] \in {"read", "write"} => op[u] = op'[u]
    BY <1>5 DEF Close, Reconnect
  <2> QED BY <2>1, <1>4
<1>6. ASSUME NEW t \in Threads, ReopenOk(t) PROVE DescriptorSafety'
  BY <1>6 DEF ReopenOk
<1>7. ASSUME NEW t \in Threads, ReopenFails(t) PROVE DescriptorSafety'
  BY <1>7 DEF ReopenFails
<1>8. ASSUME NEW t \in Threads, NEW f \in {"read", "write"}, Begin(t, f) PROVE DescriptorSafety'
  BY <1>8
<1>9. ASSUME NEW t \in Threads, NEW f \in {"read", "write"}, End(t, f), fd' = fd
      PROVE  DescriptorSafety'
  <2>1. dup[t] \in Fds /\ owner[dup[t]] = t /\ t # "port"
    BY <1>9
  <2>2. owner' = [owner EXCEPT ![dup[t]] = "free"]
    BY <1>9, <2>1
  <2>3. fd # NoFd => owner'[fd] = "port"
    BY <2>1, <2>2
  <2>4. ASSUME NEW u \in Threads, op'[u] \in {"read", "write"}
        PROVE  dup'[u] \in Fds /\ owner'[dup'[u]] = u
    <3>1. u # t /\ op[u] \in {"read", "write"} /\ dup'[u] = dup[u]
      BY <1>9, <2>4
    <3>2. dup[u] \in Fds /\ owner[dup[u]] = u
      BY <3>1
    <3> QED BY <2>1, <2>2, <3>1, <3>2
  <2> QED BY <1>9, <2>3, <2>4
<1>10. ASSUME NEW t \in Threads,
              ReadNothing(t) \/ ReadData(t) \/ ReadFails(t) \/ WriteDone(t) \/ WriteFails(t)
       PROVE  fd' = fd /\ (End(t, "read") \/ End(t, "write"))
  BY <1>10 DEF ReadNothing, ReadData, ReadFails, WriteDone, WriteFails
<1> QED BY <1>1, <1>2, <1>3, <1>4, <1>5, <1>6, <1>7, <1>8, <1>9, <1>10 DEF Next

\* The types, the ownership of descriptors and the state of the port.
THEOREM SerialInvariance == Spec => [](TypeOK /\ DescriptorSafety /\ StateMatchesFd)
<1>1. Init => Serial
  BY InitSerial
<1>2. Serial /\ [Next]_vars => Serial'
  BY TypeStep, StateStep, SafetyStep DEF Serial
<1> QED BY <1>1, <1>2, PTL DEF Spec, Serial

HIDE DEF Calls, In, Goto, Usable, Begin, ReadBegin, WriteBegin, End, Lowest, Allocated, Closed,
        OneMoreError, States, Operations, port, threads

-----------------------------------------------------------------------------
LEMMA MainUsesSerial ==
    ASSUME MainBegins \/ MainGoesOn
    PROVE  [Next]_vars
<1> USE GpsAssumption DEF Next, MainCloses
<1>1. CASE StartOpen
  BY <1>1 DEF StartOpen
<1>2. CASE StartThreadFails
  BY <1>2 DEF StartThreadFails
<1>3. CASE StopClose
  BY <1>3 DEF StopClose
<1>4. CASE StopEnter \/ StartRegister \/ StartThread \/ StopJoin \/ StopUnregister
  BY <1>4 DEF StopEnter, StartRegister, StartThread, StopJoin, StopUnregister
<1> QED BY <1>1, <1>2, <1>3, <1>4 DEF MainBegins, MainGoesOn

LEMMA WorkerUsesSerial ==
    ASSUME WorkerStep
    PROVE  [Next]_vars
<1> USE GpsAssumption DEF Next
<1>1. CASE WorkerReconnect
  BY <1>1 DEF WorkerReconnect
<1>2. CASE WorkerReopenOk \/ WorkerReopenFails
  BY <1>2 DEF WorkerReopenOk, WorkerReopenFails
<1>3. CASE WorkerRead \/ WorkerReadEnds
  BY <1>3 DEF WorkerRead, WorkerReadEnds
<1>4. CASE WorkerLoop \/ WorkerBeatError \/ WorkerBeatIdle
  BY <1>4 DEF WorkerLoop, WorkerBeatError, WorkerBeatIdle
<1>5. CASE WorkerCheck \/ WorkerBeatSilent \/ WorkerOther
  BY <1>5 DEF WorkerCheck, WorkerBeatSilent, WorkerOther
<1>6. ASSUME NEW gps_state \in {1, 2}, WorkerGga(gps_state) PROVE [Next]_vars
  BY <1>6 DEF WorkerGga
<1> QED BY <1>1, <1>2, <1>3, <1>4, <1>5, <1>6 DEF WorkerStep

LEMMA OthersUseSerial ==
    ASSUME RtcmDispatch \/ RtcmStep \/ AppCalls \/ Tick
    PROVE  [Next]_vars
<1> USE GpsAssumption DEF Next
<1>1. CASE RtcmDispatch \/ RtcmGetState \/ Tick
  BY <1>1 DEF RtcmDispatch, RtcmGetState, Tick
<1>2. CASE RtcmWrite \/ RtcmWritten
  BY <1>2 DEF RtcmWrite, RtcmWritten
<1>3. CASE AppCalls
  BY <1>3 DEF AppCalls
<1> QED BY <1>1, <1>2, <1>3 DEF RtcmStep

\* Every behaviour of the GPS worker is one of the serial port's.
THEOREM GpsImplementsSerial == GpsSpec => Spec
<1>1. GpsInit => Init
  BY DEF GpsInit
<1>2. [GpsNext]_gvars => [Next]_vars
  <2>1. CASE UNCHANGED gvars
    BY <2>1 DEF gvars
  <2> QED BY <2>1, MainUsesSerial, WorkerUsesSerial, OthersUseSerial DEF GpsNext
<1> QED BY <1>1, <1>2, PTL DEF GpsSpec, Spec

\* However the worker, the corrections and an application interleave: a read
\* or write never touches a descriptor that was closed or reused under it, and
\* OPEN means a descriptor is there.
THEOREM GpsDescriptors == GpsSpec => [](DescriptorSafety /\ StateMatchesFd)
<1> QED BY GpsImplementsSerial, SerialInvariance, PTL

-----------------------------------------------------------------------------
(***************************************************************************)
(* Without another user of the port: what stop gives back.  Ops says which *)
(* call each thread is in, Owned that a number is held by nobody but the   *)
(* port or the call that duplicated it, Turns that the port is in Main's   *)
(* hands while the worker does not run, and closed once Main is done.      *)
(***************************************************************************)
USE DEF Calls, In, Goto, Usable, Begin, ReadBegin, WriteBegin, End, Lowest, Allocated, Closed,
        States, port, threads

Ops == /\ op[Main] = "idle"
       /\ op[Worker] = CASE wpc = "reading" -> "read"
                          [] wpc = "reopen" -> "reconnect"
                          [] OTHER -> "idle"
       /\ op[Sixents] = IF spc = "writing" THEN "write" ELSE "idle"

Owned == \A n \in Fds : /\ owner[n] = "port" => n = fd
                        /\ \A t \in Threads : owner[n] = t => op[t] \in {"read", "write"}
                                                             /\ dup[t] = n

Turns == /\ running => wpc # "none" /\ mpc = "idle"
         /\ wpc # "none" => running \/ mpc = "join"
         /\ mpc = "join" => wpc # "none"
         /\ wpc = "reopen" <=> state = "RECONNECTING"
         /\ wpc \in {"beat_error", "reconnect"} => state = "ERROR"
         /\ wpc \in {"check", "beat_silent", "read", "reading", "gga", "other"}
              => state = "OPEN"
         /\ mpc = "idle" /\ ~running => fd = NoFd /\ state \in {"CLOSED", "ERROR"}
         /\ mpc = "unregister" => fd = NoFd /\ state = "CLOSED"

GpsInv == Serial /\ Ops /\ Owned /\ Turns

LEMMA InitGpsInv == GpsInit => GpsInv
  BY InitSerial, GpsAssumption, SerialAssumption DEF GpsInit, Init, GpsInv, Ops, Owned, Turns

LEMMA StepSerial ==
    ASSUME Serial, [GpsNext]_gvars
    PROVE  Serial'
<1>1. CASE UNCHANGED gvars
  BY <1>1, TypeStep, StateStep, SafetyStep DEF gvars, Serial
<1> QED BY <1>1, MainUsesSerial, WorkerUsesSerial, OthersUseSerial,
           TypeStep, StateStep, SafetyStep DEF Serial, GpsNext

LEMMA StepMain ==
    ASSUME GpsInv, MainBegins \/ MainGoesOn
    PROVE  (Ops /\ Owned /\ Turns)'
<1> USE GpsAssumption, SerialAssumption
        DEF GpsInv, Serial, TypeOK, DescriptorSafety, StateMatchesFd, Ops, Owned, Turns,
            control, vars, MainCloses
<1>1. CASE StartOpen
  BY <1>1 DEF StartOpen, OpenOk, OpenFails
<1>2. CASE StartRegister \/ StartThread
  BY <1>2 DEF StartRegister, StartThread
<1>3. CASE StartThreadFails
  BY <1>3 DEF StartThreadFails, Close
<1>4. CASE StopEnter \/ StopJoin \/ StopUnregister
  BY <1>4 DEF StopEnter, StopJoin, StopUnregister
<1>5. CASE StopClose
  BY <1>5 DEF StopClose, Close
<1> QED BY <1>1, <1>2, <1>3, <1>4, <1>5 DEF MainBegins, MainGoesOn

LEMMA StepWorker ==
    ASSUME GpsInv, WorkerStep
    PROVE  (Ops /\ Owned /\ Turns)'
<1> USE GpsAssumption, SerialAssumption
        DEF GpsInv, Serial, TypeOK, DescriptorSafety, StateMatchesFd, Ops, Owned, Turns,
            control, vars, Extracted
<1>1. CASE WorkerLoop \/ WorkerBeatError \/ WorkerBeatIdle \/ WorkerCheck
             \/ WorkerBeatSilent \/ WorkerOther
  BY <1>1 DEF WorkerLoop, WorkerBeatError, WorkerBeatIdle, WorkerCheck, WorkerBeatSilent,
              WorkerOther
<1>2. CASE WorkerReconnect
  BY <1>2 DEF WorkerReconnect, Reconnect
<1>3. CASE WorkerReopenOk \/ WorkerReopenFails
  BY <1>3 DEF WorkerReopenOk, WorkerReopenFails, ReopenOk, ReopenFails
<1>4. CASE WorkerRead
  BY <1>4 DEF WorkerRead
<1>5. CASE WorkerReadEnds
  BY <1>5 DEF WorkerReadEnds, ReadNothing, ReadFails, ReadData
<1>6. ASSUME NEW gps_state \in {1, 2}, WorkerGga(gps_state) PROVE (Ops /\ Owned /\ Turns)'
  BY <1>6 DEF WorkerGga
<1> QED BY <1>1, <1>2, <1>3, <1>4, <1>5, <1>6 DEF WorkerStep

LEMMA StepOthers ==
    ASSUME GpsInv, RtcmDispatch \/ RtcmStep \/ Tick
    PROVE  (Ops /\ Owned /\ Turns)'
<1> USE GpsAssumption, SerialAssumption
        DEF GpsInv, Serial, TypeOK, DescriptorSafety, StateMatchesFd, Ops, Owned, Turns,
            control, vars
<1>1. CASE RtcmDispatch \/ RtcmGetState \/ Tick
  BY <1>1 DEF RtcmDispatch, RtcmGetState, Tick, pcs
<1>2. CASE RtcmWrite
  BY <1>2 DEF RtcmWrite
<1>3. CASE RtcmWritten
  BY <1>3 DEF RtcmWritten, WriteDone, WriteFails
<1> QED BY <1>1, <1>2, <1>3 DEF RtcmStep

LEMMA GpsInvariance ==
    ASSUME App \notin Threads
    PROVE  GpsSpec => []GpsInv
<1>1. GpsInv /\ [GpsNext]_gvars => GpsInv'
  <2> SUFFICES ASSUME GpsInv, [GpsNext]_gvars PROVE GpsInv'
    OBVIOUS
  <2>1. Serial'
    BY StepSerial DEF GpsInv
  <2>2. CASE UNCHANGED gvars
    BY <2>1, <2>2 DEF GpsInv, Ops, Owned, Turns, gvars, vars, control, pcs
  <2> QED BY <2>1, <2>2, StepMain, StepWorker, StepOthers DEF GpsInv, GpsNext, AppCalls
<1> QED BY <1>1, InitGpsInv, PTL DEF GpsSpec

\* If nobody else opens or closes the port: its only descriptor is fd; a
\* reopening finds the number of the old one given back.
THEOREM GpsLosesNoDescriptor ==
    ASSUME App \notin Threads
    PROVE  GpsSpec => []NoLeak
<1>1. GpsInv => NoLeak
  BY DEF GpsInv, Owned, NoLeak
<1> QED BY <1>1, GpsInvariance, PTL

\* A stopped GPS worker has given the port back.
THEOREM GpsGivesBack ==
    ASSUME App \notin Threads
    PROVE  GpsSpec => []StoppedMeansClosed
<1>1. GpsInv => StoppedMeansClosed
  BY GpsAssumption, SerialAssumption
     DEF GpsInv, Serial, TypeOK, Ops, Owned, Turns, StoppedMeansClosed
<1> QED BY <1>1, GpsInvariance, PTL

\* Nor does the worker bring a closed port back, from the middle of a reconnect
\* or of a failing read.
THEOREM GpsClosedUntilOpened ==
    ASSUME App \notin Threads
    PROVE  GpsSpec => ClosedUntilOpened
<1> DEFINE Opens == \E t \in Threads : OpenOk(t) \/ OpenFails(t)
<1>1. GpsInv /\ [GpsNext]_gvars => [state = "CLOSED" /\ state' # "CLOSED" => Opens]_vars
  <2> SUFFICES ASSUME GpsInv, [GpsNext]_gvars, state = "CLOSED", state' # "CLOSED"
               PROVE  Opens
    OBVIOUS
  <2> USE GpsAssumption DEF GpsInv, Turns, vars, control, MainCloses
  <2>1. CASE MainBegins \/ MainGoesOn
    BY <2>1 DEF MainBegins, MainGoesOn, StartOpen, StartRegister, StartThread, Close,
                StartThreadFails, StopEnter, StopJoin, StopClose, StopUnregister
  <2>2. CASE WorkerStep
    BY <2>2 DEF WorkerStep, WorkerLoop, WorkerBeatError, WorkerBeatIdle, WorkerCheck,
                WorkerBeatSilent, WorkerOther, WorkerReconnect, WorkerReopenOk,
                WorkerReopenFails, WorkerRead, WorkerReadEnds, WorkerGga
  <2>3. CASE RtcmDispatch \/ RtcmStep \/ Tick
    BY <2>3 DEF RtcmDispatch, RtcmStep, RtcmGetState, RtcmWrite, RtcmWritten, Tick,
                WriteDone, WriteFails
  <2>4. CASE UNCHANGED gvars
    BY <2>4 DEF gvars
  <2> QED BY <2>1, <2>2, <2>3, <2>4 DEF GpsNext, AppCalls
<1> QED BY <1>1, GpsInvariance, PTL DEF GpsSpec, ClosedUntilOpened

-----------------------------------------------------------------------------
(***************************************************************************)
(* Heartbeats.  now - last_broadcast_time is never more than the time that *)
(* has really passed, so a packet that is due is due; it can wrap around,  *)
(* but not between the head of the loop and the heartbeats there.          *)
(***************************************************************************)
Paced == /\ now_age \in Ages /\ bcast_age \in Ages
         /\ now_bcast \in Ages \cup {Wrapped}
         /\ now_bcast <= bcast_age
         /\ wpc \in {"beat_error", "beat_idle"} => now_bcast >= HeartbeatInterval

LEMMA StepPaced ==
    ASSUME Paced, [GpsNext]_gvars
    PROVE  Paced'
<1> USE GpsAssumption
        DEF Paced, Ages, AgeLimit, Wrapped, Older, clocks, control, pcs, TakeNow, Due, Elapsed,
            Send, NowMinusClock, Extracted
<1>1. CASE MainBegins \/ MainGoesOn
  BY <1>1 DEF MainBegins, MainGoesOn, StartOpen, StartRegister, StartThread,
              StartThreadFails, StopEnter, StopJoin, StopClose, StopUnregister
<1>2. CASE WorkerLoop
  BY <1>2 DEF WorkerLoop
<1>3. CASE WorkerBeatError \/ WorkerBeatIdle \/ WorkerBeatSilent
           \/ \E gps_state \in {1, 2} : WorkerGga(gps_state)
  BY <1>3 DEF WorkerBeatError, WorkerBeatIdle, WorkerBeatSilent, WorkerGga
<1>4. CASE WorkerReconnect \/ WorkerReopenOk \/ WorkerReopenFails \/ WorkerCheck
           \/ WorkerRead \/ WorkerReadEnds \/ WorkerOther
  BY <1>4 DEF WorkerReconnect, WorkerReopenOk, WorkerReopenFails, WorkerCheck, WorkerRead,
              WorkerReadEnds, WorkerOther
<1>5. CASE RtcmDispatch \/ RtcmStep \/ AppCalls
  BY <1>5 DEF RtcmDispatch, RtcmStep, RtcmGetState, RtcmWrite, RtcmWritten, AppCalls
<1>6. CASE Tick
  BY <1>6 DEF Tick
<1>7. CASE UNCHANGED gvars
  BY <1>7 DEF gvars
<1> QED BY <1>1, <1>2, <1>3, <1>4, <1>5, <1>6, <1>7 DEF GpsNext, WorkerStep

\* Whoever else uses the port: a gps_state 0 packet is never sent sooner than
\* the interval after the packet before.
THEOREM GpsHeartbeatsSpaced == GpsSpec => HeartbeatsSpaced
<1>1. GpsInit => Paced
  BY GpsAssumption DEF GpsInit, Paced, Ages, AgeLimit
<1>2. Paced /\ [GpsNext]_gvars => Paced'
  BY StepPaced
<1>3. Paced /\ [GpsNext]_gvars
        => [WorkerBeatError \/ WorkerBeatIdle => bcast_age >= HeartbeatInterval]_gvars
  BY GpsAssumption DEF Paced, Ages, AgeLimit, Wrapped, WorkerBeatError, WorkerBeatIdle
<1> QED BY <1>1, <1>2, <1>3, PTL DEF GpsSpec, HeartbeatsSpaced

-----------------------------------------------------------------------------
(* Types of the whole service.                                             *)
HIDE DEF Calls, In, Goto, Usable, Begin, ReadBegin, WriteBegin, End, Lowest, Allocated, Closed,
         States, port, threads

LEMMA StepTypes ==
    ASSUME GpsTypeOK, [GpsNext]_gvars
    PROVE  GpsTypeOK'
<1> USE GpsAssumption
        DEF GpsTypeOK, Ages, AgeLimit, Wrapped, NoPacket, Older, clocks, control, pcs, TakeNow,
            Send, NowMinusClock, Extracted
<1>0. TypeOK'
  <2>1. CASE UNCHANGED gvars
    BY <2>1, TypeStep DEF gvars
  <2> QED BY <2>1, MainUsesSerial, WorkerUsesSerial, OthersUseSerial, TypeStep DEF GpsNext
<1> HIDE DEF TypeOK
<1>1. CASE MainBegins \/ MainGoesOn
  <2>1. CASE StartOpen
    BY <1>0, <2>1 DEF StartOpen
  <2>2. CASE StartRegister
    BY <1>0, <2>2 DEF StartRegister
  <2>3. CASE StartThread
    BY <1>0, <2>3 DEF StartThread
  <2>4. CASE StartThreadFails
    BY <1>0, <2>4 DEF StartThreadFails
  <2>5. CASE StopEnter
    BY <1>0, <2>5 DEF StopEnter
  <2>6. CASE StopJoin
    BY <1>0, <2>6 DEF StopJoin
  <2>7. CASE StopClose
    BY <1>0, <2>7 DEF StopClose
  <2>8. CASE StopUnregister
    BY <1>0, <2>8 DEF StopUnregister
  <2> QED BY <1>1, <2>1, <2>2, <2>3, <2>4, <2>5, <2>6, <2>7, <2>8
          DEF MainBegins, MainGoesOn
<1>2. CASE WorkerLoop \/ WorkerCheck \/ WorkerOther
  BY <1>0, <1>2 DEF WorkerLoop, WorkerCheck, WorkerOther
<1>3. CASE WorkerBeatError \/ WorkerBeatIdle \/ WorkerBeatSilent
  BY <1>0, <1>3 DEF WorkerBeatError, WorkerBeatIdle, WorkerBeatSilent
<1>4. CASE WorkerReconnect \/ WorkerReopenOk \/ WorkerReopenFails
  BY <1>0, <1>4 DEF WorkerReconnect, WorkerReopenOk, WorkerReopenFails
<1>5. CASE WorkerRead \/ WorkerReadEnds
  BY <1>0, <1>5 DEF WorkerRead, WorkerReadEnds
<1>6. ASSUME NEW gps_state \in {1, 2}, WorkerGga(gps_state) PROVE GpsTypeOK'
  BY <1>0, <1>6 DEF WorkerGga
<1>7. CASE RtcmDispatch \/ RtcmStep \/ AppCalls \/ Tick
  BY <1>0, <1>7 DEF RtcmDispatch, RtcmStep, RtcmGetState, RtcmWrite, RtcmWritten, AppCalls, Tick
<1>8. CASE UNCHANGED gvars
  BY <1>0, <1>8 DEF gvars
<1> QED BY <1>1, <1>2, <1>3, <1>4, <1>5, <1>6, <1>7, <1>8 DEF GpsNext, WorkerStep

\* Whoever else uses the port: every variable keeps its type, the counters of
\* errors and reconnects their limits, and the differences of times are ages
\* or have wrapped around.
THEOREM GpsTypes == GpsSpec => []GpsTypeOK
<1>1. GpsInit => GpsTypeOK
  <2> SUFFICES ASSUME GpsInit PROVE GpsTypeOK
    OBVIOUS
  <2>1. TypeOK
    BY InitSerial DEF GpsInit, Serial
  <2>2. 0 \in Ages /\ AgeLimit \in Ages
    BY GpsAssumption DEF Ages, AgeLimit
  <2> QED BY <2>1, <2>2 DEF GpsInit, GpsTypeOK
<1> QED BY <1>1, StepTypes, PTL DEF GpsSpec
=============================================================================
