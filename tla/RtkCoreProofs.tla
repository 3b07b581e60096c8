---------------------------- MODULE RtkCoreProofs ----------------------------
(***************************************************************************)
(* Machine-checked proofs about RtkCore: type correctness for every set of *)
(* callers and every use of the API, then, under the owner discipline of   *)
(* RtkCoreOwned, the inductive invariant IInv and what follows from it.    *)
(***************************************************************************)
EXTENDS RtkCoreOwned, TLAPS

-----------------------------------------------------------------------------
(* Type correctness                                                        *)

LEMMA Zeroes ==
    /\ 0 \in 0..MaxReconnects
    /\ 0 \in 0..TickErrorThreshold
    /\ \A n \in 0..MaxReconnects : n < MaxReconnects => n + 1 \in 0..MaxReconnects
    /\ \A n \in 0..TickErrorThreshold :
          ~(n >= TickErrorThreshold) => n + 1 \in 0..TickErrorThreshold
  BY CoreAssumption

TypeInv == TypeOK /\ NoTickPastThreshold

LEMMA InitTypeOK == Init => TypeInv
<1> SUFFICES ASSUME Init PROVE TypeInv
  OBVIOUS
<1>1. FlagsOK
  BY Zenon DEF Init, FlagsOK
<1>2. ControlOK
  BY DEF Init, ControlOK, States, CallerPCs, WorkerPCs
<1>3. CountersOK
  BY Zeroes, Zenon DEF Init, CountersOK
<1>4. NoTickPastThreshold
  BY DEF Init, NoTickPastThreshold, At
<1> QED
  BY <1>1, <1>2, <1>3, <1>4 DEF TypeInv, TypeOK

\* The flags stay Booleans.
LEMMA FlagsStep == FlagsOK /\ [Next]_vars => FlagsOK'
<1> USE DEF FlagsOK, lifecycle, flags, session, report, worker
<1>1. ASSUME FlagsOK, NEW c \in Callers,
             Begin(c) \/ Continue(c) \/ StopJoinUndefined(c)
      PROVE  FlagsOK'
  BY <1>1, Zenon
  DEF Begin, Continue, InitEnter, InitWipe, InitFill, StartWorker, StartFails, StartNotify,
      StopEnter, StopNotRunning, StopJoin, StopJoinUndefined, StopFinish, StopNotify,
      Deinit, DeinitRunning, DeinitFinish, Release, SetBroadcast
<1>2. ASSUME FlagsOK, NEW w \in Workers, Work(w) \/ SixentsStatus(w)
      PROVE  FlagsOK'
  BY <1>2, Zenon
  DEF Work, WorkerOuter, WorkerBackoff, WorkerConnect, WorkerNotifyConnecting,
      WorkerSdkInitOk, WorkerSdkInitFails, WorkerSdkStartOk, WorkerSdkStartFails,
      WorkerSetRunning, WorkerClearError, WorkerNotifyRunning, WorkerLoop, WorkerTickOk,
      WorkerTickFails, SixentsStatus, SixentsCleanup, WorkerCleanup, WorkerAgain,
      WorkerSetConnecting, WorkerExit
<1>3. FlagsOK /\ UNCHANGED vars => FlagsOK'
  BY Zenon DEF vars
<1> QED BY <1>1, <1>2, <1>3, Zenon DEF Next

\* Program counters, states and identities stay in their sets.
LEMMA ControlStep == ControlOK /\ [Next]_vars => ControlOK'
<1> USE DEF ControlOK, lifecycle, flags, session, report, app, worker, At, GotoW, Goto
<1>1. ASSUME ControlOK, NEW c \in Callers,
             Begin(c) \/ Continue(c) \/ StopJoinUndefined(c)
      PROVE  ControlOK'
  <2> USE <1>1 DEF States, CallerPCs
  <2>1. ASSUME NEW w \in Workers, StartWorker(c, w) PROVE ControlOK'
    BY <2>1 DEF StartWorker, WorkerPCs
  <2>2. CASE StopJoin(c)
    <3>1. wpc' \in [Workers -> WorkerPCs]
      BY <2>2 DEF StopJoin, WorkerPCs
    <3> QED BY <2>2, <3>1 DEF StopJoin
  <2>3. CASE InitEnter(c) \/ InitWipe(c) \/ InitFill(c)
    BY <2>3, CoreAssumption DEF InitEnter, InitWipe, InitFill
  <2>4. CASE StartFails(c) \/ StartNotify(c) \/ StopEnter(c) \/ StopNotRunning(c)
    BY <2>4 DEF StartFails, StartNotify, StopEnter, StopNotRunning
  <2>5. CASE StopJoinUndefined(c) \/ StopFinish(c) \/ StopNotify(c)
    BY <2>5 DEF StopJoinUndefined, StopFinish, StopNotify
  <2>6. CASE Deinit(c) \/ DeinitRunning(c) \/ DeinitFinish(c)
    BY <2>6 DEF Deinit, DeinitRunning, DeinitFinish, Release
  <2>7. ASSUME NEW on \in BOOLEAN, SetBroadcast(c, on) PROVE ControlOK'
    BY <2>7 DEF SetBroadcast
  <2> QED
    BY <2>1, <2>2, <2>3, <2>4, <2>5, <2>6, <2>7 DEF Begin, Continue
<1>2. ASSUME ControlOK, NEW w \in Workers, Work(w) \/ SixentsStatus(w)
      PROVE  ControlOK'
  <2>1. wpc' \in [Workers -> WorkerPCs]
    <3> USE DEF WorkerPCs
    <3>1. CASE SixentsStatus(w)
      BY <1>2, <3>1 DEF SixentsStatus
    <3>2. CASE WorkerOuter(w) \/ WorkerBackoff(w) \/ WorkerConnect(w)
      BY <1>2, <3>2 DEF WorkerOuter, WorkerBackoff, WorkerConnect
    <3>3. CASE \/ WorkerNotifyConnecting(w) \/ WorkerSdkInitOk(w) \/ WorkerSdkInitFails(w)
               \/ WorkerSdkStartOk(w) \/ WorkerSdkStartFails(w)
      BY <1>2, <3>3
      DEF WorkerNotifyConnecting, WorkerSdkInitOk, WorkerSdkInitFails, WorkerSdkStartOk,
          WorkerSdkStartFails
    <3>4. CASE \/ WorkerSetRunning(w) \/ WorkerClearError(w) \/ WorkerNotifyRunning(w)
               \/ WorkerLoop(w)
      BY <1>2, <3>4 DEF WorkerSetRunning, WorkerClearError, WorkerNotifyRunning, WorkerLoop
    <3>5. CASE WorkerTickOk(w) \/ WorkerTickFails(w) \/ WorkerCleanup(w)
      BY <1>2, <3>5 DEF WorkerTickOk, WorkerTickFails, WorkerCleanup
    <3>6. CASE WorkerAgain(w) \/ WorkerSetConnecting(w) \/ WorkerExit(w)
      BY <1>2, <3>6 DEF WorkerAgain, WorkerSetConnecting, WorkerExit
    <3> QED BY <1>2, <3>1, <3>2, <3>3, <3>4, <3>5, <3>6 DEF Work
  <2>2. /\ state' \in States /\ notified' \in States \cup {"nothing"}
        /\ sdk' \in {"final", "init", "started"}
        /\ UNCHANGED <<state_mutex, worker_thread, app>>
    BY <1>2
    DEF Work, WorkerOuter, WorkerBackoff, WorkerConnect, WorkerNotifyConnecting,
        WorkerSdkInitOk, WorkerSdkInitFails, WorkerSdkStartOk, WorkerSdkStartFails,
        WorkerSetRunning, WorkerClearError, WorkerNotifyRunning, WorkerLoop, WorkerTickOk,
        WorkerTickFails, SixentsStatus, SixentsCleanup, WorkerCleanup, WorkerAgain,
        WorkerSetConnecting, WorkerExit, States
  <2> QED BY <1>2, <2>1, <2>2
<1>3. ControlOK /\ UNCHANGED vars => ControlOK'
  BY DEF vars
<1> QED BY <1>1, <1>2, <1>3 DEF Next

\* The counters stay within their bounds, and no thread is about to tick with
\* tick_error_count at the threshold.
LEMMA CountersStep ==
    CountersOK /\ wpc \in [Workers -> WorkerPCs] /\ NoTickPastThreshold /\ [Next]_vars
        => CountersOK' /\ NoTickPastThreshold'
<1> DEFINE Inv == CountersOK /\ wpc \in [Workers -> WorkerPCs] /\ NoTickPastThreshold
           Goal == CountersOK' /\ NoTickPastThreshold'
<1> USE DEF CountersOK, NoTickPastThreshold, need_reconnect, lifecycle, flags, session,
            report, app, worker, At, GotoW
<1>1. ASSUME Inv, NEW c \in Callers, Begin(c) \/ Continue(c) \/ StopJoinUndefined(c)
      PROVE  Goal
  <2>1. ASSUME NEW w \in Workers, StartWorker(c, w) PROVE Goal
    BY <1>1, <2>1, Zeroes DEF StartWorker
  <2>2. CASE StopJoin(c)
    BY <1>1, <2>2 DEF StopJoin
  <2>3. ASSUME UNCHANGED worker PROVE Goal
    BY <1>1, <2>3
  <2> QED
    BY <1>1, <2>1, <2>2, <2>3
    DEF Begin, Continue, InitEnter, InitWipe, InitFill, StartFails, StartNotify,
        StopEnter, StopNotRunning, StopJoinUndefined, StopFinish, StopNotify,
        Deinit, DeinitRunning, DeinitFinish, SetBroadcast
<1>2. ASSUME Inv, NEW w \in Workers, Work(w) \/ SixentsStatus(w)
      PROVE  Goal
  <2>1. ASSUME CountReconnect(w), NEW l \in {"outer", "loop"}, GotoW(w, l),
               UNCHANGED tick_error_count
        PROVE  Goal
    BY <1>2, <2>1, Zeroes DEF CountReconnect
  <2>2. CASE WorkerSdkInitFails(w) \/ WorkerSdkStartFails(w)
    BY <2>1, <2>2 DEF WorkerSdkInitFails, WorkerSdkStartFails
  <2>3. CASE WorkerSdkStartOk(w)
    BY <1>2, <2>3, Zeroes DEF WorkerSdkStartOk
  <2>4. CASE WorkerNotifyRunning(w) \/ WorkerTickOk(w)
    BY <1>2, <2>4, Zeroes DEF WorkerNotifyRunning, WorkerTickOk
  <2>5. CASE WorkerTickFails(w)
    BY <1>2, <2>5, Zeroes DEF WorkerTickFails, CountReconnect
  <2>6. CASE WorkerLoop(w)
    BY <1>2, <2>6 DEF WorkerLoop
  <2>7. CASE SixentsStatus(w)
    BY <1>2, <2>7 DEF SixentsStatus
  <2>8. CASE \/ WorkerOuter(w) \/ WorkerBackoff(w) \/ WorkerConnect(w)
             \/ WorkerNotifyConnecting(w) \/ WorkerSdkInitOk(w) \/ WorkerSetRunning(w)
             \/ WorkerClearError(w) \/ WorkerCleanup(w) \/ WorkerAgain(w)
             \/ WorkerSetConnecting(w) \/ WorkerExit(w)
    BY <1>2, <2>8
    DEF WorkerOuter, WorkerBackoff, WorkerConnect, WorkerNotifyConnecting, WorkerSdkInitOk,
        WorkerSetRunning, WorkerClearError, WorkerCleanup, WorkerAgain,
        WorkerSetConnecting, WorkerExit
  <2> QED
    BY <1>2, <2>2, <2>3, <2>4, <2>5, <2>6, <2>7, <2>8 DEF Work
<1>3. Inv /\ UNCHANGED vars => Goal
  BY DEF vars
<1> QED BY <1>1, <1>2, <1>3 DEF Next

\* Every variable of the program keeps its type, whoever calls what when; in
\* particular tick_error_count never passes the threshold.
THEOREM TypeCorrect == Spec => [](TypeOK /\ NoTickPastThreshold)
<1>1. TypeInv /\ [Next]_vars => TypeInv'
  BY FlagsStep, ControlStep, CountersStep DEF TypeInv, TypeOK, ControlOK
<1> QED BY InitTypeOK, <1>1, PTL DEF Spec, TypeInv

-----------------------------------------------------------------------------
(* The owner discipline                                                    *)

LEMMA InitIInv == Init => IInv
<1> SUFFICES ASSUME Init PROVE IInv
  OBVIOUS
<1>1. Turns
  BY OwnerAssumption, CoreAssumption DEF Init, Turns, InStop
<1>2. OneWorker
  BY DEF Init, OneWorker, Exists, At
<1>3. Phase
  BY DEF Init, Phase, PhaseOf, BeforeInit, Connected, Closing, Leaving, At
<1>4. Reports
  BY DEF Init, Reports, RetryingShowsReason, BeforeInit, At
<1> QED
  BY InitTypeOK, <1>1, <1>2, <1>3, <1>4 DEF IInv, TypeInv

\* What a step of a worker thread leaves alone.
LEMMA WorkerFrame ==
    ASSUME NEW w \in Workers, Work(w) \/ SixentsStatus(w)
    PROVE  UNCHANGED <<state_mutex, initialized, running, worker_running, worker_thread,
                       broadcast_enabled, pc, in_deinit>>
  BY Zenon
  DEF Work, WorkerOuter, WorkerBackoff, WorkerConnect, WorkerNotifyConnecting,
      WorkerSdkInitOk, WorkerSdkInitFails, WorkerSdkStartOk, WorkerSdkStartFails,
      WorkerSetRunning, WorkerClearError, WorkerNotifyRunning, WorkerLoop, WorkerTickOk,
      WorkerTickFails, SixentsStatus, WorkerCleanup, WorkerAgain, WorkerSetConnecting,
      WorkerExit, lifecycle, app

LEMMA TurnsStep == IInv /\ [Next]_vars => Turns'
<1> SUFFICES ASSUME IInv, [Next]_vars PROVE Turns'
  OBVIOUS
<1> USE OwnerAssumption, CoreAssumption DEF Turns, InStop
<1>0. Turns /\ FlagsOK /\ pc \in [Callers -> CallerPCs] /\ in_deinit \in SUBSET Callers
  BY DEF IInv, TypeOK, ControlOK
<1> USE <1>0
<1>1. ASSUME NEW c \in Callers, Begin(c) PROVE Turns'
  <2> USE DEF Calls, CanLock, Goto, lifecycle, app
  <2>1. CASE InitEnter(c) BY <2>1 DEF InitEnter
  <2>2. ASSUME NEW w \in Workers, StartWorker(c, w) PROVE Turns'
    BY <2>2 DEF StartWorker
  <2>3. CASE StartFails(c) BY <2>3 DEF StartFails
  <2>4. CASE pc[c] = "idle" /\ StopEnter(c) BY <2>4 DEF StopEnter, EntersStop
  <2>5. CASE Deinit(c) BY <2>5 DEF Deinit, Release
  <2>6. CASE DeinitRunning(c) BY <2>6 DEF DeinitRunning
  <2>7. ASSUME NEW on \in BOOLEAN, SetBroadcast(c, on) PROVE Turns'
    BY <2>7 DEF SetBroadcast
  <2> QED BY <1>1, <2>1, <2>2, <2>3, <2>4, <2>5, <2>6, <2>7 DEF Begin
<1>2. ASSUME NEW c \in Callers, Continue(c) \/ StopJoinUndefined(c) PROVE Turns'
  <2> USE DEF CanLock, Goto, lifecycle, app
  <2>1. CASE InitWipe(c) BY <2>1 DEF InitWipe
  <2>2. CASE InitFill(c) BY <2>2 DEF InitFill
  <2>3. CASE StartNotify(c) BY <2>3 DEF StartNotify
  <2>4. CASE pc[c] = "stop_enter" /\ StopEnter(c) BY <2>4 DEF StopEnter
  <2>5. CASE StopNotRunning(c) BY <2>5 DEF StopNotRunning
  <2>6. CASE StopJoin(c) BY <2>6 DEF StopJoin
  <2>7. CASE StopJoinUndefined(c) BY <2>7 DEF StopJoinUndefined, UndefinedJoin
  <2>8. CASE StopFinish(c) BY <2>8 DEF StopFinish
  <2>9. CASE StopNotify(c) BY <2>9 DEF StopNotify
  <2>10. CASE DeinitFinish(c) BY <2>10 DEF DeinitFinish, Release
  <2> QED
    BY <1>2, <2>1, <2>2, <2>3, <2>4, <2>5, <2>6, <2>7, <2>8, <2>9, <2>10 DEF Continue
<1>3. ASSUME NEW w \in Workers, Work(w) \/ SixentsStatus(w) PROVE Turns'
  BY <1>3, WorkerFrame
<1>4. CASE UNCHANGED vars
  BY <1>4 DEF vars, lifecycle, app
<1> QED BY <1>1, <1>2, <1>3, <1>4 DEF Next

\* A worker thread moves only itself, and neither begins nor ends to exist.
LEMMA WorkerMovesItself ==
    ASSUME wpc \in [Workers -> WorkerPCs],
           NEW w \in Workers, Work(w) \/ SixentsStatus(w)
    PROVE  /\ Exists(w) /\ Exists(w)'
           /\ \A v \in Workers \ {w} : wpc'[v] = wpc[v]
           /\ \A v \in Workers : Exists(v)' <=> Exists(v)
<1> USE DEF At, GotoW, Exists, worker
<1>1. CASE WorkerOuter(w) BY <1>1 DEF WorkerOuter
<1>2. CASE WorkerBackoff(w) \/ WorkerConnect(w) \/ WorkerNotifyConnecting(w)
  BY <1>2 DEF WorkerBackoff, WorkerConnect, WorkerNotifyConnecting
<1>3. CASE \/ WorkerSdkInitOk(w) \/ WorkerSdkInitFails(w)
           \/ WorkerSdkStartOk(w) \/ WorkerSdkStartFails(w)
  BY <1>3 DEF WorkerSdkInitOk, WorkerSdkInitFails, WorkerSdkStartOk, WorkerSdkStartFails
<1>4. CASE \/ WorkerSetRunning(w) \/ WorkerClearError(w)
           \/ WorkerNotifyRunning(w) \/ WorkerLoop(w)
  BY <1>4 DEF WorkerSetRunning, WorkerClearError, WorkerNotifyRunning, WorkerLoop
<1>5. CASE WorkerTickOk(w) \/ WorkerTickFails(w) \/ SixentsStatus(w)
  BY <1>5 DEF WorkerTickOk, WorkerTickFails, SixentsStatus
<1>6. CASE \/ WorkerCleanup(w) \/ WorkerAgain(w)
           \/ WorkerSetConnecting(w) \/ WorkerExit(w)
  BY <1>6 DEF WorkerCleanup, WorkerAgain, WorkerSetConnecting, WorkerExit
<1> QED BY <1>1, <1>2, <1>3, <1>4, <1>5, <1>6 DEF Work

\* Only start and the join inside stop touch the worker threads.
LEMMA CallersLeaveWorkers ==
    ASSUME NEW c \in Callers,
           Begin(c) \/ Continue(c) \/ StopJoinUndefined(c)
    PROVE  \/ UNCHANGED worker
           \/ \E w \in Workers : StartWorker(c, w)
           \/ StopJoin(c)
  BY Zenon
  DEF Begin, Continue, InitEnter, InitWipe, InitFill, StartFails, StartNotify,
      StopEnter, StopNotRunning, StopJoinUndefined, StopFinish, StopNotify,
      Deinit, DeinitRunning, DeinitFinish, SetBroadcast, app

LEMMA OneWorkerStep == IInv /\ [Next]_vars => OneWorker'
<1> SUFFICES ASSUME IInv, [Next]_vars PROVE OneWorker'
  OBVIOUS
<1>0. /\ Turns /\ OneWorker /\ FlagsOK /\ Turns'
      /\ pc \in [Callers -> CallerPCs] /\ wpc \in [Workers -> WorkerPCs]
  BY TurnsStep DEF IInv, TypeOK, ControlOK
<1> USE <1>0, OwnerAssumption, CoreAssumption DEF OneWorker, Exists, At, Turns, InStop
<1>1. ASSUME NEW c \in Callers, Begin(c) PROVE OneWorker'
  <2> USE DEF Calls, CanLock, Goto, lifecycle, app, worker
  <2>1. CASE InitEnter(c) BY <2>1 DEF InitEnter
  <2>2. ASSUME NEW w \in Workers, StartWorker(c, w) PROVE OneWorker'
    BY <2>2 DEF StartWorker, GotoW
  <2>3. CASE StartFails(c) BY <2>3 DEF StartFails
  <2>4. CASE pc[c] = "idle" /\ StopEnter(c) BY <2>4 DEF StopEnter, EntersStop
  <2>5. CASE Deinit(c) BY <2>5 DEF Deinit, Release
  <2>6. CASE DeinitRunning(c) BY <2>6 DEF DeinitRunning
  <2>7. ASSUME NEW on \in BOOLEAN, SetBroadcast(c, on) PROVE OneWorker'
    BY <2>7 DEF SetBroadcast
  <2> QED BY <1>1, <2>1, <2>2, <2>3, <2>4, <2>5, <2>6, <2>7 DEF Begin
<1>2. ASSUME NEW c \in Callers, Continue(c) \/ StopJoinUndefined(c) PROVE OneWorker'
  <2> USE DEF CanLock, Goto, lifecycle, app, worker
  <2>1. CASE InitWipe(c) BY <2>1 DEF InitWipe
  <2>2. CASE InitFill(c) BY <2>2 DEF InitFill
  <2>3. CASE StartNotify(c) BY <2>3 DEF StartNotify
  <2>4. CASE pc[c] = "stop_enter" /\ StopEnter(c) BY <2>4 DEF StopEnter
  <2>5. CASE StopNotRunning(c) BY <2>5 DEF StopNotRunning
  <2>6. CASE StopJoin(c) BY <2>6 DEF StopJoin, GotoW
  <2>7. CASE StopJoinUndefined(c) BY <2>7 DEF StopJoinUndefined, UndefinedJoin
  <2>8. CASE StopFinish(c) BY <2>8 DEF StopFinish
  <2>9. CASE StopNotify(c) BY <2>9 DEF StopNotify
  <2>10. CASE DeinitFinish(c) BY <2>10 DEF DeinitFinish, Release
  <2> QED
    BY <1>2, <2>1, <2>2, <2>3, <2>4, <2>5, <2>6, <2>7, <2>8, <2>9, <2>10 DEF Continue
<1>3. ASSUME NEW w \in Workers, Work(w) \/ SixentsStatus(w) PROVE OneWorker'
  BY <1>3, WorkerFrame, WorkerMovesItself
<1>4. CASE UNCHANGED vars
  BY <1>4 DEF vars, lifecycle, app, worker
<1> QED BY <1>1, <1>2, <1>3, <1>4 DEF Next

\* What the calls of an application thread do to the session and the reports:
\* only the wipe of rtk_sdk_init touches them, only start sets worker_running.
LEMMA CallersLeaveSession ==
    ASSUME NEW c \in Callers,
           Begin(c) \/ Continue(c) \/ StopJoinUndefined(c)
    PROVE  /\ UNCHANGED sdk
           /\ InitWipe(c) \/ UNCHANGED <<sixents_init, sixents_started, last_error>>
           /\ (\E w \in Workers : StartWorker(c, w)) \/ (worker_running' => worker_running)
           /\ (\E w \in Workers : StartWorker(c, w)) \/ state' # "RUNNING" \/ state' = state
<1> USE DEF Begin, Continue, InitEnter, InitFill, StartFails, StartNotify, StopEnter,
            StopNotRunning, StopJoin, StopJoinUndefined, StopFinish, StopNotify, Deinit,
            DeinitRunning, DeinitFinish, Release, SetBroadcast, session, flags, lifecycle,
            report
<1>1. UNCHANGED sdk
  BY Zenon DEF InitWipe, StartWorker
<1>2. InitWipe(c) \/ UNCHANGED <<sixents_init, sixents_started, last_error>>
  BY Zenon DEF StartWorker
<1>3. (\E w \in Workers : StartWorker(c, w)) \/ (worker_running' => worker_running)
  BY Zenon DEF InitWipe
<1>4. (\E w \in Workers : StartWorker(c, w)) \/ state' # "RUNNING" \/ state' = state
  BY DEF InitWipe
<1> QED BY <1>1, <1>2, <1>3, <1>4

\* Under the discipline a worker that takes a step is the only one.
LEMMA OnlyWorker ==
    ASSUME TypeOK, OneWorker, NEW w \in Workers, Work(w) \/ SixentsStatus(w)
    PROVE  \A v \in Workers \ {w} : wpc[v] = "none" /\ wpc'[v] = "none"
  BY WorkerMovesItself DEF OneWorker, Exists, At, TypeOK, ControlOK

LEMMA PhaseStep == IInv /\ [Next]_vars => Phase'
<1> SUFFICES ASSUME IInv, [Next]_vars PROVE Phase'
  OBVIOUS
<1>0. /\ Turns /\ OneWorker /\ OneWorker' /\ Phase /\ FlagsOK /\ NoTickPastThreshold
      /\ pc \in [Callers -> CallerPCs] /\ wpc \in [Workers -> WorkerPCs]
  BY OneWorkerStep DEF IInv, TypeOK, ControlOK
<1> USE <1>0 DEF Phase, PhaseOf, BeforeInit, Connected, Closing, Leaving, Exists, At,
                 need_reconnect
<1>1. ASSUME NEW c \in Callers, Begin(c) \/ Continue(c) \/ StopJoinUndefined(c)
      PROVE  Phase'
  <2>1. ASSUME NEW w \in Workers, StartWorker(c, w) PROVE Phase'
    BY <2>1 DEF StartWorker, GotoW, OneWorker, session, flags
  <2>2. CASE StopJoin(c)
    BY <2>2 DEF StopJoin, GotoW, OneWorker, session, flags, lifecycle
  <2>3. CASE InitWipe(c)
    BY <2>3, OwnerAssumption DEF InitWipe, OneWorker, Turns, worker
  <2>4. CASE /\ UNCHANGED worker /\ ~InitWipe(c)
             /\ ~\E w \in Workers : StartWorker(c, w)
    BY <1>1, <2>4, CallersLeaveSession DEF worker
  <2> QED BY <1>1, <2>1, <2>2, <2>3, <2>4, CallersLeaveWorkers
<1>2. ASSUME NEW w \in Workers, Work(w) \/ SixentsStatus(w) PROVE Phase'
  <2>1. /\ \A v \in Workers \ {w} : wpc'[v] = "none"
        /\ wpc'[w] # "none" /\ UNCHANGED worker_running
    BY <1>2, OnlyWorker, WorkerMovesItself, WorkerFrame DEF IInv
  <2>2. SUFFICES PhaseOf(w)'
    BY <2>1
  <2> USE DEF GotoW, session, flags, SixentsCleanup, worker
  <2>3. CASE WorkerOuter(w)   BY <2>1, <2>3 DEF WorkerOuter
  <2>4. CASE WorkerBackoff(w) BY <2>1, <2>4 DEF WorkerBackoff
  <2>5. CASE WorkerConnect(w) BY <2>1, <2>5 DEF WorkerConnect
  <2>6. CASE WorkerNotifyConnecting(w) BY <2>1, <2>6 DEF WorkerNotifyConnecting
  <2>7. CASE WorkerSdkInitOk(w)     BY <2>1, <2>7 DEF WorkerSdkInitOk
  <2>8. CASE WorkerSdkInitFails(w)  BY <2>1, <2>8 DEF WorkerSdkInitFails
  <2>9. CASE WorkerSdkStartOk(w)    BY <2>1, <2>9 DEF WorkerSdkStartOk
  <2>10. CASE WorkerSdkStartFails(w) BY <2>1, <2>10 DEF WorkerSdkStartFails
  <2>11. CASE WorkerSetRunning(w)   BY <2>1, <2>11 DEF WorkerSetRunning
  <2>12. CASE WorkerClearError(w)   BY <2>1, <2>12 DEF WorkerClearError
  <2>13. CASE WorkerNotifyRunning(w) BY <2>1, <2>13 DEF WorkerNotifyRunning
  <2>14. CASE WorkerLoop(w)    BY <2>1, <2>14 DEF WorkerLoop
  <2>15. CASE WorkerTickOk(w)  BY <2>1, <2>15 DEF WorkerTickOk
  <2>16. CASE WorkerTickFails(w) BY <2>1, <2>16 DEF WorkerTickFails
  <2>17. CASE SixentsStatus(w) BY <2>1, <2>17 DEF SixentsStatus
  <2>18. CASE WorkerCleanup(w) BY <2>1, <2>18 DEF WorkerCleanup
  <2>19. CASE WorkerAgain(w)   BY <2>1, <2>19 DEF WorkerAgain
  <2>20. CASE WorkerSetConnecting(w) BY <2>1, <2>20 DEF WorkerSetConnecting
  <2>21. CASE WorkerExit(w)    BY <2>1, <2>21 DEF WorkerExit
  <2> QED
    BY <1>2, <2>3, <2>4, <2>5, <2>6, <2>7, <2>8, <2>9, <2>10, <2>11, <2>12, <2>13, <2>14,
       <2>15, <2>16, <2>17, <2>18, <2>19, <2>20, <2>21
    DEF Work
<1>3. CASE UNCHANGED vars
  BY <1>3 DEF vars, lifecycle, session, flags, worker
<1> QED BY <1>1, <1>2, <1>3 DEF Next

LEMMA ReportsStep == IInv /\ [Next]_vars => Reports'
<1> SUFFICES ASSUME IInv, [Next]_vars PROVE Reports'
  OBVIOUS
<1>0. /\ Turns /\ OneWorker /\ Phase /\ Reports /\ FlagsOK /\ NoTickPastThreshold
      /\ pc \in [Callers -> CallerPCs] /\ wpc \in [Workers -> WorkerPCs] /\ CountersOK
  BY DEF IInv, TypeOK, ControlOK
<1> USE <1>0 DEF Reports, RetryingShowsReason, BeforeInit, Exists, At, need_reconnect
<1>1. ASSUME NEW c \in Callers, Begin(c) \/ Continue(c) \/ StopJoinUndefined(c)
      PROVE  Reports'
  <2>1. ASSUME NEW w \in Workers, StartWorker(c, w) PROVE Reports'
    BY <2>1 DEF StartWorker, GotoW, OneWorker, report, CountersOK
  <2>2. CASE StopJoin(c)
    BY <2>2 DEF StopJoin, GotoW, report, lifecycle
  <2>3. CASE InitWipe(c)
    BY <2>3, OwnerAssumption DEF InitWipe, OneWorker, Turns, worker
  <2>4. CASE /\ UNCHANGED worker /\ ~InitWipe(c)
             /\ ~\E w \in Workers : StartWorker(c, w)
    BY <1>1, <2>4, CallersLeaveSession DEF worker
  <2> QED BY <1>1, <2>1, <2>2, <2>3, <2>4, CallersLeaveWorkers
<1>2. ASSUME NEW w \in Workers, Work(w) \/ SixentsStatus(w) PROVE Reports'
  <2>1. /\ \A v \in Workers \ {w} : wpc'[v] = "none"
        /\ UNCHANGED worker_running
    BY <1>2, OnlyWorker, WorkerFrame DEF IInv
  <2> USE <2>1 DEF GotoW, report, worker, lifecycle, CountersOK
  <2>3. CASE WorkerOuter(w)   BY <2>3 DEF WorkerOuter
  <2>4. CASE WorkerBackoff(w) BY <2>4 DEF WorkerBackoff
  <2>5. CASE WorkerConnect(w) BY <2>5 DEF WorkerConnect
  <2>6. CASE WorkerNotifyConnecting(w) BY <2>6 DEF WorkerNotifyConnecting
  <2>7. CASE WorkerSdkInitOk(w)     BY <2>7 DEF WorkerSdkInitOk
  <2>8. CASE WorkerSdkInitFails(w)  BY <2>8 DEF WorkerSdkInitFails
  <2>9. CASE WorkerSdkStartOk(w)    BY <2>9 DEF WorkerSdkStartOk
  <2>10. CASE WorkerSdkStartFails(w) BY <2>10 DEF WorkerSdkStartFails
  <2>11. CASE WorkerSetRunning(w)   BY <2>11 DEF WorkerSetRunning
  <2>12. CASE WorkerClearError(w)   BY <2>12 DEF WorkerClearError
  <2>13. CASE WorkerNotifyRunning(w) BY <2>13 DEF WorkerNotifyRunning
  <2>14. CASE WorkerLoop(w)    BY <2>14 DEF WorkerLoop
  <2>15. CASE WorkerTickOk(w)  BY <2>15 DEF WorkerTickOk
  <2>16. CASE WorkerTickFails(w)
    <3>1. wpc'[w] = "loop" /\ reconnect_count[w] = 0
      BY <2>16 DEF WorkerTickFails
    <3>2. CASE need_reconnect(w)'
      <4>1. last_error'
        BY <2>16, <3>2, Zenon DEF WorkerTickFails
      <4> QED BY <2>1, <3>1, <3>2, <4>1
    <3>3. CASE ~need_reconnect(w)'
      <4>1. UNCHANGED reconnect_count
        BY <2>16, <3>3, Zenon DEF WorkerTickFails
      <4> QED BY <2>1, <3>1, <4>1
    <3> QED BY <3>2, <3>3
  <2>17. CASE SixentsStatus(w)
    <3>1. last_error => last_error'
      BY <2>17, Zenon DEF SixentsStatus
    <3> QED BY <2>17, <3>1 DEF SixentsStatus
  <2>18. CASE WorkerCleanup(w) BY <2>18 DEF WorkerCleanup
  <2>19. CASE WorkerAgain(w)   BY <2>19 DEF WorkerAgain, Phase, PhaseOf
  <2>20. CASE WorkerSetConnecting(w) BY <2>20 DEF WorkerSetConnecting
  <2>21. CASE WorkerExit(w)    BY <2>21 DEF WorkerExit
  <2> QED
    BY <1>2, <2>3, <2>4, <2>5, <2>6, <2>7, <2>8, <2>9, <2>10, <2>11, <2>12, <2>13, <2>14,
       <2>15, <2>16, <2>17, <2>18, <2>19, <2>20, <2>21
    DEF Work
<1>3. CASE UNCHANGED vars
  BY <1>3 DEF vars, lifecycle, report, worker
<1> QED BY <1>1, <1>2, <1>3 DEF Next

\* The owner discipline keeps the inductive invariant.
THEOREM Invariance == Spec => []IInv
<1>1. IInv /\ [Next]_vars => IInv'
  <2>1. IInv /\ [Next]_vars => (TypeOK /\ NoTickPastThreshold)'
    BY FlagsStep, ControlStep, CountersStep DEF IInv, TypeOK, ControlOK
  <2> QED BY <2>1, TurnsStep, OneWorkerStep, PhaseStep, ReportsStep DEF IInv
<1> QED BY InitIInv, <1>1, PTL DEF Spec

\* Every Sixents call is made in the phase the library is in.
THEOREM SixentsProtocol == Spec => []SdkCallsInOrder
<1>1. IInv => SdkCallsInOrder
  BY DEF IInv, Phase, PhaseOf, SdkCallsInOrder, BeforeInit, Connected, At
<1> QED BY Invariance, <1>1, PTL

\* When running is clear, the thread and its session are gone.
THEOREM StopWaits == Spec => []StoppedMeansGone
<1>1. IInv => StoppedMeansGone
  BY DEF IInv, OneWorker, Phase, StoppedMeansGone
<1> QED BY Invariance, <1>1, PTL

\* pthread_join is never called twice on a thread, nor on none.
THEOREM JoinSafety == Spec => []JoinsAreDefined
<1>1. IInv => JoinsAreDefined
  BY OwnerAssumption, CoreAssumption
  DEF IInv, Turns, OneWorker, InStop, Exists, At, JoinsAreDefined, UndefinedJoin
<1> QED BY Invariance, <1>1, PTL

\* Only deinit clears initialized, and it finds the service stopped.
LEMMA OnlyDeinitClears ==
    ASSUME IInv, Next, initialized, ~initialized'
    PROVE  ~running /\ Release /\ UNCHANGED <<session, worker>>
<1>0. Turns /\ FlagsOK /\ pc \in [Callers -> CallerPCs]
  BY DEF IInv, TypeOK, ControlOK
<1>1. ASSUME NEW w \in Workers, Work(w) \/ SixentsStatus(w) PROVE FALSE
  BY <1>1, WorkerFrame
<1>2. PICK c \in Callers : Begin(c) \/ Continue(c) \/ StopJoinUndefined(c)
  BY <1>1 DEF Next
<1>3. ~InitWipe(c)
  BY <1>0, OwnerAssumption DEF InitWipe, Turns
<1>4. Deinit(c) \/ DeinitFinish(c)
  BY <1>0, <1>2, <1>3, Zenon
  DEF Begin, Continue, InitEnter, InitFill, StartWorker, StartFails, StartNotify,
      StopEnter, StopNotRunning, StopJoin, StopJoinUndefined, StopFinish, StopNotify,
      DeinitRunning, SetBroadcast, lifecycle
<1>5. CASE Deinit(c)
  BY <1>5 DEF Deinit
<1>6. CASE DeinitFinish(c)
  <2>1. c = Owner
    BY <1>0, <1>6 DEF DeinitFinish, Turns
  <2> QED BY <1>0, <1>6, <2>1 DEF DeinitFinish, Turns
<1> QED BY <1>4, <1>5, <1>6

\* Deinit leaves no thread and no session behind, and the broadcast off.
THEOREM DeinitReleases == Spec => DeinitReleasesAll
<1>1. IInv /\ [Next]_vars =>
        [initialized /\ ~initialized' =>
            /\ \A w \in Workers : At(w, "none")'
            /\ sdk' = "final"
            /\ ~broadcast_enabled']_vars
  <2> SUFFICES ASSUME IInv, Next, initialized, ~initialized'
               PROVE  /\ \A w \in Workers : At(w, "none")'
                      /\ sdk' = "final"
                      /\ ~broadcast_enabled'
    OBVIOUS
  <2>1. ~running /\ Release /\ UNCHANGED <<session, worker>>
    BY OnlyDeinitClears
  <2>2. (\A w \in Workers : At(w, "none")) /\ sdk = "final"
    BY <2>1 DEF IInv, OneWorker, Phase, Exists
  <2> QED BY <2>1, <2>2 DEF Release, session, worker, At
<1> QED BY Invariance, <1>1, PTL DEF Spec, DeinitReleasesAll

\* A receiver never sees a service that is retrying without a reason.
THEOREM RetryReason == Spec => []RetryingShowsReason
<1>1. IInv => RetryingShowsReason
  BY DEF IInv, Reports
<1> QED BY Invariance, <1>1, PTL

\* RUNNING is shown over a started session only.
THEOREM RunningIsConnected == Spec => []RunningMeansConnected
<1>1. IInv => RunningMeansConnected
  <2> SUFFICES ASSUME IInv, state = "RUNNING", worker_running
               PROVE  \/ sdk = "started"
                      \/ worker_thread \in Workers /\ wpc[worker_thread] \in Closing
    BY DEF RunningMeansConnected, Closing
  <2>1. worker_thread \in Workers /\ wpc[worker_thread] # "none"
    BY DEF IInv, Turns, InStop, OneWorker, Exists, At
  <2>2. wpc[worker_thread] \in WorkerPCs
    BY <2>1 DEF IInv, TypeOK, ControlOK
  <2>3. wpc[worker_thread] \in Connected \cup Closing
    BY <2>1, <2>2 DEF IInv, Phase, PhaseOf, Reports, WorkerPCs, BeforeInit, Connected,
                      Closing, Leaving, At
  <2> QED BY <2>1, <2>3 DEF IInv, Phase, PhaseOf
<1> QED BY Invariance, <1>1, PTL

\* The strengthening NoStatusAfterStop needs: the report of a start is made
\* while the service runs, that of a stop before the call returns.
Quiet ==
    Callers = {Owner} =>
        /\ pc[Owner] = "start_notify" => running
        /\ ~running /\ pc[Owner] # "stop_notify" => notified \in {"nothing", "INIT"}

LEMMA QuietStep == IInv /\ Quiet /\ [Next]_vars => Quiet'
<1> SUFFICES ASSUME IInv, Quiet, [Next]_vars, Callers = {Owner} PROVE Quiet'
  BY DEF Quiet
<1>0. Turns /\ OneWorker /\ pc \in [Callers -> CallerPCs] /\ running \in BOOLEAN
  BY DEF IInv, TypeOK, FlagsOK, ControlOK
<1>1. ASSUME NEW c \in Callers, Begin(c) PROVE Quiet'
  <2> USE <1>0 DEF Quiet, Turns, Calls, Goto, lifecycle, app, report
  <2>1. CASE InitEnter(c) BY <2>1 DEF InitEnter
  <2>2. ASSUME NEW w \in Workers, StartWorker(c, w) PROVE Quiet'
    BY <2>2 DEF StartWorker
  <2>3. CASE StartFails(c) BY <2>3 DEF StartFails
  <2>4. CASE pc[c] = "idle" /\ StopEnter(c) BY <2>4 DEF StopEnter
  <2>5. CASE Deinit(c) BY <2>5 DEF Deinit, Release
  <2>6. CASE DeinitRunning(c) BY <2>6 DEF DeinitRunning
  <2>7. ASSUME NEW on \in BOOLEAN, SetBroadcast(c, on) PROVE Quiet'
    BY <2>7 DEF SetBroadcast
  <2> QED BY <1>1, <2>1, <2>2, <2>3, <2>4, <2>5, <2>6, <2>7 DEF Begin
<1>2. ASSUME NEW c \in Callers, Continue(c) \/ StopJoinUndefined(c) PROVE Quiet'
  <2> USE <1>0 DEF Quiet, Turns, InStop, Goto, lifecycle, app, report
  <2>1. CASE InitWipe(c) \/ InitFill(c) BY <2>1 DEF InitWipe, InitFill
  <2>2. CASE StartNotify(c) BY <2>2 DEF StartNotify
  <2>3. CASE pc[c] = "stop_enter" /\ StopEnter(c) BY <2>3 DEF StopEnter
  <2>4. CASE StopNotRunning(c) BY <2>4 DEF StopNotRunning
  <2>5. CASE StopJoin(c) \/ StopJoinUndefined(c)
    BY <2>5 DEF StopJoin, StopJoinUndefined, UndefinedJoin
  <2>6. CASE StopFinish(c) \/ StopNotify(c) BY <2>6 DEF StopFinish, StopNotify
  <2>7. CASE DeinitFinish(c) BY <2>7 DEF DeinitFinish, Release
  <2> QED BY <1>2, <2>1, <2>2, <2>3, <2>4, <2>5, <2>6, <2>7 DEF Continue
<1>3. ASSUME NEW w \in Workers, Work(w) \/ SixentsStatus(w) PROVE Quiet'
  <2>1. running /\ UNCHANGED <<running, pc>>
    BY <1>0, <1>3, WorkerFrame, WorkerMovesItself DEF IInv, TypeOK, ControlOK, OneWorker
  <2> QED BY <2>1 DEF Quiet
<1>4. CASE UNCHANGED vars
  BY <1>4 DEF vars, lifecycle, app, report, Quiet
<1> QED BY <1>1, <1>2, <1>3, <1>4 DEF Next

\* With one caller the last status callback a stop leaves behind is INIT.
THEOREM StopIsLast == Spec => []NoStatusAfterStop
<1>1. Init => Quiet
  BY OwnerAssumption DEF Init, Quiet
<1>2. Quiet => NoStatusAfterStop
  BY DEF Quiet, NoStatusAfterStop
<1> QED BY Invariance, QuietStep, <1>1, <1>2, PTL DEF Spec

-----------------------------------------------------------------------------
(* The code implements the lifecycle contract (safety)                     *)

LEMMA CallersImplement ==
    ASSUME IInv, NEW c \in Callers, Begin(c) \/ Continue(c) \/ StopJoinUndefined(c)
    PROVE  [Abs!Next]_(Abs!vars)
<1>0. /\ Turns /\ OneWorker /\ Phase /\ FlagsOK
      /\ UNCHANGED sdk
  BY CallersLeaveSession DEF IInv, TypeOK
<1> USE <1>0, OwnerAssumption
    DEF phaseImpl, lifecycle, Abs!Next, Abs!vars, Abs!Move, Turns, InStop
<1>1. CASE InitEnter(c) BY <1>1 DEF InitEnter
<1>2. CASE InitWipe(c)  BY <1>2 DEF InitWipe
<1>3. CASE InitFill(c)  BY <1>3 DEF InitFill, Abs!Initialize
<1>4. ASSUME NEW w \in Workers, StartWorker(c, w) PROVE [Abs!Next]_(Abs!vars)
  BY <1>4 DEF StartWorker, Abs!Start
<1>5. CASE StartFails(c) BY <1>5 DEF StartFails
<1>6. CASE StartNotify(c) \/ StopNotRunning(c) \/ StopNotify(c)
  BY <1>6 DEF StartNotify, StopNotRunning, StopNotify
<1>7. CASE StopEnter(c)
  <2>1. initialized /\ initialized' /\ running /\ running' /\ ~worker_running'
    BY <1>7, Zenon DEF StopEnter
  <2> QED BY <2>1 DEF Abs!StopBegin
<1>8. CASE StopJoin(c) \/ StopJoinUndefined(c)
  BY <1>8 DEF StopJoin, StopJoinUndefined
<1>9. CASE StopFinish(c)
  <2>1. c = Owner /\ sdk = "final"
    BY <1>9 DEF StopFinish, OneWorker, Phase
  <2> QED BY <1>9, <2>1 DEF StopFinish, Abs!StopEnd
<1>10. CASE Deinit(c) BY <1>10 DEF Deinit, Release, Abs!Deinit
<1>11. CASE DeinitRunning(c) BY <1>11 DEF DeinitRunning
<1>12. CASE DeinitFinish(c)
  BY <1>12 DEF DeinitFinish, Release, Abs!Deinit
<1>13. ASSUME NEW on \in BOOLEAN, SetBroadcast(c, on) PROVE [Abs!Next]_(Abs!vars)
  BY <1>13 DEF SetBroadcast
<1> QED
  BY <1>1, <1>2, <1>3, <1>4, <1>5, <1>6, <1>7, <1>8, <1>9, <1>10, <1>11, <1>12, <1>13
  DEF Begin, Continue

LEMMA WorkerImplements ==
    ASSUME IInv, NEW w \in Workers, Work(w) \/ SixentsStatus(w)
    PROVE  [Abs!Next]_(Abs!vars)
<1>1. UNCHANGED phaseImpl /\ phaseImpl \in {"active", "stopping"}
  <2>1. running /\ initialized
    BY WorkerMovesItself DEF IInv, Turns, OneWorker, TypeOK, ControlOK
  <2>2. UNCHANGED <<initialized, running, worker_running>>
    BY WorkerFrame DEF lifecycle
  <2>3. phaseImpl \in {"active", "stopping"}
    BY <2>1 DEF phaseImpl
  <2>4. UNCHANGED phaseImpl
    BY <2>2 DEF phaseImpl
  <2> QED BY <2>3, <2>4
<1>2. CASE UNCHANGED sdk
  BY <1>1, <1>2 DEF Abs!vars
<1>3. CASE sdk = "final"
  BY <1>1, <1>3 DEF Abs!Next, Abs!vars, Abs!SessionOpen
<1>4. CASE sdk' = "final"
  BY <1>1, <1>4 DEF Abs!Next, Abs!vars, Abs!SessionClose
<1>5. CASE sdk # "final" /\ sdk' # "final"
  BY <1>1, <1>5 DEF Abs!vars
<1> QED BY <1>2, <1>3, <1>4, <1>5

\* Under the discipline every behaviour of the code is one of RtkLifecycle, up
\* to fairness: start and stop bracket the sessions, stop ends with none left.
THEOREM LifecycleRefinement == Spec => Abs!Safety
<1>1. Init => Abs!Init
  BY DEF Init, Abs!Init, phaseImpl
<1>2. IInv /\ [Next]_vars => [Abs!Next]_(Abs!vars)
  <2>1. CASE UNCHANGED vars
    BY <2>1 DEF vars, lifecycle, session, Abs!vars, phaseImpl
  <2> QED BY <2>1, CallersImplement, WorkerImplements DEF Next
<1> QED BY Invariance, <1>1, <1>2, PTL DEF Spec, Abs!Safety
=============================================================================
