------------------------------- MODULE RtkCore -------------------------------
(***************************************************************************)
(* src/src/rtk_core.c: the lifecycle API (init, start, stop, deinit and    *)
(* the broadcast switch) called by several application threads, and        *)
(* rtk_worker_thread with its reconnect loop, over one g_rtk_ctx.          *)
(*                                                                         *)
(* A step is what happens between two points at which another thread can   *)
(* be noticed: a critical section of state_mutex is one step (except the   *)
(* one of rtk_sdk_init, which wipes the mutex it holds), an unlocked read  *)
(* of worker_running is one step, a call into the Sixents library is one   *)
(* step with all its outcomes.  Time is abstracted: a sleep may end at     *)
(* any moment.  GGA data, RTCM data, statistics and logging are left out.  *)
(***************************************************************************)
EXTENDS Integers

CONSTANTS
    Callers,             \* application threads
    Workers,             \* identities pthread_create may hand out
    NoOne,               \* no caller: the mutex is free
    NoWorker,            \* the zeroed pthread_t
    MayCall,             \* MayCall[c]: the API functions caller c uses
    TickErrorThreshold,  \* RTK_TICK_ERROR_THRESHOLD
    MaxReconnects        \* bound: reconnect_count saturates here

API == {"init", "deinit", "start", "stop", "broadcast"}

ASSUME CoreAssumption ==
    /\ NoOne \notin Callers
    /\ NoWorker \notin Workers
    /\ MayCall \in [Callers -> SUBSET API]
    /\ TickErrorThreshold \in Nat \ {0}
    /\ MaxReconnects \in Nat \ {0}

VARIABLES
    \* g_rtk_ctx
    state_mutex,         \* the caller inside rtk_sdk_init, or NoOne
    initialized, state, running, worker_running, worker_thread,
    sixents_init, sixents_started,
    last_error,          \* TRUE iff last_error_msg is not empty
    broadcast_enabled,   \* the UDP broadcast is on
    \* application threads
    pc,                  \* where each caller is in its API call
    in_deinit,           \* callers whose rtk_sdk_stop was called by deinit
    notified,            \* last state passed to the status callback
    \* worker threads: program counter and locals
    wpc, reconnect_count, tick_error_count,
    \* the Sixents library (external)
    sdk                  \* "final", "init" (sdkInit done) or "started"

lifecycle == <<initialized, state, running, worker_running, worker_thread>>
flags     == <<sixents_init, sixents_started>>
session   == <<sdk, flags>>
report    == <<last_error, notified>>
app       == <<pc, in_deinit>>
worker    == <<wpc, reconnect_count, tick_error_count>>
vars == <<state_mutex, lifecycle, session, report, broadcast_enabled, app, worker>>

States == {"IDLE", "INIT", "CONNECTING", "RUNNING", "STOPPING", "ERROR"}

CallerPCs == {"idle", "init_wipe", "init_fill", "start_notify", "stop_enter",
              "stop_join", "stop_finish", "stop_notify", "deinit_finish"}

WorkerPCs == {"none", "outer", "backoff", "connect", "notify_connecting",
              "sdk_init", "sdk_start", "set_running", "clear_error",
              "notify_running", "loop", "tick", "cleanup", "again",
              "set_connecting", "exit", "exited"}

FlagsOK ==
    /\ initialized \in BOOLEAN /\ running \in BOOLEAN /\ worker_running \in BOOLEAN
    /\ sixents_init \in BOOLEAN /\ sixents_started \in BOOLEAN
    /\ last_error \in BOOLEAN /\ broadcast_enabled \in BOOLEAN

ControlOK ==
    /\ state_mutex \in Callers \cup {NoOne}
    /\ state \in States
    /\ worker_thread \in Workers \cup {NoWorker}
    /\ pc \in [Callers -> CallerPCs]
    /\ in_deinit \in SUBSET Callers
    /\ notified \in States \cup {"nothing"}
    /\ wpc \in [Workers -> WorkerPCs]
    /\ sdk \in {"final", "init", "started"}

CountersOK ==
    /\ reconnect_count \in [Workers -> 0..MaxReconnects]
    /\ tick_error_count \in [Workers -> 0..TickErrorThreshold]

TypeOK == FlagsOK /\ ControlOK /\ CountersOK

Init ==
    /\ state_mutex = NoOne
    /\ initialized = FALSE /\ running = FALSE /\ worker_running = FALSE
    /\ state = "IDLE"
    /\ worker_thread = NoWorker
    /\ sixents_init = FALSE /\ sixents_started = FALSE
    /\ last_error = FALSE
    /\ broadcast_enabled = FALSE
    /\ pc = [c \in Callers |-> "idle"]
    /\ in_deinit = {}
    /\ notified = "nothing"
    /\ wpc = [w \in Workers |-> "none"]
    /\ reconnect_count = [w \in Workers |-> 0]
    /\ tick_error_count = [w \in Workers |-> 0]
    /\ sdk = "final"

CanLock == state_mutex = NoOne

Calls(c, f) == pc[c] = "idle" /\ f \in MayCall[c]
Goto(c, l)  == pc' = [pc EXCEPT ![c] = l]
At(w, l)    == wpc[w] = l
GotoW(w, l) == wpc' = [wpc EXCEPT ![w] = l]

-----------------------------------------------------------------------------
(***************************************************************************)
(* rtk_sdk_init.  The check and the memset are under the same lock, but    *)
(* the memset zeroes the lock itself: from then on another caller can get  *)
(* in before initialized is set.  The final unlock releases the mutex      *)
(* whoever holds it by then.  An early return (ALREADY_INIT) changes       *)
(* nothing and is no step.                                                 *)
(***************************************************************************)
InitEnter(c) ==
    /\ Calls(c, "init") /\ CanLock
    /\ ~initialized
    /\ state_mutex' = c
    /\ Goto(c, "init_wipe")
    /\ UNCHANGED <<lifecycle, session, report, broadcast_enabled, in_deinit, worker>>

InitWipe(c) ==
    /\ pc[c] = "init_wipe"
    /\ initialized' = FALSE /\ running' = FALSE /\ worker_running' = FALSE
    /\ state' = "IDLE"
    /\ worker_thread' = NoWorker
    /\ sixents_init' = FALSE /\ sixents_started' = FALSE
    /\ last_error' = FALSE
    /\ broadcast_enabled' = FALSE
    /\ state_mutex' = NoOne
    /\ Goto(c, "init_fill")
    /\ UNCHANGED <<sdk, notified, in_deinit, worker>>

InitFill(c) ==
    /\ pc[c] = "init_fill"
    /\ state' = "INIT"
    /\ initialized' = TRUE
    /\ state_mutex' = NoOne
    /\ Goto(c, "idle")
    /\ UNCHANGED <<running, worker_running, worker_thread, session, report,
                   broadcast_enabled, in_deinit, worker>>

-----------------------------------------------------------------------------
\* Mutant of StartWorker: the check of running is dropped.
StartWorkerTwice(c, w) ==
    /\ Calls(c, "start") /\ CanLock
    /\ initialized
    /\ At(w, "none")
    /\ state' = "CONNECTING"
    /\ running' = TRUE
    /\ worker_running' = TRUE
    /\ worker_thread' = w
    /\ GotoW(w, "outer")
    /\ reconnect_count' = [reconnect_count EXCEPT ![w] = 0]
    /\ tick_error_count' = [tick_error_count EXCEPT ![w] = 0]
    /\ Goto(c, "start_notify")
    /\ UNCHANGED <<state_mutex, initialized, session, report, broadcast_enabled, in_deinit>>

(* rtk_sdk_start: the thread is created inside the critical section, the   *)
(* CONNECTING status is reported after it.                                 *)
StartWorker(c, w) ==
    /\ Calls(c, "start") /\ CanLock
    /\ initialized /\ ~running
    /\ At(w, "none")
    /\ state' = "CONNECTING"
    /\ running' = TRUE
    /\ worker_running' = TRUE
    /\ worker_thread' = w
    /\ GotoW(w, "outer")
    /\ reconnect_count' = [reconnect_count EXCEPT ![w] = 0]
    /\ tick_error_count' = [tick_error_count EXCEPT ![w] = 0]
    /\ Goto(c, "start_notify")
    /\ UNCHANGED <<state_mutex, initialized, session, report, broadcast_enabled, in_deinit>>

\* pthread_create fails: running and worker_running are set back.
StartFails(c) ==
    /\ Calls(c, "start") /\ CanLock
    /\ initialized /\ ~running
    /\ state' = "ERROR"
    /\ worker_running' = FALSE
    /\ UNCHANGED <<state_mutex, initialized, running, worker_thread, session, report,
                   broadcast_enabled, app, worker>>

StartNotify(c) ==
    /\ pc[c] = "start_notify"
    /\ notified' = "CONNECTING"
    /\ Goto(c, "idle")
    /\ UNCHANGED <<state_mutex, lifecycle, session, last_error, broadcast_enabled,
                   in_deinit, worker>>

-----------------------------------------------------------------------------
(* rtk_sdk_stop, called by the application or by rtk_sdk_deinit            *)
EntersStop(c) == Calls(c, "stop") \/ pc[c] = "stop_enter"

\* Mutant of StopEnter: the check of running is dropped.
StopEnterUnchecked(c) ==
    /\ EntersStop(c) /\ CanLock
    /\ state' = "STOPPING"
    /\ worker_running' = FALSE
    /\ Goto(c, "stop_join")
    /\ UNCHANGED <<state_mutex, initialized, running, worker_thread, session, report,
                   broadcast_enabled, in_deinit, worker>>

StopEnter(c) ==
    /\ EntersStop(c) /\ CanLock
    /\ running
    /\ state' = "STOPPING"
    /\ worker_running' = FALSE
    /\ Goto(c, "stop_join")
    /\ UNCHANGED <<state_mutex, initialized, running, worker_thread, session, report,
                   broadcast_enabled, in_deinit, worker>>

\* Inside rtk_sdk_deinit somebody else's stop got there first.
StopNotRunning(c) ==
    /\ pc[c] = "stop_enter" /\ CanLock
    /\ ~running
    /\ Goto(c, "deinit_finish")
    /\ UNCHANGED <<state_mutex, lifecycle, session, report, broadcast_enabled,
                   in_deinit, worker>>

\* Mutant of StopJoin: the thread is not waited for.
StopJoinDetached(c) ==
    /\ pc[c] = "stop_join"
    /\ Goto(c, "stop_finish")
    /\ UNCHANGED <<state_mutex, lifecycle, session, report, broadcast_enabled, in_deinit,
                   worker>>

\* pthread_join returns when the thread has exited, and frees its identity.
StopJoin(c) ==
    /\ pc[c] = "stop_join"
    /\ worker_thread \in Workers /\ At(worker_thread, "exited")
    /\ GotoW(worker_thread, "none")
    /\ Goto(c, "stop_finish")
    /\ UNCHANGED <<state_mutex, lifecycle, session, report, broadcast_enabled, in_deinit,
                   reconnect_count, tick_error_count>>

\* A thread that was already joined, that another caller is joining, or no
\* thread at all: pthread_join is undefined.  It may return at once, or
\* never (this step is not a fair one).
UndefinedJoin(c) ==
    /\ pc[c] = "stop_join"
    /\ \/ ~(worker_thread \in Workers /\ wpc[worker_thread] # "none")
       \/ \E d \in Callers \ {c} : pc[d] = "stop_join"

StopJoinUndefined(c) ==
    /\ UndefinedJoin(c)
    /\ Goto(c, "stop_finish")
    /\ UNCHANGED <<state_mutex, lifecycle, session, report, broadcast_enabled, in_deinit,
                   worker>>

StopFinish(c) ==
    /\ pc[c] = "stop_finish" /\ CanLock
    /\ running' = FALSE
    /\ state' = "INIT"
    /\ Goto(c, "stop_notify")
    /\ UNCHANGED <<state_mutex, initialized, worker_running, worker_thread, session, report,
                   broadcast_enabled, in_deinit, worker>>

StopNotify(c) ==
    /\ pc[c] = "stop_notify"
    /\ notified' = "INIT"
    /\ Goto(c, IF c \in in_deinit THEN "deinit_finish" ELSE "idle")
    /\ UNCHANGED <<state_mutex, lifecycle, session, last_error, broadcast_enabled,
                   in_deinit, worker>>

-----------------------------------------------------------------------------
(* rtk_sdk_deinit.  If running, the lock is given up for rtk_sdk_stop and  *)
(* taken again; neither running nor initialized is looked at again.        *)
\* Mutant of Release: rtk_broadcast_deinit is forgotten.
ReleaseKeepsSocket ==
    /\ initialized' = FALSE
    /\ state' = "IDLE"
    /\ UNCHANGED <<running, worker_running, worker_thread, broadcast_enabled>>

Release ==
    /\ broadcast_enabled' = FALSE       \* rtk_broadcast_deinit
    /\ initialized' = FALSE
    /\ state' = "IDLE"
    /\ UNCHANGED <<running, worker_running, worker_thread>>

Deinit(c) ==
    /\ Calls(c, "deinit") /\ CanLock
    /\ initialized /\ ~running
    /\ Release
    /\ UNCHANGED <<state_mutex, session, report, app, worker>>

DeinitRunning(c) ==
    /\ Calls(c, "deinit") /\ CanLock
    /\ initialized /\ running
    /\ Goto(c, "stop_enter")
    /\ in_deinit' = in_deinit \cup {c}
    /\ UNCHANGED <<state_mutex, lifecycle, session, report, broadcast_enabled, worker>>

DeinitFinish(c) ==
    /\ pc[c] = "deinit_finish" /\ CanLock
    /\ Release
    /\ Goto(c, "idle")
    /\ in_deinit' = in_deinit \ {c}
    /\ UNCHANGED <<state_mutex, session, report, worker>>

(* rtk_sdk_enable_broadcast and rtk_sdk_disable_broadcast look at neither  *)
(* initialized nor state_mutex: what is enabled before rtk_sdk_init, which *)
(* rtk_sdk.h:186 forbids, is wiped by it.                                  *)
SetBroadcast(c, on) ==
    /\ Calls(c, "broadcast")
    /\ broadcast_enabled' = on
    /\ UNCHANGED <<state_mutex, lifecycle, session, report, app, worker>>

-----------------------------------------------------------------------------
(***************************************************************************)
(* rtk_worker_thread.  need_reconnect is set by the failure that brings    *)
(* tick_error_count to the threshold, and by nothing else.                 *)
(***************************************************************************)
need_reconnect(w) == tick_error_count[w] >= TickErrorThreshold

CountReconnect(w) ==
    reconnect_count' = [reconnect_count EXCEPT
                          ![w] = IF @ < MaxReconnects THEN @ + 1 ELSE @]

\* Mutant of SixentsCleanup: sdkStop without sdkFinal.
SixentsCleanupStopOnly ==
    /\ sdk' = IF sixents_started THEN "init" ELSE sdk
    /\ sixents_init' = FALSE
    /\ sixents_started' = FALSE

\* sixents_cleanup: sdkStop and sdkFinal, as far as the flags ask for them.
SixentsCleanup ==
    /\ sdk' = IF sixents_init THEN "final"
              ELSE IF sixents_started /\ sdk = "started" THEN "init" ELSE sdk
    /\ sixents_init' = FALSE
    /\ sixents_started' = FALSE

\* while (worker_running): the unlocked read at the head of the outer loop
WorkerOuter(w) ==
    /\ At(w, "outer")
    /\ GotoW(w, IF ~worker_running THEN "exit"
                ELSE IF reconnect_count[w] > 0 THEN "backoff" ELSE "connect")
    /\ UNCHANGED <<state_mutex, lifecycle, session, report, broadcast_enabled, app,
                   reconnect_count, tick_error_count>>

\* sleep_interruptible ends, by time or by worker_running, which is then read
WorkerBackoff(w) ==
    /\ At(w, "backoff")
    /\ GotoW(w, IF worker_running THEN "connect" ELSE "exit")
    /\ UNCHANGED <<state_mutex, lifecycle, session, report, broadcast_enabled, app,
                   reconnect_count, tick_error_count>>

\* state = CONNECTING, whatever it is by now
WorkerConnect(w) ==
    /\ At(w, "connect") /\ CanLock
    /\ state' = "CONNECTING"
    /\ GotoW(w, IF reconnect_count[w] > 0 THEN "notify_connecting" ELSE "sdk_init")
    /\ UNCHANGED <<state_mutex, initialized, running, worker_running, worker_thread,
                   session, report, broadcast_enabled, app, reconnect_count, tick_error_count>>

WorkerNotifyConnecting(w) ==
    /\ At(w, "notify_connecting")
    /\ notified' = "CONNECTING"
    /\ GotoW(w, "sdk_init")
    /\ UNCHANGED <<state_mutex, lifecycle, session, last_error, broadcast_enabled, app,
                   reconnect_count, tick_error_count>>

WorkerSdkInitOk(w) ==
    /\ At(w, "sdk_init")
    /\ sdk' = "init"
    /\ sixents_init' = TRUE
    /\ GotoW(w, "sdk_start")
    /\ UNCHANGED <<state_mutex, lifecycle, sixents_started, report, broadcast_enabled, app,
                   reconnect_count, tick_error_count>>

\* Mutant of WorkerSdkInitFails: the error message is not recorded.
WorkerSdkInitFailsSilently(w) ==
    /\ At(w, "sdk_init")
    /\ sdk' = "final"
    /\ CountReconnect(w)
    /\ GotoW(w, "outer")
    /\ UNCHANGED <<state_mutex, lifecycle, flags, report, broadcast_enabled, app,
                   tick_error_count>>

\* sdkInit fails: sdkFinal, report, count, back to the outer loop
WorkerSdkInitFails(w) ==
    /\ At(w, "sdk_init")
    /\ sdk' = "final"
    /\ last_error' = TRUE
    /\ CountReconnect(w)
    /\ GotoW(w, "outer")
    /\ UNCHANGED <<state_mutex, lifecycle, flags, notified, broadcast_enabled, app,
                   tick_error_count>>

WorkerSdkStartOk(w) ==
    /\ At(w, "sdk_start")
    /\ sdk' = "started"
    /\ sixents_started' = TRUE
    /\ reconnect_count' = [reconnect_count EXCEPT ![w] = 0]
    /\ GotoW(w, "set_running")
    /\ UNCHANGED <<state_mutex, lifecycle, sixents_init, report, broadcast_enabled, app,
                   tick_error_count>>

WorkerSdkStartFails(w) ==
    /\ At(w, "sdk_start")
    /\ SixentsCleanup
    /\ last_error' = TRUE
    /\ CountReconnect(w)
    /\ GotoW(w, "outer")
    /\ UNCHANGED <<state_mutex, lifecycle, notified, broadcast_enabled, app, tick_error_count>>

\* state = RUNNING, whatever it is by now
WorkerSetRunning(w) ==
    /\ At(w, "set_running") /\ CanLock
    /\ state' = "RUNNING"
    /\ GotoW(w, "clear_error")
    /\ UNCHANGED <<state_mutex, initialized, running, worker_running, worker_thread,
                   session, report, broadcast_enabled, app, reconnect_count, tick_error_count>>

WorkerClearError(w) ==
    /\ At(w, "clear_error")
    /\ last_error' = FALSE
    /\ GotoW(w, "notify_running")
    /\ UNCHANGED <<state_mutex, lifecycle, session, notified, broadcast_enabled, app,
                   reconnect_count, tick_error_count>>

\* report RUNNING; the locals of the inner loop start afresh
WorkerNotifyRunning(w) ==
    /\ At(w, "notify_running")
    /\ notified' = "RUNNING"
    /\ tick_error_count' = [tick_error_count EXCEPT ![w] = 0]
    /\ GotoW(w, "loop")
    /\ UNCHANGED <<state_mutex, lifecycle, session, last_error, broadcast_enabled, app,
                   reconnect_count>>

\* Mutant of WorkerLoop: the flag is not looked at.
WorkerLoopIgnoresStop(w) ==
    /\ At(w, "loop")
    /\ GotoW(w, IF ~need_reconnect(w) THEN "tick" ELSE "cleanup")
    /\ UNCHANGED <<state_mutex, lifecycle, session, report, broadcast_enabled, app,
                   reconnect_count, tick_error_count>>

\* while (worker_running && !need_reconnect)
WorkerLoop(w) ==
    /\ At(w, "loop")
    /\ GotoW(w, IF worker_running /\ ~need_reconnect(w) THEN "tick" ELSE "cleanup")
    /\ UNCHANGED <<state_mutex, lifecycle, session, report, broadcast_enabled, app,
                   reconnect_count, tick_error_count>>

WorkerTickOk(w) ==
    /\ At(w, "tick")
    /\ tick_error_count' = [tick_error_count EXCEPT ![w] = 0]
    /\ GotoW(w, "loop")
    /\ UNCHANGED <<state_mutex, lifecycle, session, report, broadcast_enabled, app,
                   reconnect_count>>

\* The failure that reaches the threshold is reported and counted.
WorkerTickFails(w) ==
    /\ At(w, "tick")
    /\ tick_error_count' = [tick_error_count EXCEPT ![w] = @ + 1]
    /\ IF need_reconnect(w)'
       THEN last_error' = TRUE /\ CountReconnect(w)
       ELSE UNCHANGED <<last_error, reconnect_count>>
    /\ GotoW(w, "loop")
    /\ UNCHANGED <<state_mutex, lifecycle, session, notified, broadcast_enabled, app>>

\* The library calls rtk_sixents_status_callback from sdkStart or sdkTick:
\* the state is read without the lock and reported; an authentication
\* failure or a timeout also records an error.
SixentsStatus(w) ==
    /\ At(w, "sdk_start") \/ At(w, "tick")
    /\ notified' = state
    /\ last_error' \in {last_error, TRUE}
    /\ UNCHANGED <<state_mutex, lifecycle, session, broadcast_enabled, app, worker>>

WorkerCleanup(w) ==
    /\ At(w, "cleanup")
    /\ SixentsCleanup
    /\ GotoW(w, "again")
    /\ UNCHANGED <<state_mutex, lifecycle, report, broadcast_enabled, app,
                   reconnect_count, tick_error_count>>

\* Mutants of WorkerAgain: the state is not set back to CONNECTING; the
\* thread leaves its outer loop.
WorkerAgainKeepsState(w) ==
    /\ At(w, "again")
    /\ GotoW(w, "outer")
    /\ UNCHANGED <<state_mutex, lifecycle, session, report, broadcast_enabled, app,
                   reconnect_count, tick_error_count>>

WorkerAgainGivesUp(w) ==
    /\ At(w, "again")
    /\ GotoW(w, IF worker_running /\ need_reconnect(w) THEN "exit" ELSE "outer")
    /\ UNCHANGED <<state_mutex, lifecycle, session, report, broadcast_enabled, app,
                   reconnect_count, tick_error_count>>

\* if (worker_running && need_reconnect): an unlocked check ...
WorkerAgain(w) ==
    /\ At(w, "again")
    /\ GotoW(w, IF worker_running /\ need_reconnect(w) THEN "set_connecting" ELSE "outer")
    /\ UNCHANGED <<state_mutex, lifecycle, session, report, broadcast_enabled, app,
                   reconnect_count, tick_error_count>>

\* ... and the assignment it guards
WorkerSetConnecting(w) ==
    /\ At(w, "set_connecting") /\ CanLock
    /\ state' = "CONNECTING"
    /\ GotoW(w, "outer")
    /\ UNCHANGED <<state_mutex, initialized, running, worker_running, worker_thread,
                   session, report, broadcast_enabled, app, reconnect_count, tick_error_count>>

WorkerExit(w) ==
    /\ At(w, "exit")
    /\ SixentsCleanup
    /\ GotoW(w, "exited")
    /\ UNCHANGED <<state_mutex, lifecycle, report, broadcast_enabled, app,
                   reconnect_count, tick_error_count>>

-----------------------------------------------------------------------------
\* A caller begins a call ...
Begin(c) == \/ InitEnter(c) \/ StartFails(c) \/ Deinit(c) \/ DeinitRunning(c)
            \/ \E w \in Workers : StartWorker(c, w)
            \/ pc[c] = "idle" /\ StopEnter(c)
            \/ \E on \in BOOLEAN : SetBroadcast(c, on)

\* ... and carries on with one.
Continue(c) == \/ InitWipe(c) \/ InitFill(c) \/ StartNotify(c)
               \/ pc[c] = "stop_enter" /\ StopEnter(c)
               \/ StopNotRunning(c) \/ StopJoin(c)
               \/ StopFinish(c) \/ StopNotify(c) \/ DeinitFinish(c)

Work(w) == \/ WorkerOuter(w) \/ WorkerBackoff(w) \/ WorkerConnect(w)
           \/ WorkerNotifyConnecting(w)
           \/ WorkerSdkInitOk(w) \/ WorkerSdkInitFails(w)
           \/ WorkerSdkStartOk(w) \/ WorkerSdkStartFails(w)
           \/ WorkerSetRunning(w) \/ WorkerClearError(w) \/ WorkerNotifyRunning(w)
           \/ WorkerLoop(w) \/ WorkerTickOk(w) \/ WorkerTickFails(w)
           \/ WorkerCleanup(w) \/ WorkerAgain(w) \/ WorkerSetConnecting(w)
           \/ WorkerExit(w)

Next == \/ \E c \in Callers : Begin(c) \/ Continue(c) \/ StopJoinUndefined(c)
        \/ \E w \in Workers : Work(w) \/ SixentsStatus(w)

\* Threads are scheduled, mutexes are released and Sixents calls return.
Fairness == /\ \A c \in Callers : WF_vars(Continue(c))
            /\ \A w \in Workers : WF_vars(Work(w))

Spec == Init /\ [][Next]_vars
FairSpec == Spec /\ Fairness

-----------------------------------------------------------------------------
(* Properties for every use of the API, concurrent or not                  *)

\* A part of the inductive invariant: the failure that reaches the threshold
\* ends the session, and the count stays within its type.
NoTickPastThreshold == \A w \in Workers : At(w, "tick") => ~need_reconnect(w)

\* pthread_join is only called on a thread that exists and that no other
\* caller is joining: rtk_sdk_stop may be called from any thread.
JoinsAreDefined == \A c \in Callers : ~UndefinedJoin(c)

\* rtk_sdk_deinit releases what there is (rtk_sdk.h:193): when initialized is
\* cleared no thread and no Sixents session is left, and the broadcast is off.
DeinitReleasesAll ==
    [][initialized /\ ~initialized' =>
          /\ \A w \in Workers : At(w, "none")'
          /\ sdk' = "final"
          /\ ~broadcast_enabled']_vars

\* Whoever clears worker_running, and whatever the worker is doing: it comes
\* to its end, unless the service is started or initialised again meanwhile.
StopIsNoticed ==
    \A w \in Workers :
        ~worker_running ~> \/ wpc[w] \in {"none", "exited"}
                           \/ worker_running \/ state_mutex # NoOne
=============================================================================
