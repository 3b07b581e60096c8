---------------------------- MODULE RtkCoreOwned ----------------------------
(***************************************************************************)
(* RtkCore under the discipline the bundled program follows: one thread,   *)
(* the owner, makes every init, stop and deinit call; the others may start *)
(* the service, unless the owner deinitialises it (rtk_sdk_deinit gives up *)
(* the lock half-way and a start that slips in is lost).                   *)
(***************************************************************************)
EXTENDS RtkCore

CONSTANT Owner

ASSUME OwnerAssumption ==
    /\ Owner \in Callers
    /\ \A c \in Callers \ {Owner} :
          /\ MayCall[c] \subseteq {"start", "broadcast"}
          /\ "deinit" \in MayCall[Owner] => MayCall[c] = {}

Exists(w) == ~At(w, "none")

-----------------------------------------------------------------------------
(* Safety                                                                  *)

\* Every Sixents call is made in the phase the library is in: no second
\* sdkInit over an open session, no sdkStart or sdkTick without one.
SdkCallsInOrder ==
    \A w \in Workers : /\ At(w, "sdk_init")  => sdk = "final"
                       /\ At(w, "sdk_start") => sdk = "init"
                       /\ At(w, "tick")      => sdk = "started"

\* rtk_sdk_stop (and a deinit) has waited for the thread: once running is
\* cleared there is no worker, and no Sixents session is left open.
StoppedMeansGone ==
    ~running => (\A w \in Workers : ~Exists(w)) /\ sdk = "final"

\* While the worker waits to reconnect, and until it is connected again, the
\* broadcast packets carry a reason (last_error_msg is not empty).
RetryingShowsReason ==
    \A w \in Workers :
        /\ wpc[w] \in {"outer", "backoff", "connect", "notify_connecting",
                       "sdk_init", "sdk_start"}
        /\ reconnect_count[w] > 0
        => last_error

\* Unless a stop was requested, RUNNING is shown only over a started session;
\* the exception is the moment between closing a lost one and saying so.
RunningMeansConnected ==
    state = "RUNNING" /\ worker_running
        => \/ sdk = "started"
           \/ \E w \in Workers : wpc[w] \in {"again", "set_connecting"}

\* With a single caller: when a stop or deinit has returned, INIT was the last
\* status callback, and none arrives later.
NoStatusAfterStop ==
    (Callers = {Owner} /\ pc[Owner] = "idle" /\ ~running)
        => notified \in {"nothing", "INIT"}

-----------------------------------------------------------------------------
(* Liveness                                                                *)

\* A stop returns: the worker sees the cleared flag wherever it is.
StopReturns == pc[Owner] = "stop_join" ~> pc[Owner] = "idle"

\* A session lost to tick failures is followed by another attempt, unless a
\* stop is requested: the worker never stays in between.
LostSessionRetried ==
    \A w \in Workers :
        At(w, "cleanup") /\ need_reconnect(w) ~> At(w, "sdk_init") \/ ~worker_running

-----------------------------------------------------------------------------
(* Implementation of the lifecycle contract                                *)
phaseImpl == IF ~initialized THEN "idle"
             ELSE IF ~running THEN "ready"
             ELSE IF worker_running THEN "active" ELSE "stopping"

Abs == INSTANCE RtkLifecycle WITH phase <- phaseImpl, session <- sdk # "final"

\* Every behaviour of the code under the discipline is one of RtkLifecycle.
ImplementsLifecycle == Abs!Spec

-----------------------------------------------------------------------------
(***************************************************************************)
(* The inductive invariant.  Who may be where (Turns), which thread exists *)
(* (OneWorker), what the session is at each point of the worker (Phase),   *)
(* and what the report shows (Reports).                                    *)
(***************************************************************************)
InStop == {"stop_join", "stop_finish"}

Turns ==
    /\ \A c \in Callers \ {Owner} : pc[c] \in {"idle", "start_notify"}
    /\ in_deinit \subseteq {Owner}
    /\ state_mutex = NoOne \/ (state_mutex = Owner /\ pc[Owner] = "init_wipe")
    /\ pc[Owner] \in {"init_wipe", "init_fill"} => ~initialized
    /\ ~initialized => ~running
    /\ pc[Owner] \in InStop => running /\ ~worker_running
    /\ running /\ ~worker_running => pc[Owner] \in InStop
    /\ worker_running => running
    /\ in_deinit # {} => "deinit" \in MayCall[Owner]
    /\ pc[Owner] = "stop_enter" => in_deinit = {Owner} /\ initialized /\ running
    /\ pc[Owner] = "stop_notify" => initialized /\ (in_deinit # {} => ~running)
    /\ pc[Owner] = "deinit_finish" => in_deinit = {Owner} /\ initialized /\ ~running

OneWorker ==
    /\ \A w \in Workers : Exists(w) => running /\ w = worker_thread
    /\ running /\ pc[Owner] # "stop_finish"
         => worker_thread \in Workers /\ Exists(worker_thread)
    /\ pc[Owner] = "stop_finish" => \A w \in Workers : ~Exists(w)

BeforeInit == {"outer", "backoff", "connect", "notify_connecting", "sdk_init"}
Connected  == {"set_running", "clear_error", "notify_running", "loop", "tick", "cleanup"}
Closing    == {"again", "set_connecting"}
Leaving    == {"exit", "exited"}

PhaseOf(w) ==
    /\ wpc[w] \in BeforeInit \cup Closing \cup Leaving
         => sdk = "final" /\ ~sixents_init /\ ~sixents_started
    /\ At(w, "sdk_start") => sdk = "init" /\ sixents_init /\ ~sixents_started
    /\ wpc[w] \in Connected => sdk = "started" /\ sixents_init /\ sixents_started
    /\ wpc[w] \in Leaving => ~worker_running
    /\ wpc[w] \in {"cleanup", "again"} => ~worker_running \/ need_reconnect(w)

Phase ==
    /\ \A w \in Workers : PhaseOf(w)
    /\ (\A w \in Workers : ~Exists(w))
         => sdk = "final" /\ ~sixents_init /\ ~sixents_started

Reports ==
    /\ RetryingShowsReason
    /\ \A w \in Workers :
         /\ wpc[w] \in {"loop", "cleanup", "again", "set_connecting"}
         /\ reconnect_count[w] > 0
         => last_error
    /\ \A w \in Workers : wpc[w] \in {"set_running", "clear_error", "notify_running", "tick"}
         => reconnect_count[w] = 0
    /\ \A w \in Workers : At(w, "loop") /\ reconnect_count[w] > 0 => need_reconnect(w)
    /\ \A w \in Workers : wpc[w] \in BeforeInit \cup {"sdk_start", "set_running"}
         => ~(state = "RUNNING" /\ worker_running)

IInv == TypeOK /\ NoTickPastThreshold /\ Turns /\ OneWorker /\ Phase /\ Reports
=============================================================================
