------------------------------ MODULE RtkLocks ------------------------------
(***************************************************************************)
(* The five mutexes of the SDK and who takes which while holding which.    *)
(* Only rtk_log and the dispatch functions call the application back, and  *)
(* rtk_log is called from inside several critical sections; a callback may *)
(* call the API again.                                                     *)
(*                                                                         *)
(* A function is the set of its paths, a path the sequence of what matters *)
(* here: Lock and Unlock, Use (a critical section in which nothing below   *)
(* happens), Call of a callback, Join of a thread.  What the functions     *)
(* compute is in the other modules.                                        *)
(***************************************************************************)
EXTENDS Naturals, Sequences

CONSTANTS
    App, Gps, Sixents,   \* an application thread and the two workers
    Reentry              \* Reentry[k]: the functions callback k may call

Threads == {App, Gps, Sixents}
Mutexes == {"state", "broadcast", "gga", "serial", "callback"}
Callbacks == {"log", "status", "error", "rtcm", "position"}

Nobody == "nobody"   \* the holder of a mutex that is free

ASSUME LocksAssumption ==
    /\ App # Gps /\ App # Sixents /\ Gps # Sixents
    /\ Nobody \notin Threads

Lock(m)   == <<[do |-> "lock", on |-> m]>>
Unlock(m) == <<[do |-> "unlock", on |-> m]>>
Use(m)    == <<[do |-> "use", on |-> m]>>
Call(k)   == <<[do |-> "call", on |-> k]>>
Join(t)   == <<[do |-> "join", on |-> t]>>
Return    == <<[do |-> "return", on |-> "none"]>>

Under(m, path) == Lock(m) \o path \o Unlock(m)

\* One function after another: each path of P followed by each path of Q.
P ++ Q == {p \o q : p \in P, q \in Q}

-----------------------------------------------------------------------------
(* Callbacks are copied under callback_mutex and called without it.  One   *)
(* that calls nothing needs no step.                                       *)
Dispatched(k) == Use("callback") \o (IF Reentry[k] = {} THEN <<>> ELSE Call(k))

\* Mutant of rtk_dispatch_error: the callback is called under the mutex.
rtk_dispatch_error_under_lock == Under("callback", Call("error"))

rtk_log               == Dispatched("log")
rtk_dispatch_status   == Dispatched("status")
rtk_dispatch_rtcm     == Dispatched("rtcm")
rtk_dispatch_position == Dispatched("position")
rtk_dispatch_error    == Dispatched("error")

rtk_sdk_set_callback  == {Use("callback")}

(* UDP broadcast: the failures of init are logged under the mutex.         *)
rtk_broadcast_init   == {Use("broadcast"), Under("broadcast", rtk_log),
                         Use("broadcast") \o rtk_log}
rtk_broadcast_deinit == {Use("broadcast"), Use("broadcast") \o rtk_log}
rtk_broadcast_send   == {Use("broadcast"), Use("broadcast") \o rtk_log}

(* Lifecycle                                                               *)
rtk_sdk_get_state == {Use("state")}

rtk_sdk_start == {Use("state"),
                  Use("state") \o rtk_log,
                  Use("state") \o rtk_log \o rtk_dispatch_status}

\* Mutant of rtk_sdk_stop: the worker is joined under state_mutex.
rtk_sdk_stop_locked == {Use("state"),
                        Under("state", rtk_log \o Join(Sixents))
                           \o rtk_log \o rtk_dispatch_status}

rtk_sdk_stop  == {Use("state"),
                  Use("state") \o rtk_log \o Join(Sixents)
                     \o Use("state") \o rtk_log \o rtk_dispatch_status}

rtk_sdk_deinit ==
    {Use("state")}
    \cup ({<<>>} \cup ({Use("state")} ++ rtk_sdk_stop))
         ++ {Under("state", path) : path \in rtk_broadcast_deinit}
         ++ {rtk_log}

(* GGA: a rejected sentence is logged before the mutex is taken, the       *)
(* outcome of a send while it is held, as is what the library traces.      *)
rtk_sdk_input_gga == {rtk_log, Use("gga")}
SendGga           == {Use("gga"), Under("gga", rtk_log)}

(* Serial port: the attempt to reconnect, and what fails when the device   *)
(* is opened, are logged under the mutex.                                  *)
\* serial_open_internal
Opened     == Use("serial")
OpenFailed == Under("serial", rtk_log)

rtk_serial_open  == {Use("serial"), Opened \o rtk_log, OpenFailed}
rtk_serial_close == {Use("serial"), Use("serial") \o rtk_log}
rtk_serial_get   == {Use("serial")}

rtk_serial_reconnect ==
    {Under("serial", rtk_log)} ++ {<<>>, Opened \o rtk_log, OpenFailed \o rtk_log}

\* rtk_serial_read, rtk_serial_write
SerialTransfer == {Use("serial")} ++ {<<>>, rtk_log, Use("serial"), Use("serial") \o rtk_log}

(* GPS worker                                                              *)
Packet == {Use("callback") \o Use("state")} ++ ({<<>>} \cup rtk_broadcast_send)

broadcast_position   == Packet ++ {<<>>, rtk_dispatch_position}
broadcast_heartbeat  == Packet ++ {Use("state") \o rtk_log}
rtk_gps_on_rtcm_data == rtk_serial_get ++ ({<<>>} \cup SerialTransfer)

rtk_gps_worker_start ==
    rtk_serial_open
    \cup rtk_serial_open ++ rtk_sdk_set_callback
             ++ ({rtk_log} \cup (rtk_serial_close ++ {rtk_log}))
rtk_gps_worker_stop  == {Join(Gps)} ++ rtk_serial_close ++ rtk_sdk_set_callback ++ {rtk_log}

(* Sixents worker and the library's callbacks                              *)
WorkerConnect == {Use("state") \o rtk_dispatch_status}
                     ++ {rtk_log \o rtk_dispatch_error,
                         Use("state") \o Use("callback") \o rtk_dispatch_status}
SixentsTick   == {rtk_log, rtk_log \o rtk_dispatch_error}

rtk_sixents_diff_callback   == {rtk_log \o rtk_dispatch_rtcm}
                                   ++ ({<<>>} \cup rtk_broadcast_send)
rtk_sixents_status_callback == {rtk_log \o rtk_dispatch_status}
                                   ++ {<<>>, rtk_log \o rtk_dispatch_error}

Paths == [
    start |-> rtk_sdk_start, stop |-> rtk_sdk_stop, deinit |-> rtk_sdk_deinit,
    get_state |-> rtk_sdk_get_state, set_callback |-> rtk_sdk_set_callback,
    input_gga |-> rtk_sdk_input_gga, get_position |-> rtk_serial_get,
    enable |-> rtk_broadcast_init, disable |-> rtk_broadcast_deinit,
    open |-> rtk_serial_open, close |-> rtk_serial_close,
    gps_start |-> rtk_gps_worker_start, gps_stop |-> rtk_gps_worker_stop,
    reconnect |-> rtk_serial_reconnect, read |-> SerialTransfer,
    position |-> broadcast_position, heartbeat |-> broadcast_heartbeat,
    connect |-> WorkerConnect, send_gga |-> SendGga, tick |-> SixentsTick,
    diff |-> rtk_sixents_diff_callback, status |-> rtk_sixents_status_callback,
    gps_rtcm |-> rtk_gps_on_rtcm_data]

Api == {"start", "stop", "deinit", "get_state", "set_callback", "input_gga", "get_position",
        "enable", "disable", "open", "close", "gps_start", "gps_stop"}

\* The functions that end a thread.  API.md 7.1 forbids them in callbacks (it
\* names stop and deinit); that the log's callback, called under mutexes, must
\* call nothing at all is written nowhere, and NoDeadlock needs it.
Joining == {"stop", "deinit", "gps_stop"}

ReentrySafe == /\ Reentry \in [Callbacks -> SUBSET (DOMAIN Paths \ Joining)]
               /\ Reentry["log"] = {}

\* What gps_worker_thread and rtk_worker_thread do, callbacks of the library
\* included; the application may make any call.
GpsCalls     == {"reconnect", "read", "get_position", "input_gga", "position", "heartbeat"}
SixentsCalls == {"connect", "send_gga", "tick", "diff", "status"}

Calls(t) == CASE t = App     -> Api
              [] t = Gps     -> GpsCalls
              [] t = Sixents -> SixentsCalls

-----------------------------------------------------------------------------
VARIABLES
    todo,      \* todo[t]: what is left of the call thread t is in
    holder,    \* the thread that holds a mutex
    depth      \* how many callbacks t is in

vars == <<todo, holder, depth>>

MaxDepth == 1     \* bound: an API call inside a callback makes no further ones

Init ==
    /\ todo = [t \in Threads |-> <<>>]
    /\ holder = [m \in Mutexes |-> Nobody]
    /\ depth = [t \in Threads |-> 0]

Idle(t) == todo[t] = <<>>
At(t, do) == ~Idle(t) /\ Head(todo[t]).do = do
On(t) == Head(todo[t]).on
Rest(t) == [todo EXCEPT ![t] = Tail(@)]

\* A worker that is being joined has been told to stop: it starts nothing.
Joined(t) == \E u \in Threads : At(u, "join") /\ On(u) = t

Begin(t) ==
    /\ Idle(t) /\ ~Joined(t)
    /\ \E f \in Calls(t) : \E path \in Paths[f] : todo' = [todo EXCEPT ![t] = path]
    /\ UNCHANGED <<holder, depth>>

DoLock(t) ==
    /\ At(t, "lock") /\ holder[On(t)] = Nobody
    /\ holder' = [holder EXCEPT ![On(t)] = t]
    /\ todo' = Rest(t)
    /\ UNCHANGED depth

DoUnlock(t) ==
    /\ At(t, "unlock")
    /\ holder' = [holder EXCEPT ![On(t)] = Nobody]
    /\ todo' = Rest(t)
    /\ UNCHANGED depth

DoUse(t) ==
    /\ At(t, "use") /\ holder[On(t)] = Nobody
    /\ todo' = Rest(t)
    /\ UNCHANGED <<holder, depth>>

\* The callback does nothing here or calls the API.
DoCall(t) ==
    /\ At(t, "call")
    /\ \/ todo' = Rest(t) /\ UNCHANGED depth
       \/ /\ depth[t] < MaxDepth
          /\ \E f \in Reentry[On(t)] : \E path \in Paths[f] :
                todo' = [todo EXCEPT ![t] = path \o Return \o Tail(@)]
          /\ depth' = [depth EXCEPT ![t] = @ + 1]
    /\ UNCHANGED holder

DoReturn(t) ==
    /\ At(t, "return")
    /\ depth' = [depth EXCEPT ![t] = @ - 1]
    /\ todo' = Rest(t)
    /\ UNCHANGED holder

DoJoin(t) ==
    /\ At(t, "join") /\ Idle(On(t))
    /\ todo' = Rest(t)
    /\ UNCHANGED <<holder, depth>>

Goes(t) == DoLock(t) \/ DoUnlock(t) \/ DoUse(t) \/ DoCall(t) \/ DoReturn(t) \/ DoJoin(t)

Next == \E t \in Threads : Begin(t) \/ Goes(t)

Spec == Init /\ [][Next]_vars

-----------------------------------------------------------------------------
Rank(m) == CASE m = "state" -> 1
             [] m \in {"broadcast", "gga", "serial"} -> 2
             [] m = "callback" -> 3

Wants(t, m) == (At(t, "lock") \/ At(t, "use")) /\ On(t) = m
Holds(t, m) == holder[m] = t

\* t cannot go on before u does.
WaitsFor(t, u) == \/ \E m \in Mutexes : Wants(t, m) /\ Holds(u, m)
                  \/ At(t, "join") /\ On(t) = u /\ ~Idle(u)

\* Mutexes are only ever taken upwards: state before those of the broadcast,
\* the GGA buffer and the port, callback_mutex last.  A thread that waits for
\* another to end holds none, and a worker does not wait for a thread.
LocksInOrder ==
    \A t \in Threads :
        /\ \A m, h \in Mutexes : Wants(t, m) /\ Holds(t, h) => Rank(h) < Rank(m)
        /\ At(t, "join") => (\A h \in Mutexes : ~Holds(t, h)) /\ t = App /\ On(t) # App

\* No threads wait for one another in a circle, itself included.
NoDeadlock == ~\E S \in SUBSET Threads :
                  S # {} /\ \A t \in S : \E u \in S : WaitsFor(t, u)

\* A callback other than the log's is called with no mutex held: it may take
\* its time and call the API.
CallbacksHoldNothing ==
    \A t \in Threads : At(t, "call") /\ On(t) # "log" => \A m \in Mutexes : ~Holds(t, m)
=============================================================================
