# TLA+ models of the RTK SDK

This directory models the RTK SDK (C, about 3300 lines): a library that drives
the Sixents differential-positioning library from a worker thread, and a service
program that also reads a GPS module on a serial port, feeds corrections to it
and broadcasts positions over UDP. The hard part of the code is not what it
computes but who does what when: two worker threads, application threads, a
library thread that calls back, reconnect loops, and state read under one lock
and acted upon under the next. The models are about that. TLC checks small
instances, TLAPS proves their safety properties for all values of the constants.

The C sources are cited as `src/src/rtk_core.c`, etc., relative to the directory
above.

## 1. The system

| Component | Source | State | Operations | Interacts with |
|---|---|---|---|---|
| Lifecycle API | `rtk_core.c` | `g_rtk_ctx`: `initialized`, `state`, `running`, `worker_running`, `worker_thread`, under `state_mutex` | init, deinit, start, stop, get_state | creates and joins the Sixents worker; called by any application thread |
| Sixents worker | `rtk_core.c:205-350` | `sixents_init`, `sixents_started`, locals `reconnect_count`, `tick_error_count` | outer reconnect loop, inner tick loop, backoff | Sixents library; status and error callbacks; GGA buffer |
| Backoff | `rtk_core.c:165-187` | none | `calc_backoff_ms`, `sleep_interruptible` | Sixents worker |
| GGA hand-over | `rtk_core.c:519-550`, `rtk_gga.c`, `rtk_serial.c:400-530` | `gga_buffer`, `gga_ready` under `gga_mutex`; the position cache under the port's mutex; the GPS worker's local `pos` | parse, cache, input, validate, build, send | GPS worker or application writes, Sixents worker sends, application reads the cache |
| Callbacks | `rtk_core.c:556-674`, `740-764` | four function pointers and the last error under `callback_mutex` | register, dispatch | copied under the lock, called without |
| UDP broadcast | `rtk_broadcast.c` | socket, address, `broadcast_enabled` under `broadcast_mutex` | enable, disable, send | both workers send |
| Serial port | `rtk_serial.c` | `fd`, `state`, `error_count`, `reconnect_count`, last position | open, close, reconnect, read, write | GPS worker reads and reconnects, Sixents thread writes, main and applications open and close |
| GPS worker | `rtk_gps_worker.c` | `running`, receive buffer, `last_nmea_time`, `last_broadcast_time` | start, stop, the thread's loop, RTCM callback | serial port, broadcast, GGA hand-over, callbacks |
| Service process | `rtk_main.c` | `g_running`, configuration | start-up and shutdown order | everything |
| Configuration | `rtk_config.c` | text | load, validate | main decides by the outcome |
| Logging | `rtk_log.c` | level, log callback | print | called everywhere, also under mutexes; calls the application |
| Sixents library | `thirdparty/sixents` (binary) | a session | sdkInit, sdkStart, sdkTick, sdkStop, sdkFinal | calls back from its calls and its own thread |

What is hard, and which property makes each component correct:

* **Lifecycle**: deinit unlocks in the middle, init wipes the mutex it holds,
  stop joins outside the lock, the worker overwrites the state. Correct means: one
  worker at a time, stop returns and leaves nothing, no undefined join, and the
  library sees its calls in order.
* **Worker**: every failure path must close what it opened, record a reason and
  try again; a stop must be noticed everywhere.
* **Serial port**: reads and writes run on a duplicate of the descriptor while
  others close and reopen the port. Correct means: no descriptor number is used
  after somebody else got it, none is lost, a closed port stays closed, and errors lead to a reconnect.
* **GPS worker**: unsigned time differences, heartbeats in four states, a stop in
  the middle of a reconnect. Correct means: heartbeats are spaced, an alarm is
  real, an error is recovered from, stop gives the port back.
* **GGA hand-over**: a position is parsed into a variable that is never reset,
  cached under one mutex, handed over under another, sent under a third thread's
  control. Correct means: a position that is called usable comes from a sentence with a fix and has that sentence's
  coordinates, sentences without a fix are not handed over, the cache is not behind, and the wait for the buffer ends.
* **Broadcast**: the switch is looked at without the mutex and the socket used under it.
  Correct means: no packet leaves while it is off or to an address it was not turned on for,
  and no socket is lost.
* **Callbacks and locks**: five mutexes, logging and callbacks in between. Correct means: no circle
  of threads waiting for one another, and callbacks that are free to call the API.
* **Service process**: a start that may fail anywhere, a signal that may come anywhere. Correct means: it
  ends, and what it brought up is taken down in an order in which no thread outlives its mutexes.
* **Receive buffer**: sentences split over reads, overflow, overlong lines. Correct
  means: what is handed on was sent, whole, in order, once and completely.

`PROJECT.json` lists the hazards line by line, with the properties that cover each or the reason why none does.

## 2. Modules

| Module | Models | Remarks |
|---|---|---|
| `RtkLifecycle` | what the lifecycle API promises | abstract: a phase and a session |
| `RtkCore` | lifecycle API, Sixents worker, status callback | any number of callers and threads |
| `RtkCoreOwned` | `RtkCore` under the discipline of the bundled program | properties, refinement mapping to `RtkLifecycle`, inductive invariant |
| `RtkCoreProofs` | proofs about it | |
| `RtkBackoff`, `RtkBackoffProofs` | `calc_backoff_ms` and the counting around it | the code's numbers |
| `RtkSerial` | the serial port over a descriptor table | any threads, any calls |
| `RtkGps`, `RtkGpsProofs` | GPS worker, start and stop, RTCM callback, an application | extends `RtkSerial`, whose operations are its steps; the proofs are of both |
| `RtkNmea`, `RtkNmeaProofs` | the receive buffer | bytes are `$`, newline, other |
| `RtkGga`, `RtkGgaProofs` | a position on its way from the sentence to the cache, the packet, the callback and the cloud | the GPS worker, the Sixents worker and an application |
| `RtkSwitch` | what the broadcast switch promises | abstract: a target and the last packet |
| `RtkBroadcast`, `RtkBroadcastProofs` | the UDP socket, its switch and its senders | refines `RtkSwitch` |
| `RtkLocks`, `RtkLocksProofs` | who takes which mutex while holding which, callbacks and joins | every function as the set of its paths |
| `RtkService`, `RtkServiceProofs` | the bundled program: main from configuration to exit | extends `RtkGps`, takes `RtkBroadcast` as an instance and the contract of `RtkLifecycle` for the SDK |
| `MC*` | instances for TLC | who calls what, symmetry |

Definitions whose comment starts with "Mutant of" are the plausible bugs with which each
property was tested; no next-state relation contains them.

### 2.1 RtkCore

*State.* The fields of `rtk_context_t` keep their names. `pc[c]` is where
application thread `c` is in its API call, `wpc[w]` where worker thread `w` is.
`sdk` is the phase of the Sixents library, `notified` the last state given to the
status callback, `last_error` whether `last_error_msg` is non-empty.

*Steps.* A critical section of `state_mutex` is one step, because nothing outside it can
see its middle. The exception is `rtk_sdk_init`: its `memset` zeroes the locked
mutex, so `InitEnter`, `InitWipe` and `InitFill` are separate and others can get
between them. Reads of `worker_running` are not locked in the code and are steps of
their own. A call into the library is a step with each outcome an action.
`rtk_sdk_deinit` is `DeinitRunning` (unlock), the steps of the stop it calls, and
`DeinitFinish`, which looks at nothing again, as in the code. `SetBroadcast` may be called at any time, before an
init as well: the code does not look at `initialized` there.

*Undefined behaviour.* `pthread_join` on a thread already joined, or being joined, is
undefined: `StopJoinUndefined` may take it as a return, or it may hang (the step is not fair).

*Left out.* GGA data, RTCM data, counters, logging. Time: a sleep may end at any
moment, which only adds behaviours.

*Discipline.* The header and the API document disagree with the code about which threads
may call what. `RtkCoreOwned` states the discipline the bundled program follows and under
which the code is correct (`OwnerAssumption`): one thread makes all init, stop and deinit
calls; other threads may start and switch the broadcast, unless the owner deinitialises.
What goes wrong without it is shown by the run `core_joins` and listed after it in section 3; what is left without it is
shown by `core_races`.

### 2.2 RtkSerial and RtkGps

`RtkSerial` has one action per critical section: `Reconnect` and `ReopenOk`/`ReopenFails` are
the two sides of the unlocked delay; `Begin` duplicates the descriptor, `End` closes the
duplicate. The descriptor table is external: the kernel gives the lowest free number,
which is what makes a stale number dangerous. `error_count` stops at the threshold, the only
value it is compared with.

`RtkGps` adds the threads of the program. Its actions call those of `RtkSerial` and move the
program counters. Time is a `Tick` that ages the time stamps; `now_nmea` and `now_bcast` are the
differences the code computes from its snapshot `now`, with the value `Wrapped` where the
unsigned subtraction goes below zero. Ages stop at the larger timeout (`AgeLimit`).
The sentences in the buffer are a nondeterministic sequence of valid GGA and others: what becomes of their
bytes is `RtkNmea`'s subject, what becomes of the position `RtkGga`'s.

### 2.3 RtkNmea

`Receive` is the append with the overflow branch, `NoStart`, `Incomplete`, `TooLong` and `Deliver` are the
four returns of `extract_nmea_sentence_v2` together with the loop that consumes what they
report. `stream` and `out` are history: what came in, and where in it the delivered sentences lie.

### 2.4 RtkBackoff

The loop of `calc_backoff_ms`, one iteration per step, called after each failure in a row.

### 2.5 RtkGga

A sentence is a number and a kind. The kinds are what the code's checks can tell apart: a fix with coordinates (`fix`)
or with empty ones (`empty`); either of them with a remnant before it (`mixed`, `mixed_empty`: found by
`rtk_serial_parse_nmea`, refused by `rtk_gga_validate`); coordinates without a fix (`nofix`); neither (`blank`); and one that
does not parse (`bad`). The code tests the latitude's and the longitude's field separately; "empty" stands for either or both
being too short, since a position with one of them old is as wrong as one with two. A position remembers which sentence its coordinates
and its fix were read from, because `parse_gga` writes only the fields it finds into a `pos` that is
reused. `gpc` follows the GPS worker through cache, `rtk_sdk_input_gga`, packet and position callback;
`wpc` the Sixents worker to and through `sixents_sdkSendGGAStr`, during which `gga_mutex` is held
(`wpc = "sending"`, hence `gga_mutex_free`). The port is opened by `rtk_gps_worker_start` only. No sentence
is assumed to be complete: `fix(p)` is the fix of the sentence a position was parsed from last, whatever its coordinates are.

### 2.6 RtkBroadcast and RtkSwitch

A critical section of `broadcast_mutex` is a step. `Check` is the unlocked look at `broadcast_enabled` before a
packet is built, `Send` the send after it; everything may happen in between, and `Send` goes to the address
that is in force by then or nowhere. The kernel gives sockets the lowest free number. `RtkSwitch` is the promise: the
refinement maps its `target` to the address while enabled, and to none otherwise.

### 2.7 RtkLocks

For each function the set of its paths, and a path is the sequence of lock, unlock, callback and join on it, the
calls of other functions inserted (`++` combines all paths of one with all of another). A critical section in which
nothing of this happens is one `Use`. `Calls` says which thread calls what (`GpsCalls` and `SixentsCalls` are read off the two thread functions); `Reentry`, a constant, which
API functions a callback calls. In `ReentryApi` it is what `doc/API.md` section 7.1 permits, one or two functions for each
callback so that each mutex is reached from inside one.

### 2.8 RtkService

`at` is where main is. `phase` is the SDK as `RtkLifecycle` describes it, what `RtkCore` under its discipline was shown to
implement (and `ServiceKeepsLifecycle` in 4. that main uses it so); main is the only owner, so the discipline holds. Start and stop of the GPS worker are the actions of `RtkGps`, the
switch and the packets those of `RtkBroadcast`, with the two workers as senders. The Sixents thread dispatches corrections and
relays them as packets (`rtk_sixents_diff_callback`), one at a time, and only while a session is open: `SdkStopped` waits for it. The
signal handler clears `g_running` at any point. The outcome of the configuration is a choice: unreadable, rejected, or
accepted with a port the broadcast takes or refuses. `Switching` lets something else switch the broadcast while main is in its loop,
which the bundled program does not do; it makes the refinement of `RtkSwitch` worth checking.

## 3. Runs

| Run | Checks | Bounds |
|---|---|---|
| `core_single` | `IInv`, `JoinsAreDefined`, `SdkCallsInOrder`, `StoppedMeansGone`, `DeinitReleasesAll`, `RetryingShowsReason`, `RunningMeansConnected`, `NoStatusAfterStop`; `StopReturns`, `LostSessionRetried`, `ImplementsLifecycle` | 1 caller with the whole API, 2 thread identities, threshold 3, reconnect count up to 2 |
| `core_races` | `StopIsNoticed` | 2 callers that make any lifecycle call, 1 worker, threshold 1 |
| `backoff` | `WaitBounded`, `WaitsAreExponential` | the code's constants, 25 failures |
| `gps_service` | `GpsTypeOK`, `NoLeak`, `StoppedMeansClosed`; `HeartbeatsSpaced`, `ClosedUntilOpened`, `PortRecovers` | 3 threads, 3 descriptors, thresholds 2, interval 1, timeout 2 |
| `gps_app` | `DescriptorSafety`; `StopReturns` | a fourth thread that opens and closes, 4 descriptors |
| `nmea_stream` | `TypeOK`, `BufferIsSuffix`, `SentencesIntact`, `NoSentenceLost` | buffer 6, sentence 5, reads of up to 2, 8 bytes of stream |
| `gga` | `UsableIsFix`, `ReportedHasFix`, `CacheNotBehind`; `SendUndisturbed`, `HandedInIsSent`, `InputReturns` | 3 sentences of any of the 7 kinds or from the application, interval 2 |
| `locks` | `LocksInOrder`, `NoDeadlock`, `CallbacksHoldNothing` | 3 threads, calls inside callbacks one level deep |
| `service` | `EverythingReleased`, `NobodyLeftAtDeinit`; `ImplementsSwitch`, `SignalEndsProgram` | 3 threads, 3 descriptors, 2 socket numbers, 1 address, thresholds, interval and timeout 1 |

*Why the bounds are enough.* `reconnect_count` of the worker is only compared with 0, thus 2 is as good as any
number. Two workers are what a lost join needs; under the discipline there is
never a second one. `core_single` has one caller; starters beside the owner are left to the theorems of section 4, which hold
for any number of them. A threshold of 3 shows the reset of a count in between; in
`core_races` the threshold is 1, and there is one thread identity (taken again after a join, also an undefined one), to keep
two callers that do anything within reach: the question there is whether a worker, wherever it is when `worker_running` is
cleared, comes to its end, and a second worker would only do the same beside it.
A serial port with its duplicates uses at most as many numbers as there are
threads, plus one for the port and, when descriptors leak, one for each leak:
`gps_app`, where descriptors leak, also runs out of numbers. In `gps_service` the interval and the
timeout differ, so that the heartbeat and the alarm do not coincide.
In `nmea_stream` the stream is longer than the buffer, the buffer fits a sentence and a bit,
and all ways of cutting 8 bytes up are tried: overflow, an overlong sentence, a sentence
split between reads and two sentences in a buffer all occur.
Three sentences in `gga` are one in the buffer, one in hand and one to replace either, each from the module or the application. In
`locks` nothing a callback calls there calls a callback other than the log's, which is silent, so one level is all there is. `service` composes what `gps_service` has
checked with larger thresholds; with threshold 1 every step of main still meets the worker in every place. Two socket
numbers are one more than is ever open, so that a lost socket does not stop the program. It has one address; that an enable
for another one moves no packets is not visible there and is what `BroadcastImplementsSwitch` and `ServiceImplementsSwitch` prove,
for any set of addresses.

*Runs that find a disagreement.* Each checks one statement that a document or comment makes and the
code does not keep; `PROJECT.json` quotes the line.

| Run | Statement | What happens |
|---|---|---|
| `core_joins` | all API functions are thread safe (`doc/API.md:446`) | `JoinsAreDefined`: deinit and stop join the same worker |
| `backoff_examples` | the 5th wait is about 12 s, the 10th about 55 s (`rtk_core.c:163`) | `WaitsAsCommented`: they are 19.7 s and 206 s; the table of the architecture document (lines 388-399: 12.3 s and 77 s) is a third version |
| `gps_silence` | 10 seconds of grace after a reconnect (`doc/RTK_Service_Process_Guide.md:290`) | `SilenceIsReal`: the unsigned difference wraps, the alarm is sent at once |

`JoinsAreDefined` is also checked by a passing run, under the discipline of the bundled program.

Observed while modelling, without a run of their own (most are in the hazards of `PROJECT.json`):

* With a second thread that starts, `DeinitReleasesAll` fails: a start in the unlocked middle of a deinit leaves its worker running
  beside destroyed mutexes (`rtk_core.c:418`; `include/rtk_sdk.h:193`: deinit releases all resources).
* Two threads that initialise both get `RTK_OK`: the first call wipes the mutex it holds (`rtk_core.c:375`; `doc/API.md:462`: a
  repeated initialisation returns an error).
* A stop that waits for the worker may be shown as CONNECTING or RUNNING, which the worker writes over STOPPING
  (`rtk_core.c:245`; `doc/RTK_SDK_Architecture.md:247`: STOPPING is followed by INIT). One caller is enough.
* With an application that closes a port in ERROR, `ClosedUntilOpened` fails: the reconnect of the GPS worker undoes the close
  (`rtk_serial.c:217`; `doc/RTK_SDK_Architecture.md:253`: CLOSED is left by `rtk_serial_open()`); a read that fails after the
  close sets ERROR.
* Failing writes are counted and never lead to ERROR (`rtk_serial.c:362`; `doc/RTK_Service_Process_Guide.md:287`: three read or
  write errors start a reconnect).
* A fix with empty coordinates is cached and sent with `gps_state` 2 and the coordinates of an earlier sentence, or uninitialised ones
  (`rtk_serial.c:448`; `doc/RTK_Service_Process_Guide.md:410`: position data, usable). Hence the condition in `UsableIsFix`.
* A log callback that asks for the position waits for its own thread, because `rtk_log` is called under a mutex
  (`rtk_serial.c:220`; `doc/API.md:446-449` forbids only stop and deinit in callbacks). Hence `ReentrySafe`.
* The CONNECTING report of a start, sent after the lock is released, may follow the worker's RUNNING.
* A device that hangs up is never noticed, because `read` returns 0. Only valid GGA sentences reset the silence timer. After an
  overlong sentence complete ones wait for the next read.
* The limit of reconnects counts those of a lifetime: after 20, successful ones included, the port stays in ERROR.
* The last GGA is sent every second for as long as the session lasts, also when the fix is lost.
* `rtk_sdk_deinit` destroys `callback_mutex` and then logs (`rtk_core.c:437`), which locks it: main itself does what
  `NobodyLeftAtDeinit` says no other thread can. `g_position_cb` (`rtk_core.c:683`) is not
  part of the context and survives a deinit and an init. What is registered or enabled before `rtk_sdk_init`
  is wiped by it, an open socket included.
* `rtk_config_validate` warns about an out-of-range value and says it takes the default, and leaves the value (`rtk_config.c:173`). With its
  standard input at the end of file main's loop does not wait any more.

*Fairness.* `RtkCore`: weak fairness of every thread's own steps (threads are scheduled,
mutexes are released, calls into the library return) and none for starting API calls, failing or
succeeding of the library, or undefined joins. `StopIsNoticed` needs the worker's alone; it makes an exception for a
`state_mutex` that is held, because without discipline nobody keeps two threads from initialising again and again and so from
keeping the worker out. `RtkGps`: weak fairness of the steps of each
thread once it is inside a call, of the GPS worker, and of the end of a
receive buffer: it is finite, so it is not always the case that another sentence follows.
Reads return because `select` has a timeout; the model assumes the same of `write` and `tcdrain`.
No fairness is assumed of reads succeeding or ports reopening; `PortRecovers` therefore says that an
ERROR ends in OPEN, in a stop, or in the limit of reconnects. `RtkGga`: weak fairness of time, of the two workers' own steps and of the
return of a send; strong fairness of `InputGga`, since between two sends the Sixents worker sleeps without the mutex
(`rtk_core.c:298`), long enough for a thread that is blocked on it to get it. Nothing is assumed about sentences
arriving or sessions lasting. `RtkService`: the fairness of its parts, and strong fairness of two things that are interrupted
again and again: the end of a receive buffer, because packets are sent in between, and the return of `rtk_sdk_stop`
(`StopReturns` of `core_single`), because corrections arrive in between. Signals and switching are not fair.

Deadlock is checked in every run: no modelled system may stop, and the exited program still has its clock ticking.

## 4. Proofs

All theorems are checked by TLAPS with no assumption but the named ones of the modules.

* `RtkCoreProofs`. `TypeCorrect` needs no discipline: that `TypeOK`, with its bounds on the counters, is inductive only
  together with `NoTickPastThreshold` is what makes the threshold end a session. Under
  `OwnerAssumption`, `Invariance` proves `IInv`, the conjunction of `TypeOK`,
  `NoTickPastThreshold`, `Turns` (which points of the API the callers can be at together, and what
  the flags are there), `OneWorker` (a thread exists only while `running`, and it is
  `worker_thread`), `Phase` (the library's phase and the two flags at each point of the worker) and
  `Reports` (a retry has a reason). Each has a lemma of its own (`TurnsStep`, ...), which uses
  the others: `OneWorker` needs `Turns` to know that nobody starts during a stop, `Phase` needs `OneWorker`
  to know that no second worker moves the library. From `IInv` follow `SixentsProtocol`,
  `StopWaits`, `JoinSafety`, `RetryReason` and `RunningIsConnected`; `DeinitReleases`, an action property, because only a deinit that
  finds nothing running clears `initialized` (`OnlyDeinitClears`). `StopIsLast` needs one thing more
  (`Quiet`): a single caller makes its CONNECTING report while the service runs.
* `LifecycleRefinement`: each step of `RtkCore` maps to a step of `RtkLifecycle` or a stutter, where
  the phase is read off the three flags and the session off `sdk`. The worker's session steps map
  because `OneWorker` puts the phase in active or stopping, `StopFinish` because `Phase` has closed the session.
* `RtkBackoffProofs`: `WaitIsBounded` for every base, maximum and factor of at least 100; the arithmetic
  is in `GrowsOrStays`. `WaitsGrowByFactor`: the code computes each wait from the base anew, the documents speak of
  the wait before. A `Row` is a sequence of waits as the documents have it; one of any length exists (`RowsExist`, by the least length that
  has none), it never falls below the base and stays at the maximum once it is there (`RowAboveBase`, `RowStaysAtMax`). The invariant
  `InRow` says that `delay_ms` in the i-th turn of the loop, and `waited` between two failures, are members of it.
* `RtkGpsProofs`, the port: `SerialInvariance`, `TypeOK /\ DescriptorSafety /\ StateMatchesFd`, which is inductive:
  every number has one owner who alone closes it. `GpsImplementsSerial`: the service takes no step with the port that is
  not one of `RtkSerial`; hence `GpsDescriptors`.
* `RtkGpsProofs`, the worker: `GpsTypes` for any threads, applications at the port included. When none uses the port (`App \notin Threads`),
  `GpsInv` adds to the port's invariant which call each thread is in (`Ops`), that a number is held by the port or by the call that
  duplicated it (`Owned`), and that the port is in main's hands while the worker does not run (`Turns`). `GpsLosesNoDescriptor`,
  `GpsGivesBack` and `GpsClosedUntilOpened` follow: a reconnect finds the port in ERROR or RECONNECTING and nobody can close it
  meanwhile. `GpsHeartbeatsSpaced` is about the ages: what the worker computed from its snapshot is not larger than
  the age is now, and it cannot wrap between the head of the loop and the heartbeats there (`Paced`).
* `RtkNmeaProofs`, for all sizes, every stream and every way of cutting it up. The buffer is the end of the stream (`NmeaBuffer`, from
  `Buffered`), and what was handed on lies in order before it (`NmeaSentences`, from `Delivered`); that `memchr` finds the first
  place rests on the least element of a set of numbers (`Least`). `NmeaLosesNothing` needs more (`Lossless`, as long as nothing was dropped): the
  sentences that end before the buffer have been handed on and no others (`Complete`), no line that began before the buffer is still
  open where the buffer begins (`Closed`; without it a sentence could start in the part that is gone), and the thread reads
  again only when no end is left in the buffer (`NoEnd`). An append leaves the sentences of the old part as they were
  (`ReferenceGrows`), a cut removes none (`LosslessCut`), a delivery adds the one that ends first. `NmeaTypes` follows from the same.
* `RtkGgaProofs`: `GgaUsable` (the fix is that of the sentence parsed last, the coordinates are its own if it has any; that they are
  always its own is false, see section 3), `GgaReported` and `GgaCache`, from `InHand` (while the worker works on a sentence, `pos` is what was parsed from it, and
  behind the cache step it is in the cache) and `BufferNotAhead`; `SendIsUndisturbed`, for the mutex.
* `RtkLocksProofs`: `OrderPreventsDeadlock`, in every state in which mutexes are wanted upwards there is no circle, by rank from above.
  `LocksAreOrdered` and `CallbacksAreFree` say that the reachable states are such, for any threads and any callbacks. The paths are not
  enumerated: a `Piece` is a part of a path whose every step is in order, from one set of held mutexes to another, and pieces
  can be put together (`ConcatPiece`), also under a mutex of lower rank (`UnderPiece`). Each function's paths are pieces from no mutex to none, or
  as it is called. The invariant `LocksInv`: what is left of a thread's call is a piece from what it holds to
  nothing; a callback's call of the API only puts another piece before it. `LocksNeverDeadlock` combines the two. The hypothesis is
  `ReentrySafe`: no callback ends a thread, which `doc/API.md` 7.1 forbids, and the log's calls nothing, which no document says
  and the code needs. `MCRtkLocks` has TLC check that the instance of the run keeps to it.
* `RtkBroadcastProofs`: `SocketSafety` and `BroadcastImplementsSwitch`, from the invariant that the process holds the switch's
  socket exactly while it is on and that the address is then a good one.
* `RtkServiceProofs`: the program's steps are steps of `RtkGps` and of `RtkBroadcast` or leave them alone (`ServiceUsesGps`, `ServiceUsesBroadcast`), so the
  two invariants carry over, and `ServiceImplementsSwitch` with them. `Stage` says what is up at each point of main;
  the three together give `ServiceReleases` and `ServiceDeinitAlone`. `ServiceKeepsLifecycle` closes the gap to `RtkCore`: with a
  correction under way as the sign of a session, the program takes only steps that `RtkLifecycle` allows, which is what `RtkCore` implements.

Hypotheses other than the assumptions on constants are three: `OwnerAssumption` for `RtkCoreOwned`, `App \notin Threads` where a theorem is about
the bundled program, which has no other user of the port, and `ReentrySafe`. Section 3 says what goes wrong without them.

*Only model-checked.* Liveness: `StopReturns`, `StopIsNoticed`, `LostSessionRetried`, `PortRecovers`, `HandedInIsSent`, `InputReturns`,
`SignalEndsProgram` and the fair part of `ImplementsLifecycle`; the prover has no reasoning about fairness. Every invariant and every
`[][A]_vars` of a passing run is a theorem. That the `Switch` refinement has no liveness part is because a packet need never be sent.

## 5. Not modelled

* Text: log output, the configuration parser, command line and the informational commands of main, the contents of a packet, the
  numbers in a sentence (checksum, degrees, `rtk_gga_build`): sequential, and no property speaks of them.
* Which function is registered for a callback, other than the RTCM callback that start and stop of the GPS worker set and clear;
  that a callback may still run after its removal is the documented copy-then-call.
* What a program may rely on after two concurrent calls of `rtk_sdk_init`: `RtkCore` has the steps and both
  get in, but nothing is promised from there on.
* What the signal handler of main does beside clearing `g_running`: its `printf` (`rtk_main.c:42`) is not async-signal-safe; the
  models have no standard output whose state it could find half-changed.
* The inside of the Sixents library: a binary. Its calls succeed or fail as they like, its status callback
  may come during `sdkStart` and `sdkTick`, its corrections while there is a session. Its status codes are not told apart.
* Memory-model effects of the unlocked flags (`worker_running`, `broadcast_enabled`, `running` of the GPS
  worker): a read sees the last write. Callers that stop or deinitialise from inside a callback, which the API forbids.

## 6. Plan

Done: all modules above. What could follow, in this order:

1. The status codes of the library as events of their own, for the error message that stays set beside a running session
   (`rtk_internal.h:86`).
2. Registration in full: an application's RTCM callback against the GPS worker's, removal against dispatch.
3. The values of the configuration (timeouts over 60 s, ports below 1024) carried through to the calls that take them.
4. Proofs: `RtkCore` without the discipline beyond `TypeCorrect`, e.g. what a second starter can and cannot break.
