----------------------------- MODULE RtkBackoff -----------------------------
(***************************************************************************)
(* calc_backoff_ms (src/src/rtk_core.c) and the loop of rtk_worker_thread  *)
(* that calls it: how long the worker waits after each failure in a row.   *)
(* The numbers are the code's milliseconds; next is 64 bits wide in the    *)
(* code and delay_ms, always below RTK_RECONNECT_MAX_MS, 32.               *)
(***************************************************************************)
EXTENDS Integers

CONSTANTS
    RTK_RECONNECT_BASE_MS, RTK_RECONNECT_FACTOR, RTK_RECONNECT_MAX_MS,
    AttemptLimit    \* bound: reconnect_count saturates here

ASSUME BackoffAssumption ==
    /\ RTK_RECONNECT_BASE_MS \in Nat /\ RTK_RECONNECT_FACTOR \in Nat
    /\ RTK_RECONNECT_MAX_MS \in Nat /\ AttemptLimit \in Nat \ {0}
    /\ RTK_RECONNECT_BASE_MS <= RTK_RECONNECT_MAX_MS
    /\ RTK_RECONNECT_FACTOR >= 100

VARIABLES
    reconnect_count,
    i, delay_ms,     \* locals of calc_backoff_ms
    waited,          \* what the previous wait of this row of failures was, or 0
    pc               \* "connect", "calc" or "wait"

vars == <<reconnect_count, i, delay_ms, waited, pc>>

TypeOK ==
    /\ reconnect_count \in 0..AttemptLimit
    /\ i \in Nat \ {0}
    /\ delay_ms \in Nat /\ waited \in Nat
    /\ pc \in {"connect", "calc", "wait"}

Init == /\ reconnect_count = 0 /\ i = 1
        /\ delay_ms = RTK_RECONNECT_BASE_MS /\ waited = 0
        /\ pc = "connect"

\* sdkInit, sdkStart or the ticks fail: reconnect_count++, then the backoff
\* for the new count is computed.
Fail ==
    /\ pc = "connect"
    /\ reconnect_count' = IF reconnect_count < AttemptLimit
                          THEN reconnect_count + 1 ELSE reconnect_count
    /\ i' = 1 /\ delay_ms' = RTK_RECONNECT_BASE_MS
    /\ pc' = "calc"
    /\ UNCHANGED waited

\* Mutant of Succeed: the count is not reset.
SucceedKeepsCount ==
    /\ pc = "connect"
    /\ waited' = 0
    /\ UNCHANGED <<reconnect_count, i, delay_ms, pc>>

Succeed ==
    /\ pc = "connect"
    /\ reconnect_count' = 0
    /\ waited' = 0
    /\ UNCHANGED <<i, delay_ms, pc>>

next == (delay_ms * RTK_RECONNECT_FACTOR) \div 100

\* Mutant of Grow: the cap is applied one step late.
GrowPastMax ==
    /\ pc = "calc" /\ i < reconnect_count
    /\ delay_ms < RTK_RECONNECT_MAX_MS
    /\ delay_ms' = next
    /\ i' = i + 1
    /\ UNCHANGED <<reconnect_count, waited, pc>>

Grow ==
    /\ pc = "calc" /\ i < reconnect_count
    /\ next < RTK_RECONNECT_MAX_MS
    /\ delay_ms' = next
    /\ i' = i + 1
    /\ UNCHANGED <<reconnect_count, waited, pc>>

Capped ==
    /\ pc = "calc" /\ i < reconnect_count
    /\ next >= RTK_RECONNECT_MAX_MS
    /\ delay_ms' = RTK_RECONNECT_MAX_MS
    /\ pc' = "wait"
    /\ UNCHANGED <<reconnect_count, i, waited>>

Return ==
    /\ pc = "calc" /\ i >= reconnect_count
    /\ pc' = "wait"
    /\ UNCHANGED <<reconnect_count, i, delay_ms, waited>>

\* sleep_interruptible(delay_ms), then the next attempt
Wait ==
    /\ pc = "wait"
    /\ waited' = delay_ms
    /\ pc' = "connect"
    /\ UNCHANGED <<reconnect_count, i, delay_ms>>

Next == Fail \/ Succeed \/ Grow \/ Capped \/ Return \/ Wait

Spec == Init /\ [][Next]_vars

-----------------------------------------------------------------------------
(* Properties                                                              *)

\* The wait is at least the base and at most the maximum.
WaitBounded ==
    pc = "wait" => delay_ms \in RTK_RECONNECT_BASE_MS..RTK_RECONNECT_MAX_MS

\* The code computes each wait from the base anew; in a row of failures that
\* gives the formula of doc/RTK_SDK_Architecture.md:370: the first wait is
\* the base, each one is the previous one times the factor, rounded down, up
\* to the maximum.  A success in between starts the row afresh.
WaitsAreExponential ==
    pc = "wait" /\ reconnect_count < AttemptLimit =>
        delay_ms = LET scaled == (waited * RTK_RECONNECT_FACTOR) \div 100
                   IN  IF waited = 0 THEN RTK_RECONNECT_BASE_MS
                       ELSE IF scaled < RTK_RECONNECT_MAX_MS THEN scaled
                       ELSE RTK_RECONNECT_MAX_MS

\* The examples in the comment of calc_backoff_ms (rtk_core.c:163), with half
\* a second to either side: the 5th failure waits about 12 s, the 10th about
\* 55 s.
WaitsAsCommented ==
    pc = "wait" => /\ reconnect_count = 5  => delay_ms \in 11500..12500
                   /\ reconnect_count = 10 => delay_ms \in 54500..55500
=============================================================================
