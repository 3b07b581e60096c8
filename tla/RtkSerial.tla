------------------------------ MODULE RtkSerial ------------------------------
(***************************************************************************)
(* src/src/rtk_serial.c: the GPS serial port shared by the threads that    *)
(* open, close, read, write and reconnect it, and the kernel's descriptor  *)
(* table it lives on.                                                      *)
(*                                                                         *)
(* A step is a critical section of the port's mutex, together with what    *)
(* the thread does to descriptors of its own.  A call that returns without *)
(* changing anything is no step.  A sleep or a wait in select may end at   *)
(* any moment.  The port's parameters, the bytes moved and the cached      *)
(* position are left out.                                                  *)
(***************************************************************************)
EXTENDS Integers

CONSTANTS
    Threads,         \* threads that use the port
    MayUse,          \* MayUse[t]: the operations thread t calls
    Fds,             \* descriptor numbers of the process
    NoFd,            \* -1
    ErrorThreshold,  \* RTK_SERIAL_ERROR_THRESHOLD
    MaxReconnects    \* RTK_SERIAL_MAX_RECONNECT_COUNT

Operations == {"open", "close", "read", "write", "reconnect"}

ASSUME SerialAssumption ==
    /\ Threads \cap {"free", "port"} = {}
    /\ MayUse \in [Threads -> SUBSET Operations]
    /\ Fds \subseteq Nat
    /\ NoFd \notin Fds
    /\ ErrorThreshold \in Nat \ {0}
    /\ MaxReconnects \in Nat

VARIABLES
    \* g_serial_ctx
    state, fd, error_count, reconnect_count,
    \* threads
    op,     \* the call each thread is in the middle of
    dup,    \* the duplicate it reads from or writes to
    \* the descriptor table (external)
    owner   \* who has to close each number: nobody ("free"), the port, a thread

port    == <<state, fd, error_count, reconnect_count>>
threads == <<op, dup>>
vars    == <<port, threads, owner>>

States == {"CLOSED", "OPEN", "ERROR", "RECONNECTING"}

TypeOK ==
    /\ state \in States
    /\ fd \in Fds \cup {NoFd}
    /\ error_count \in 0..ErrorThreshold
    /\ reconnect_count \in 0..MaxReconnects
    /\ op \in [Threads -> {"idle", "read", "write", "reconnect"}]
    /\ dup \in [Threads -> Fds \cup {NoFd}]
    /\ owner \in [Fds -> Threads \cup {"free", "port"}]

Init ==
    /\ state = "CLOSED"
    /\ fd = NoFd
    /\ error_count = 0 /\ reconnect_count = 0
    /\ op = [t \in Threads |-> "idle"]
    /\ dup = [t \in Threads |-> NoFd]
    /\ owner = [n \in Fds |-> "free"]

Calls(t, f) == op[t] = "idle" /\ f \in MayUse[t]
In(t, f)    == op[t] = f
Goto(t, l)  == op' = [op EXCEPT ![t] = l]

-----------------------------------------------------------------------------
(* The kernel: a new descriptor gets the lowest free number.               *)
Lowest(n) == /\ n \in Fds /\ owner[n] = "free"
             /\ \A m \in Fds : owner[m] = "free" => n <= m

Allocated(n, who) == Lowest(n) /\ owner' = [owner EXCEPT ![n] = who]
Closed(n) == IF n \in Fds THEN owner' = [owner EXCEPT ![n] = "free"] ELSE UNCHANGED owner

-----------------------------------------------------------------------------
(* rtk_serial_open: refused only while OPEN.  An old descriptor that is    *)
(* still there (state ERROR) is overwritten, not closed.                   *)
OpenOk(t) ==
    /\ Calls(t, "open")
    /\ state # "OPEN"
    /\ \E n \in Fds : Allocated(n, "port") /\ fd' = n
    /\ state' = "OPEN"
    /\ error_count' = 0
    /\ reconnect_count' = 0
    /\ UNCHANGED threads

OpenFails(t) ==
    /\ Calls(t, "open")
    /\ state # "OPEN"
    /\ state' = "ERROR"
    /\ UNCHANGED <<fd, error_count, reconnect_count, threads, owner>>

\* rtk_serial_close: whatever another thread is in the middle of
Close(t) ==
    /\ Calls(t, "close")
    /\ state # "CLOSED"
    /\ Closed(fd)
    /\ fd' = NoFd
    /\ state' = "CLOSED"
    /\ UNCHANGED <<error_count, reconnect_count, threads>>

-----------------------------------------------------------------------------
(* rtk_serial_reconnect: the mutex is given up for the delay; what the     *)
(* other threads did meanwhile is not looked at again.                     *)
\* Mutants of Reconnect: no limit; the old descriptor is not closed.
ReconnectUnlimited(t) ==
    /\ Calls(t, "reconnect")
    /\ reconnect_count' = reconnect_count + 1
    /\ state' = "RECONNECTING"
    /\ Closed(fd)
    /\ fd' = NoFd
    /\ Goto(t, "reconnect")
    /\ UNCHANGED <<error_count, dup>>

ReconnectLeaks(t) ==
    /\ Calls(t, "reconnect")
    /\ reconnect_count < MaxReconnects
    /\ reconnect_count' = reconnect_count + 1
    /\ state' = "RECONNECTING"
    /\ fd' = NoFd
    /\ Goto(t, "reconnect")
    /\ UNCHANGED <<error_count, dup, owner>>

Reconnect(t) ==
    /\ Calls(t, "reconnect")
    /\ reconnect_count < MaxReconnects
    /\ reconnect_count' = reconnect_count + 1
    /\ state' = "RECONNECTING"
    /\ Closed(fd)
    /\ fd' = NoFd
    /\ Goto(t, "reconnect")
    /\ UNCHANGED <<error_count, dup>>

ReopenOk(t) ==
    /\ In(t, "reconnect")
    /\ \E n \in Fds : Allocated(n, "port") /\ fd' = n
    /\ state' = "OPEN"
    /\ error_count' = 0
    /\ Goto(t, "idle")
    /\ UNCHANGED <<reconnect_count, dup>>

\* Mutant of ReopenFails: the state stays RECONNECTING.
ReopenFailsQuietly(t) ==
    /\ In(t, "reconnect")
    /\ Goto(t, "idle")
    /\ UNCHANGED <<port, dup, owner>>

ReopenFails(t) ==
    /\ In(t, "reconnect")
    /\ state' = "ERROR"
    /\ Goto(t, "idle")
    /\ UNCHANGED <<fd, error_count, reconnect_count, dup, owner>>

-----------------------------------------------------------------------------
(* rtk_serial_read and rtk_serial_write work on a duplicate of the         *)
(* descriptor, taken under the mutex and used without it.                  *)
Usable == state = "OPEN" /\ fd # NoFd

\* NOT_RUNNING, or dup finds no free number
Refused == ~Usable \/ \A n \in Fds : owner[n] # "free"

\* Mutant of Begin: the shared descriptor is used directly.
BeginShared(t, f) ==
    /\ Calls(t, f)
    /\ Usable
    /\ dup' = [dup EXCEPT ![t] = fd]
    /\ Goto(t, f)
    /\ UNCHANGED <<port, owner>>

Begin(t, f) ==
    /\ Calls(t, f)
    /\ Usable
    /\ \E n \in Fds : Allocated(n, t) /\ dup' = [dup EXCEPT ![t] = n]
    /\ Goto(t, f)
    /\ UNCHANGED port

\* the duplicate is closed
End(t, f) ==
    /\ In(t, f)
    /\ Closed(dup[t])
    /\ dup' = [dup EXCEPT ![t] = NoFd]
    /\ Goto(t, "idle")

\* error_count++; it is only compared with the threshold, so it may stay there
OneMoreError == error_count' = IF error_count < ErrorThreshold
                               THEN error_count + 1 ELSE error_count

ReadBegin(t) == Begin(t, "read")

\* select times out, or read returns 0 bytes or EAGAIN
ReadNothing(t) == End(t, "read") /\ UNCHANGED port

ReadData(t) ==
    /\ End(t, "read")
    /\ error_count' = 0
    /\ UNCHANGED <<state, fd, reconnect_count>>

\* select or read fails; the port may have been closed or reopened since
ReadFails(t) ==
    /\ End(t, "read")
    /\ OneMoreError
    /\ state' = IF error_count' >= ErrorThreshold THEN "ERROR" ELSE state
    /\ UNCHANGED <<fd, reconnect_count>>

WriteBegin(t) == Begin(t, "write")

WriteDone(t) == End(t, "write") /\ UNCHANGED port

\* counted, but the threshold is left to the next failing read
WriteFails(t) ==
    /\ End(t, "write")
    /\ OneMoreError
    /\ UNCHANGED <<state, fd, reconnect_count>>

-----------------------------------------------------------------------------
Next == \E t \in Threads :
           \/ OpenOk(t) \/ OpenFails(t) \/ Close(t)
           \/ Reconnect(t) \/ ReopenOk(t) \/ ReopenFails(t)
           \/ ReadBegin(t) \/ ReadNothing(t) \/ ReadData(t) \/ ReadFails(t)
           \/ WriteBegin(t) \/ WriteDone(t) \/ WriteFails(t)

Spec == Init /\ [][Next]_vars

-----------------------------------------------------------------------------
(* Properties, for any threads making any calls                            *)

\* A read or write uses, and closes, a number nobody else has closed or been
\* given since: close, reconnect and reopen cannot pull it away.
DescriptorSafety ==
    /\ \A t \in Threads : op[t] \in {"read", "write"}
                            => dup[t] \in Fds /\ owner[dup[t]] = t
    /\ fd # NoFd => owner[fd] = "port"

\* A part of the inductive invariant: OPEN promises a descriptor to read from; a
\* port that is closed or being reopened has none, so that close and reopen
\* never lose one.
StateMatchesFd ==
    /\ state = "OPEN" => fd # NoFd
    /\ state \in {"CLOSED", "RECONNECTING"} => fd = NoFd

\* No descriptor of the port is lost: the only one it owns is fd.
NoLeak == \A n \in Fds : owner[n] = "port" => n = fd

\* A closed port stays closed until rtk_serial_open is called.
ClosedUntilOpened ==
    [][state = "CLOSED" /\ state' # "CLOSED"
         => \E t \in Threads : OpenOk(t) \/ OpenFails(t)]_vars
=============================================================================
