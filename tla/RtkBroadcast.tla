---------------------------- MODULE RtkBroadcast ----------------------------
(***************************************************************************)
(* src/src/rtk_broadcast.c: the UDP socket, opened and closed by the       *)
(* broadcast switch under broadcast_mutex, and its senders, which look at  *)
(* broadcast_enabled without the mutex before they call rtk_broadcast_send.*)
(*                                                                         *)
(* A step is a critical section.  A call that returns without changing     *)
(* anything is no step: an enable while enabled, whatever its address; one *)
(* refused for its port, or whose socket or setsockopt fails; a disable    *)
(* while disabled.  What is in a packet is left out.                       *)
(***************************************************************************)
EXTENDS Naturals

CONSTANTS
    Senders,    \* threads that send packets
    Addrs,      \* addresses inet_pton accepts, with a port
    Malformed,  \* one it does not
    NoAddr,     \* the zeroed address
    Socks,      \* descriptor numbers a socket may get
    NoSocket    \* -1

\* Assumed by whoever takes the module.
BroadcastConstants ==
    /\ NoAddr \notin Addrs
    /\ Socks \subseteq Nat \ {0}
    /\ NoSocket \notin Socks \cup {0}

VARIABLES
    broadcast_enabled, broadcast_socket, broadcast_addr,   \* g_rtk_ctx
    checked,   \* senders that saw broadcast_enabled set and are yet to send
    open,      \* sockets the process holds (external)
    sent       \* where the last packet went (external)

switch == <<broadcast_enabled, broadcast_socket, broadcast_addr>>
vars   == <<switch, checked, open, sent>>

TypeOK ==
    /\ broadcast_enabled \in BOOLEAN
    /\ broadcast_socket \in Socks \cup {0, NoSocket}
    /\ broadcast_addr \in Addrs \cup {Malformed, NoAddr}
    /\ checked \subseteq Senders /\ open \subseteq Socks
    /\ sent \in Addrs \cup {NoAddr}

\* The zeroed context, before rtk_sdk_init.
Init ==
    /\ broadcast_enabled = FALSE /\ broadcast_socket = 0 /\ broadcast_addr = NoAddr
    /\ checked = {} /\ open = {} /\ sent = NoAddr

\* rtk_sdk_init, by an application that enables the broadcast only after it
Reset ==
    /\ ~broadcast_enabled
    /\ broadcast_socket' = NoSocket
    /\ broadcast_addr' = NoAddr
    /\ UNCHANGED <<broadcast_enabled, checked, open, sent>>

-----------------------------------------------------------------------------
\* The kernel: a new descriptor gets the lowest free number.
Opened == \E s \in Socks \ open : /\ \A n \in Socks \ open : s <= n
                                  /\ broadcast_socket' = s
                                  /\ open' = open \cup {s}

(* rtk_broadcast_init                                                      *)
Enable(a) ==
    /\ ~broadcast_enabled
    /\ Opened
    /\ broadcast_addr' = a
    /\ broadcast_enabled' = TRUE
    /\ UNCHANGED <<checked, sent>>

\* The address has been overwritten when inet_pton rejects it.
EnableMalformed ==
    /\ ~broadcast_enabled
    /\ broadcast_addr' = Malformed
    /\ UNCHANGED <<broadcast_enabled, broadcast_socket, checked, open, sent>>

\* Mutant of Disable: the socket is forgotten, not closed.
DisableLeaks ==
    /\ broadcast_enabled
    /\ broadcast_socket' = NoSocket
    /\ broadcast_enabled' = FALSE
    /\ UNCHANGED <<broadcast_addr, checked, open, sent>>

\* rtk_broadcast_deinit
Disable ==
    /\ broadcast_enabled
    /\ open' = open \ {broadcast_socket}
    /\ broadcast_socket' = NoSocket
    /\ broadcast_enabled' = FALSE
    /\ UNCHANGED <<broadcast_addr, checked, sent>>

-----------------------------------------------------------------------------
(* A sender: the unlocked look, then rtk_broadcast_send                    *)
Check(t) ==
    /\ t \notin checked
    /\ broadcast_enabled
    /\ checked' = checked \cup {t}
    /\ UNCHANGED <<switch, open, sent>>

\* Mutant of Deliver: the switch is not looked at again under the mutex.
DeliverUnchecked == sent' = broadcast_addr

\* sendto over the switch's socket, if that is still open
Deliver ==
    /\ broadcast_enabled
    /\ broadcast_socket \in open
    /\ sent' = broadcast_addr

\* NOT_RUNNING, or sendto fails, or the packet is out
Send(t) ==
    /\ t \in checked
    /\ checked' = checked \ {t}
    /\ Deliver \/ UNCHANGED sent
    /\ UNCHANGED <<switch, open>>

Next == \/ Reset \/ (\E a \in Addrs : Enable(a)) \/ EnableMalformed \/ Disable
        \/ \E t \in Senders : Check(t) \/ Send(t)

Spec == Init /\ [][Next]_vars

-----------------------------------------------------------------------------
\* No socket is lost and none is used after it was closed: the process holds
\* the switch's socket while the broadcast is on, and none while it is off.
SocketMatches == open = IF broadcast_enabled THEN {broadcast_socket} ELSE {}

\* A sender between its look at the switch and its packet, a failed enable and
\* an enable while enabled never make a packet leave while the broadcast is
\* off, or to another address than that of the enable in force.
Switch == INSTANCE RtkSwitch
              WITH target <- IF broadcast_enabled THEN broadcast_addr ELSE NoAddr

\* RtkBroadcast keeps the promises of RtkSwitch.
ImplementsSwitch == Switch!Spec
=============================================================================
