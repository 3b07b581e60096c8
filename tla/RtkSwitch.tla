----------------------------- MODULE RtkSwitch ------------------------------
(***************************************************************************)
(* What rtk_sdk_enable_broadcast and rtk_sdk_disable_broadcast promise:    *)
(* packets leave only while the broadcast is on, and go to the address it  *)
(* was turned on for.  RtkBroadcast implements this module.                *)
(***************************************************************************)
CONSTANTS Addrs, NoAddr

VARIABLES
    target,   \* where packets go, or NoAddr while the broadcast is off
    sent      \* where the last packet went

vars == <<target, sent>>

Init == target = NoAddr /\ sent = NoAddr

TurnOn == target = NoAddr /\ target' \in Addrs /\ UNCHANGED sent
TurnOff == target' = NoAddr /\ UNCHANGED sent
Packet == target # NoAddr /\ sent' = target /\ UNCHANGED target

Next == TurnOn \/ TurnOff \/ Packet

Spec == Init /\ [][Next]_vars
=============================================================================
