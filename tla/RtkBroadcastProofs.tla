------------------------- MODULE RtkBroadcastProofs -------------------------
(***************************************************************************)
(* For any senders and addresses: the socket matches the switch, and the   *)
(* broadcast implements RtkSwitch.                                         *)
(***************************************************************************)
EXTENDS RtkBroadcast, TLAPS

\* The inductive invariant: what is on is on for an address and has a socket.
Inv == /\ TypeOK
       /\ SocketMatches
       /\ broadcast_enabled => broadcast_addr \in Addrs

LEMMA InitInv ==
    ASSUME BroadcastConstants
    PROVE  Init => Inv
  BY DEF BroadcastConstants, Init, Inv, TypeOK, SocketMatches

LEMMA StepInv ==
    ASSUME BroadcastConstants
    PROVE  Inv /\ [Next]_vars => Inv'
<1> SUFFICES ASSUME Inv, [Next]_vars PROVE Inv'
  OBVIOUS
<1> USE DEF BroadcastConstants, Inv, TypeOK, SocketMatches
<1>1. CASE Reset
  BY <1>1 DEF Reset
<1>2. ASSUME NEW a \in Addrs, Enable(a) PROVE Inv'
  BY <1>2 DEF Enable, Opened
<1>3. CASE EnableMalformed
  BY <1>3 DEF EnableMalformed
<1>4. CASE Disable
  BY <1>4 DEF Disable
<1>5. ASSUME NEW t \in Senders, Check(t) PROVE Inv'
  BY <1>5 DEF Check, switch
<1>6. ASSUME NEW t \in Senders, Send(t) PROVE Inv'
  BY <1>6 DEF Send, Deliver, switch
<1>7. CASE UNCHANGED vars
  BY <1>7 DEF vars, switch
<1> QED BY <1>1, <1>2, <1>3, <1>4, <1>5, <1>6, <1>7 DEF Next

\* The socket is open exactly while the broadcast is on.
THEOREM SocketSafety ==
    ASSUME BroadcastConstants
    PROVE  Spec => []SocketMatches
<1>1. Spec => []Inv
  BY InitInv, StepInv, PTL DEF Spec
<1> QED BY <1>1, PTL DEF Inv

\* Whatever the senders saw before: packets leave only while the broadcast is
\* on, for the address it was enabled with.
THEOREM BroadcastImplementsSwitch ==
    ASSUME BroadcastConstants
    PROVE  Spec => ImplementsSwitch
<1>1. Init => Switch!Init
  BY DEF Init, Switch!Init
<1>2. Inv /\ [Next]_vars => [Switch!Next]_Switch!vars
  <2> SUFFICES ASSUME Inv, [Next]_vars PROVE [Switch!Next]_Switch!vars
    OBVIOUS
  <2> USE DEF BroadcastConstants, Inv,
              Switch!Next, Switch!vars, Switch!TurnOn, Switch!TurnOff, Switch!Packet
  <2>1. CASE Reset
    BY <2>1 DEF Reset
  <2>2. ASSUME NEW a \in Addrs, Enable(a) PROVE Switch!TurnOn
    BY <2>2 DEF Enable, Opened
  <2>3. CASE EnableMalformed
    BY <2>3 DEF EnableMalformed
  <2>4. CASE Disable
    BY <2>4 DEF Disable
  <2>5. ASSUME NEW t \in Senders, Check(t) PROVE UNCHANGED Switch!vars
    BY <2>5 DEF Check, switch
  <2>6. ASSUME NEW t \in Senders, Send(t) PROVE [Switch!Next]_Switch!vars
    BY <2>6 DEF Send, Deliver, switch
  <2>7. CASE UNCHANGED vars
    BY <2>7 DEF vars, switch
  <2> QED BY <2>1, <2>2, <2>3, <2>4, <2>5, <2>6, <2>7 DEF Next
<1>3. Spec => []Inv
  BY InitInv, StepInv, PTL DEF Spec
<1> QED BY <1>1, <1>2, <1>3, PTL DEF Spec, ImplementsSwitch, Switch!Spec
=============================================================================
