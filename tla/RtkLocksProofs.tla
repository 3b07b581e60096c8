--------------------------- MODULE RtkLocksProofs ---------------------------
(***************************************************************************)
(* Why no thread waits for ever for a mutex.  The order in which mutexes   *)
(* are taken prevents a circle; and every path of every function keeps to  *)
(* the order, also when it begins in a callback: what is left of a path is *)
(* a Piece from the mutexes that its thread holds to none.                 *)
(***************************************************************************)
EXTENDS RtkLocks, SequenceTheorems, TLAPS

LEMMA Ranks == \A m \in Mutexes : Rank(m) \in {1, 2, 3}
  BY DEF Mutexes, Rank

\* Of threads that wait for one another in a circle none wants a mutex of
\* rank 3: its holder would have to want one of a higher rank.  Hence none
\* wants one of rank 2, and none one of rank 1.
LEMMA NobodyWants ==
    ASSUME LocksInOrder, NEW S \in SUBSET Threads,
           \A t \in S : \E u \in S : WaitsFor(t, u)
    PROVE  \A t \in S, m \in Mutexes : ~Wants(t, m) \/ ~\E u \in S : Holds(u, m)
<1>1. ASSUME NEW u \in S, NEW h \in Mutexes, Holds(u, h)
      PROVE  \E v \in S, m \in Mutexes : Wants(u, m) /\ Holds(v, m) /\ Rank(h) < Rank(m)
  <2>1. PICK v \in S : WaitsFor(u, v)
    OBVIOUS
  <2>2. ~At(u, "join")
    BY <1>1 DEF LocksInOrder
  <2>3. PICK m \in Mutexes : Wants(u, m) /\ Holds(v, m)
    BY <2>1, <2>2 DEF WaitsFor
  <2>4. Rank(h) < Rank(m)
    BY <1>1, <2>3 DEF LocksInOrder
  <2> QED BY <2>3, <2>4
<1>2. \A u \in S, h \in Mutexes : Holds(u, h) => Rank(h) # 3
  BY <1>1, Ranks
<1>3. \A u \in S, h \in Mutexes : Holds(u, h) => Rank(h) # 2
  BY <1>1, <1>2, Ranks
<1>4. \A u \in S, h \in Mutexes : Holds(u, h) => Rank(h) # 1
  BY <1>1, <1>2, <1>3, Ranks
<1> QED BY <1>2, <1>3, <1>4, Ranks

\* A state in which mutexes are taken in order has no circle of threads that
\* wait for one another.
THEOREM OrderPreventsDeadlock == LocksInOrder => NoDeadlock
<1> SUFFICES ASSUME LocksInOrder, NEW S \in SUBSET Threads, S # {},
                    \A t \in S : \E u \in S : WaitsFor(t, u)
             PROVE  FALSE
  BY DEF NoDeadlock
<1>1. \A t \in S : \E u \in S : At(t, "join") /\ On(t) = u
  BY NobodyWants DEF WaitsFor
<1>2. \A t \in S : At(t, "join") => t = App /\ On(t) # App
  BY DEF LocksInOrder
<1> QED BY <1>1, <1>2

-----------------------------------------------------------------------------
(***************************************************************************)
(* Pieces of a path.  A step in order turns the mutexes H held before it   *)
(* into K; only the threads of J may be joined.  A Piece is a sequence of  *)
(* steps that can be labelled with the mutexes held before each of them.   *)
(***************************************************************************)
Steps == [do : {"lock", "unlock", "use", "call", "join", "return"},
          on : Mutexes \cup Callbacks \cup Threads \cup {"none"}]

Above(m, H) == m \in Mutexes /\ \A h \in H : Rank(h) < Rank(m)

InOrder(J, H, s, K) ==
    \/ s.do = "lock" /\ Above(s.on, H) /\ K = H \cup {s.on}
    \/ s.do = "unlock" /\ s.on \in H /\ K = H \ {s.on}
    \/ s.do = "use" /\ Above(s.on, H) /\ K = H
    \/ s.do = "call" /\ s.on \in Callbacks /\ H = {} /\ K = {}
    \/ s.do = "return" /\ H = {} /\ K = {}
    \/ s.do = "join" /\ s.on \in J /\ H = {} /\ K = {}

Labels(s, h, J, H, G) ==
    /\ h \in [1..Len(s)+1 -> SUBSET Mutexes]
    /\ h[1] = H /\ h[Len(s)+1] = G
    /\ \A i \in 1..Len(s) : InOrder(J, h[i], s[i], h[i+1])

Piece(J, H, G) == {s \in Seq(Steps) : \E h : Labels(s, h, J, H, G)}

\* No step at all.
LEMMA EmptyPiece ==
    ASSUME NEW J, NEW H \in SUBSET Mutexes
    PROVE  <<>> \in Piece(J, H, H)
<1> DEFINE h == [i \in 1..1 |-> H]
<1>1. Labels(<<>>, h, J, H, H)
  BY DEF Labels
<1>2. \E g : Labels(<<>>, g, J, H, H)
  BY <1>1
<1>3. <<>> \in Seq(Steps)
  OBVIOUS
<1> QED BY <1>2, <1>3 DEF Piece

\* A single step.
LEMMA StepPiece ==
    ASSUME NEW J, NEW H \in SUBSET Mutexes, NEW K \in SUBSET Mutexes, NEW s \in Steps,
           InOrder(J, H, s, K)
    PROVE  <<s>> \in Piece(J, H, K)
<1> DEFINE h == [i \in 1..2 |-> IF i = 1 THEN H ELSE K]
<1>1. Len(<<s>>) = 1 /\ <<s>>[1] = s
  OBVIOUS
<1>2. h \in [1..2 -> SUBSET Mutexes] /\ h[1] = H /\ h[2] = K
  OBVIOUS
<1> HIDE DEF h
<1>3. Labels(<<s>>, h, J, H, K)
  <2>1. \A i \in 1..1 : InOrder(J, h[i], <<s>>[i], h[i+1])
    <3> SUFFICES InOrder(J, h[1], <<s>>[1], h[1+1])
      OBVIOUS
    <3> QED BY <1>1, <1>2
  <2> QED BY <1>1, <1>2, <2>1 DEF Labels
<1>4. \E g : Labels(<<s>>, g, J, H, K)
  BY <1>3
<1>5. <<s>> \in Seq(Steps)
  OBVIOUS
<1> QED BY <1>4, <1>5 DEF Piece

\* One piece after another.
LEMMA ConcatPiece ==
    ASSUME NEW J, NEW H, NEW G, NEW K, NEW p \in Piece(J, H, G), NEW q \in Piece(J, G, K)
    PROVE  p \o q \in Piece(J, H, K)
<1>1. p \in Seq(Steps) /\ q \in Seq(Steps)
  BY DEF Piece
<1>2. PICK f : Labels(p, f, J, H, G)
  BY DEF Piece
<1>3. PICK g : Labels(q, g, J, G, K)
  BY DEF Piece
<1> DEFINE n == Len(p)
           l == Len(q)
           h == [i \in 1..(n + l)+1 |-> IF i <= n THEN f[i] ELSE g[i - n]]
<1>4. n \in Nat /\ l \in Nat
  BY <1>1
<1>5. /\ p \o q \in Seq(Steps) /\ Len(p \o q) = n + l
      /\ \A i \in 1..n + l : (p \o q)[i] = IF i <= n THEN p[i] ELSE q[i - n]
  BY <1>1, ConcatProperties
<1>6. /\ f \in [1..n+1 -> SUBSET Mutexes] /\ f[1] = H /\ f[n+1] = G
      /\ \A i \in 1..n : InOrder(J, f[i], p[i], f[i+1])
  BY <1>2 DEF Labels
<1>7. /\ g \in [1..l+1 -> SUBSET Mutexes] /\ g[1] = G /\ g[l+1] = K
      /\ \A i \in 1..l : InOrder(J, g[i], q[i], g[i+1])
  BY <1>3 DEF Labels
<1> HIDE DEF n, l
<1>8. \A i \in 1..n+1 : h[i] = f[i]
  <2> TAKE i \in 1..n+1
  <2>1. CASE i <= n
    BY <1>4, <2>1
  <2>2. CASE i = n + 1
    BY <1>4, <1>6, <1>7, <2>2
  <2> QED BY <1>4, <2>1, <2>2
<1>9. \A i \in 1..l+1 : h[n + i] = g[i]
  BY <1>4
<1>10. h \in [1..(n + l)+1 -> SUBSET Mutexes]
  <2> SUFFICES ASSUME NEW i \in 1..(n + l)+1 PROVE h[i] \in SUBSET Mutexes
    OBVIOUS
  <2>1. CASE i <= n
    BY <1>4, <1>6, <2>1
  <2>2. CASE ~(i <= n)
    <3>1. i - n \in 1..l+1
      BY <1>4, <2>2
    <3> QED BY <1>4, <1>7, <2>2, <3>1
  <2> QED BY <2>1, <2>2
<1>11. h[1] = H /\ h[(n + l)+1] = K
  <2>1. h[1] = f[1]
    BY <1>4, <1>8
  <2>2. h[n + (l+1)] = g[l+1] /\ n + (l+1) = (n + l)+1
    <3>1. l+1 \in 1..l+1 /\ n + (l+1) = (n + l)+1
      BY <1>4
    <3> HIDE DEF h
    <3> QED BY <1>9, <3>1
  <2> HIDE DEF h
  <2> QED BY <1>6, <1>7, <2>1, <2>2
<1> HIDE DEF h
<1>12. ASSUME NEW i \in 1..n + l
       PROVE  InOrder(J, h[i], (p \o q)[i], h[i+1])
  <2>1. CASE i <= n
    <3>1. i \in 1..n /\ i \in 1..n+1 /\ i+1 \in 1..n+1
      BY <1>4, <2>1
    <3>2. h[i] = f[i] /\ h[i+1] = f[i+1] /\ (p \o q)[i] = p[i]
      BY <1>5, <1>8, <2>1, <3>1
    <3> QED BY <1>6, <3>1, <3>2
  <2>2. CASE ~(i <= n)
    <3> DEFINE k == i - n
    <3>1. k \in 1..l /\ k \in 1..l+1 /\ k+1 \in 1..l+1 /\ n + k = i /\ n + (k+1) = i+1
      BY <1>4, <2>2
    <3>2. (p \o q)[i] = q[k]
      BY <1>5, <2>2
    <3> HIDE DEF k
    <3>3. h[i] = g[k] /\ h[i+1] = g[k+1]
      BY <1>9, <3>1
    <3> QED BY <1>7, <3>1, <3>2, <3>3
  <2> QED BY <2>1, <2>2
<1>13. Labels(p \o q, h, J, H, K)
  BY <1>5, <1>10, <1>11, <1>12 DEF Labels
<1> QED BY <1>5, <1>13 DEF Piece

\* What is left of a piece after its first step.
LEMMA TailPiece ==
    ASSUME NEW J, NEW H, NEW G, NEW s \in Piece(J, H, G), s # <<>>
    PROVE  /\ Head(s) \in Steps
           /\ \E K \in SUBSET Mutexes : InOrder(J, H, Head(s), K) /\ Tail(s) \in Piece(J, K, G)
<1>1. s \in Seq(Steps)
  BY DEF Piece
<1>2. PICK h : Labels(s, h, J, H, G)
  BY DEF Piece
<1> DEFINE n == Len(Tail(s))
           g == [i \in 1..n+1 |-> h[i+1]]
<1>3. /\ Head(s) \in Steps /\ Head(s) = s[1]
      /\ Tail(s) \in Seq(Steps) /\ n \in Nat /\ Len(s) = n + 1
      /\ \A i \in 1..n : Tail(s)[i] = s[i+1]
  BY <1>1, HeadTailProperties, ElementOfSeq
<1> HIDE DEF n
<1>4. /\ h \in [1..(n+1)+1 -> SUBSET Mutexes] /\ h[1] = H /\ h[(n+1)+1] = G
      /\ \A i \in 1..n+1 : InOrder(J, h[i], s[i], h[i+1])
  BY <1>2, <1>3 DEF Labels
<1>5. InOrder(J, H, Head(s), h[2]) /\ h[2] \in SUBSET Mutexes
  <2>1. 1 \in 1..n+1 /\ 2 \in 1..(n+1)+1 /\ 1+1 = 2
    BY <1>3
  <2> QED BY <1>3, <1>4, <2>1
<1>6. Labels(Tail(s), g, J, h[2], G)
  <2>1. g \in [1..n+1 -> SUBSET Mutexes] /\ g[1] = h[2] /\ g[n+1] = G
    BY <1>3, <1>4
  <2>2. ASSUME NEW i \in 1..n PROVE InOrder(J, g[i], Tail(s)[i], g[i+1])
    <3>1. i+1 \in 1..n+1 /\ g[i] = h[i+1] /\ g[i+1] = h[(i+1)+1]
      BY <1>3
    <3> QED BY <1>3, <1>4, <3>1
  <2> HIDE DEF g
  <2> QED BY <2>1, <2>2 DEF Labels, n
<1>7. Tail(s) \in Piece(J, h[2], G)
  BY <1>3, <1>6 DEF Piece
<1> QED BY <1>3, <1>5, <1>7

-----------------------------------------------------------------------------
(***************************************************************************)
(* The paths of the functions, if callbacks do what they may: ReentrySafe. *)
(***************************************************************************)

\* A critical section, and one around a piece.
LEMMA UsePiece ==
    ASSUME NEW J, NEW H \in SUBSET Mutexes, NEW m, Above(m, H)
    PROVE  Use(m) \in Piece(J, H, H)
<1>1. [do |-> "use", on |-> m] \in Steps
  BY DEF Steps, Above
<1>2. InOrder(J, H, [do |-> "use", on |-> m], H)
  BY DEF InOrder
<1> QED BY <1>1, <1>2, StepPiece DEF Use

LEMMA UnderPiece ==
    ASSUME NEW J, NEW H \in SUBSET Mutexes, NEW m, Above(m, H), m \notin H,
           NEW p \in Piece(J, H \cup {m}, H \cup {m})
    PROVE  Under(m, p) \in Piece(J, H, H)
<1> DEFINE K == H \cup {m}
<1>1. m \in Mutexes /\ K \in SUBSET Mutexes /\ m \in K /\ H = K \ {m}
  BY DEF Above
<1>2. [do |-> "lock", on |-> m] \in Steps /\ [do |-> "unlock", on |-> m] \in Steps
  BY <1>1 DEF Steps
<1>3. InOrder(J, H, [do |-> "lock", on |-> m], K) /\ InOrder(J, K, [do |-> "unlock", on |-> m], H)
  BY <1>1 DEF InOrder
<1>4. Lock(m) \in Piece(J, H, K) /\ Unlock(m) \in Piece(J, K, H)
  BY <1>1, <1>2, <1>3, StepPiece DEF Lock, Unlock
<1>5. Lock(m) \o p \in Piece(J, H, K)
  BY <1>4, ConcatPiece
<1> QED BY <1>4, <1>5, ConcatPiece DEF Under

\* Ranks: any mutex may be taken by who holds none, callback_mutex by who does
\* not hold it, and the broadcast's under state_mutex.
LEMMA AboveFacts ==
    /\ \A m \in Mutexes : Above(m, {})
    /\ \A H \in SUBSET Mutexes : "callback" \notin H => Above("callback", H)
    /\ Above("broadcast", {"state"})
  BY DEF Above, Rank, Mutexes

\* rtk_log may be called wherever callback_mutex is not held.
LEMMA LogPiece ==
    ASSUME ReentrySafe, NEW J, NEW H \in SUBSET Mutexes, "callback" \notin H
    PROVE  rtk_log \in Piece(J, H, H)
<1>1. Use("callback") \in Piece(J, H, H) /\ <<>> \in Piece(J, H, H)
  BY AboveFacts, UsePiece, EmptyPiece
<1>2. Use("callback") \o <<>> \in Piece(J, H, H)
  BY <1>1, ConcatPiece
<1> QED BY <1>2 DEF rtk_log, Dispatched, ReentrySafe

\* The other callbacks are called by who holds no mutex.
LEMMA DispatchPiece ==
    ASSUME NEW J, NEW k \in Callbacks
    PROVE  Dispatched(k) \in Piece(J, {}, {})
<1>1. Use("callback") \in Piece(J, {}, {}) /\ <<>> \in Piece(J, {}, {})
  BY AboveFacts, UsePiece, EmptyPiece DEF Mutexes
<1>2. [do |-> "call", on |-> k] \in Steps /\ InOrder(J, {}, [do |-> "call", on |-> k], {})
  BY DEF Steps, InOrder
<1>3. Call(k) \in Piece(J, {}, {})
  BY <1>2, StepPiece DEF Call
<1>4. (IF Reentry[k] = {} THEN <<>> ELSE Call(k)) \in Piece(J, {}, {})
  BY <1>1, <1>3
<1> QED BY <1>1, <1>4, ConcatPiece DEF Dispatched

LEMMA JoinPiece ==
    ASSUME NEW J, NEW t \in J \cap Threads
    PROVE  Join(t) \in Piece(J, {}, {})
<1>1. [do |-> "join", on |-> t] \in Steps /\ InOrder(J, {}, [do |-> "join", on |-> t], {})
  BY DEF Steps, InOrder
<1> QED BY <1>1, StepPiece DEF Join

\* Every path of every function is a piece from no mutex to none, and only
\* those that stop something join a thread.
LEMMA PathPiece ==
    ASSUME ReentrySafe, NEW J, NEW f \in DOMAIN Paths, f \in Joining => {Gps, Sixents} \subseteq J
    PROVE  Paths[f] \subseteq Piece(J, {}, {})
<1> DEFINE P == Piece(J, {}, {})
           log == rtk_log
<1>1. \A p, q \in P : p \o q \in P
  BY ConcatPiece
<1>2. <<>> \in P
  BY EmptyPiece
<1>3. \A m \in Mutexes : Use(m) \in P
  BY UsePiece, AboveFacts
<1>4. log \in P
  BY LogPiece
<1>5. rtk_dispatch_status \in P /\ rtk_dispatch_rtcm \in P /\ rtk_dispatch_position \in P
      /\ rtk_dispatch_error \in P
  BY DispatchPiece DEF Callbacks, rtk_dispatch_status, rtk_dispatch_rtcm, rtk_dispatch_position,
                       rtk_dispatch_error
<1>6. ASSUME NEW m \in Mutexes \ {"callback"}
      PROVE  Under(m, log) \in P
  <2>1. rtk_log \in Piece(J, {} \cup {m}, {} \cup {m})
    BY LogPiece
  <2> QED BY <2>1, AboveFacts, UnderPiece
<1>7. ASSUME NEW path \in rtk_broadcast_deinit
      PROVE  Under("state", path) \in P
  <2> DEFINE H == {"state"}
  <2>1. Use("broadcast") \in Piece(J, H, H) /\ rtk_log \in Piece(J, H, H)
    BY UsePiece, LogPiece, AboveFacts DEF Mutexes
  <2>2. Use("broadcast") \o rtk_log \in Piece(J, H, H)
    BY <2>1, ConcatPiece
  <2>3. path \in Piece(J, {} \cup {"state"}, {} \cup {"state"})
    BY <2>1, <2>2 DEF rtk_broadcast_deinit
  <2> QED BY <2>3, UnderPiece, AboveFacts DEF Mutexes
<1>8. f \in Joining => Join(Gps) \in P /\ Join(Sixents) \in P
  BY JoinPiece DEF Threads
<1>9. ASSUME NEW A, NEW B, A \subseteq P, B \subseteq P
      PROVE  A ++ B \subseteq P
  <2> HIDE DEF P
  <2>1. ASSUME NEW x \in A ++ B PROVE x \in P
    <3>1. PICK p \in A, q \in B : x = p \o q
      BY <2>1 DEF ++
    <3> QED BY <1>1, <1>9, <3>1
  <2> QED BY <2>1
<1> HIDE DEF P
<1>10. /\ Use("state") \in P /\ Use("broadcast") \in P /\ Use("gga") \in P
       /\ Use("serial") \in P /\ Use("callback") \in P
       /\ Under("state", log) \in P /\ Under("broadcast", log) \in P
       /\ Under("gga", log) \in P /\ Under("serial", log) \in P
  BY <1>3, <1>6 DEF Mutexes
<1>11. /\ rtk_sdk_set_callback \subseteq P /\ rtk_sdk_get_state \subseteq P
       /\ rtk_serial_get \subseteq P
       /\ rtk_broadcast_init \subseteq P /\ rtk_broadcast_deinit \subseteq P
       /\ rtk_broadcast_send \subseteq P
  BY <1>1, <1>4, <1>10 DEF rtk_sdk_set_callback, rtk_sdk_get_state, rtk_serial_get,
     rtk_broadcast_init, rtk_broadcast_deinit, rtk_broadcast_send
<1>12. rtk_sdk_start \subseteq P /\ (f \in Joining => rtk_sdk_stop \subseteq P)
  <2>1. Use("state") \o rtk_log \in P
    BY <1>1, <1>4, <1>10
  <2>2. Use("state") \o rtk_log \o rtk_dispatch_status \in P
    BY <1>1, <1>5, <2>1
  <2>3. ASSUME f \in Joining
        PROVE  Use("state") \o rtk_log \o Join(Sixents) \o Use("state") \o rtk_log
                  \o rtk_dispatch_status \in P
    <3>1. Use("state") \o rtk_log \o Join(Sixents) \in P
      BY <1>1, <1>8, <2>1, <2>3
    <3>2. Use("state") \o rtk_log \o Join(Sixents) \o Use("state") \in P
      BY <1>1, <1>10, <3>1
    <3>3. Use("state") \o rtk_log \o Join(Sixents) \o Use("state") \o rtk_log \in P
      BY <1>1, <1>4, <3>2
    <3> QED BY <1>1, <1>5, <3>3
  <2> QED BY <1>10, <2>1, <2>2, <2>3 DEF rtk_sdk_start, rtk_sdk_stop
<1>13. f \in Joining => rtk_sdk_deinit \subseteq P
  <2>1. {Under("state", path) : path \in rtk_broadcast_deinit} \subseteq P
    BY <1>7
  <2> QED BY <1>2, <1>4, <1>9, <1>10, <1>12, <2>1 DEF rtk_sdk_deinit
<1>14. rtk_sdk_input_gga \subseteq P /\ SendGga \subseteq P
  BY <1>4, <1>10 DEF rtk_sdk_input_gga, SendGga
<1>15. Opened \in P /\ OpenFailed \in P /\ Opened \o rtk_log \in P /\ OpenFailed \o rtk_log \in P
  BY <1>1, <1>4, <1>10 DEF Opened, OpenFailed
<1>16. /\ rtk_serial_open \subseteq P /\ rtk_serial_close \subseteq P
       /\ rtk_serial_reconnect \subseteq P /\ SerialTransfer \subseteq P
  <2>1. Use("serial") \o rtk_log \in P
    BY <1>1, <1>4, <1>10
  <2>2. {<<>>, Opened \o rtk_log, OpenFailed \o rtk_log} \subseteq P
    BY <1>2, <1>15
  <2>3. {<<>>, rtk_log, Use("serial"), Use("serial") \o rtk_log} \subseteq P
    BY <1>2, <1>4, <1>10, <2>1
  <2>4. {Under("serial", rtk_log)} \subseteq P /\ {Use("serial")} \subseteq P
    BY <1>10
  <2>5. rtk_serial_reconnect \subseteq P /\ SerialTransfer \subseteq P
    BY <1>9, <2>2, <2>3, <2>4 DEF rtk_serial_reconnect, SerialTransfer
  <2> QED BY <1>10, <1>15, <2>1, <2>5 DEF rtk_serial_open, rtk_serial_close
<1>17. /\ broadcast_position \subseteq P /\ broadcast_heartbeat \subseteq P
       /\ rtk_gps_on_rtcm_data \subseteq P
  <2>1. {Use("callback") \o Use("state")} \subseteq P /\ {Use("state") \o rtk_log} \subseteq P
    BY <1>1, <1>4, <1>10
  <2>2. Packet \subseteq P
    BY <1>2, <1>9, <1>11, <2>1 DEF Packet
  <2>3. {<<>>, rtk_dispatch_position} \subseteq P /\ {<<>>} \cup SerialTransfer \subseteq P
    BY <1>2, <1>5, <1>16
  <2> QED BY <1>9, <1>11, <2>1, <2>2, <2>3
          DEF broadcast_position, broadcast_heartbeat, rtk_gps_on_rtcm_data
<1>18. rtk_gps_worker_start \subseteq P /\ (f \in Joining => rtk_gps_worker_stop \subseteq P)
  <2>1. {rtk_log} \subseteq P /\ (f \in Joining => {Join(Gps)} \subseteq P)
    BY <1>4, <1>8
  <2>2. rtk_serial_close ++ {rtk_log} \subseteq P
    BY <1>9, <1>16, <2>1
  <2>3. rtk_serial_open ++ rtk_sdk_set_callback \subseteq P
    BY <1>9, <1>11, <1>16
  <2>4. rtk_serial_open ++ rtk_sdk_set_callback ++ ({rtk_log} \cup (rtk_serial_close ++ {rtk_log}))
          \subseteq P
    BY <1>9, <2>1, <2>2, <2>3
  <2>5. rtk_gps_worker_start \subseteq P
    BY <1>16, <2>4 DEF rtk_gps_worker_start
  <2>6. f \in Joining => rtk_gps_worker_stop \subseteq P
    BY <1>9, <1>11, <1>16, <2>1 DEF rtk_gps_worker_stop
  <2> QED BY <2>5, <2>6
<1>19. /\ WorkerConnect \subseteq P /\ SixentsTick \subseteq P
       /\ rtk_sixents_diff_callback \subseteq P /\ rtk_sixents_status_callback \subseteq P
  <2>1. /\ rtk_log \o rtk_dispatch_error \in P /\ rtk_log \o rtk_dispatch_rtcm \in P
        /\ rtk_log \o rtk_dispatch_status \in P /\ Use("state") \o rtk_dispatch_status \in P
        /\ Use("state") \o Use("callback") \o rtk_dispatch_status \in P
    BY <1>1, <1>4, <1>5, <1>10
  <2>2. WorkerConnect \subseteq P
    BY <1>9, <2>1 DEF WorkerConnect
  <2>3. rtk_sixents_diff_callback \subseteq P
    BY <1>2, <1>9, <1>11, <2>1 DEF rtk_sixents_diff_callback
  <2>4. rtk_sixents_status_callback \subseteq P
    BY <1>2, <1>9, <2>1 DEF rtk_sixents_status_callback
  <2> QED BY <1>4, <2>1, <2>2, <2>3, <2>4 DEF SixentsTick
<1> QED BY <1>11, <1>12, <1>13, <1>14, <1>16, <1>17, <1>18, <1>19 DEF Paths, Joining, P

-----------------------------------------------------------------------------
(***************************************************************************)
(* The invariant: what is left of t's path is a piece from the mutexes t   *)
(* holds to none, and only the application's joins a thread.               *)
(***************************************************************************)
Joinable(t) == IF t = App THEN {Gps, Sixents} ELSE {}
Held(t) == {m \in Mutexes : holder[m] = t}

LocksInv == /\ holder \in [Mutexes -> Threads \cup {Nobody}]
            /\ todo \in [Threads -> Seq(Steps)]
            /\ \A t \in Threads : todo[t] \in Piece(Joinable(t), Held(t), {})

LEMMA InitLocks == Init => LocksInv
<1> SUFFICES ASSUME Init PROVE LocksInv
  OBVIOUS
<1>1. \A t \in Threads : Held(t) = {}
  BY LocksAssumption DEF Init, Held
<1>2. <<>> \in Seq(Steps)
  OBVIOUS
<1>3. ASSUME NEW t \in Threads PROVE todo[t] \in Piece(Joinable(t), Held(t), {})
  BY <1>1, EmptyPiece DEF Init
<1> QED BY <1>2, <1>3 DEF Init, LocksInv

\* The next step of a thread is in order.
LEMMA NextPiece ==
    ASSUME LocksInv, NEW t \in Threads, ~Idle(t)
    PROVE  \E K \in SUBSET Mutexes : /\ InOrder(Joinable(t), Held(t), Head(todo[t]), K)
                                    /\ Tail(todo[t]) \in Piece(Joinable(t), K, {})
  BY TailPiece DEF LocksInv, Idle

\* A thread between calls holds nothing.
LEMMA IdleHoldsNothing ==
    ASSUME LocksInv, NEW t \in Threads, Idle(t)
    PROVE  Held(t) = {}
<1>1. PICK h : Labels(<<>>, h, Joinable(t), Held(t), {})
  BY DEF LocksInv, Idle, Piece
<1>2. Len(<<>>) + 1 = 1
  OBVIOUS
<1> QED BY <1>1, <1>2 DEF Labels

\* A thread's own step leaves the others' mutexes alone.
LEMMA ThreadStep ==
    ASSUME LocksInv, NEW t \in Threads, NEW path, todo' = [todo EXCEPT ![t] = path],
           path \in Piece(Joinable(t), Held(t)', {}),
           holder' \in [Mutexes -> Threads \cup {Nobody}],
           \A u \in Threads \ {t} : Held(u)' = Held(u)
    PROVE  LocksInv'
<1>1. path \in Seq(Steps)
  BY DEF Piece
<1>2. ASSUME NEW u \in Threads PROVE todo'[u] \in Piece(Joinable(u), Held(u)', {})
  <2>1. CASE u = t
    BY <2>1 DEF LocksInv
  <2>2. CASE u # t
    BY <2>2 DEF LocksInv
  <2> QED BY <2>1, <2>2
<1> QED BY <1>1, <1>2 DEF LocksInv, Joinable

LEMMA StepLocks ==
    ASSUME ReentrySafe, LocksInv, [Next]_vars
    PROVE  LocksInv'
<1> USE DEF Rest, On, At
<1>1. ASSUME NEW t \in Threads, Begin(t) PROVE LocksInv'
  <2>1. PICK f \in Calls(t) : \E path \in Paths[f] : todo' = [todo EXCEPT ![t] = path]
    BY <1>1 DEF Begin
  <2>2. PICK path \in Paths[f] : todo' = [todo EXCEPT ![t] = path]
    BY <2>1
  <2>3. f \in DOMAIN Paths /\ (f \in Joining => {Gps, Sixents} \subseteq Joinable(t))
    BY LocksAssumption
    DEF Calls, GpsCalls, SixentsCalls, Threads, Api, Paths, Joining, Joinable
  <2>4. path \in Piece(Joinable(t), {}, {})
    BY <2>2, <2>3, PathPiece
  <2>5. Held(t) = {} /\ UNCHANGED holder
    BY <1>1, IdleHoldsNothing DEF Begin
  <2> QED BY <2>2, <2>4, <2>5, ThreadStep DEF LocksInv, Held
<1>2. ASSUME NEW t \in Threads, DoLock(t) PROVE LocksInv'
  <2>1. PICK K \in SUBSET Mutexes : /\ InOrder(Joinable(t), Held(t), Head(todo[t]), K)
                                   /\ Tail(todo[t]) \in Piece(Joinable(t), K, {})
    BY <1>2, NextPiece DEF DoLock
  <2>2. On(t) \in Mutexes /\ K = Held(t) \cup {On(t)}
    BY <1>2, <2>1 DEF DoLock, InOrder, Above
  <2>3. /\ holder[On(t)] = Nobody /\ holder' = [holder EXCEPT ![On(t)] = t]
        /\ todo' = [todo EXCEPT ![t] = Tail(todo[t])]
    BY <1>2 DEF DoLock, LocksInv
  <2> HIDE DEF On
  <2>4. Held(t)' = K /\ \A u \in Threads \ {t} : Held(u)' = Held(u)
    BY <2>2, <2>3, LocksAssumption DEF LocksInv, Held
  <2>5. holder' \in [Mutexes -> Threads \cup {Nobody}]
    BY <2>2, <2>3 DEF LocksInv
  <2> QED BY <2>1, <2>3, <2>4, <2>5, ThreadStep
<1>3. ASSUME NEW t \in Threads, DoUnlock(t) PROVE LocksInv'
  <2>1. PICK K \in SUBSET Mutexes : /\ InOrder(Joinable(t), Held(t), Head(todo[t]), K)
                                   /\ Tail(todo[t]) \in Piece(Joinable(t), K, {})
    BY <1>3, NextPiece DEF DoUnlock
  <2>2. On(t) \in Held(t) /\ K = Held(t) \ {On(t)}
    BY <1>3, <2>1 DEF DoUnlock, InOrder
  <2>3. /\ holder' = [holder EXCEPT ![On(t)] = Nobody]
        /\ todo' = [todo EXCEPT ![t] = Tail(todo[t])]
    BY <1>3 DEF DoUnlock, LocksInv
  <2> HIDE DEF On
  <2>4. Held(t)' = K /\ \A u \in Threads \ {t} : Held(u)' = Held(u)
    BY <2>2, <2>3, LocksAssumption DEF LocksInv, Held
  <2>5. holder' \in [Mutexes -> Threads \cup {Nobody}]
    BY <2>2, <2>3 DEF LocksInv
  <2> QED BY <2>1, <2>3, <2>4, <2>5, ThreadStep
<1>4. ASSUME NEW t \in Threads, Rest(t) = todo', UNCHANGED holder,
             At(t, "use") \/ At(t, "call") \/ At(t, "return") \/ At(t, "join")
      PROVE  LocksInv'
  <2>1. PICK K \in SUBSET Mutexes : /\ InOrder(Joinable(t), Held(t), Head(todo[t]), K)
                                   /\ Tail(todo[t]) \in Piece(Joinable(t), K, {})
    BY <1>4, NextPiece
  <2>2. K = Held(t)
    BY <1>4, <2>1 DEF InOrder
  <2>3. todo' = [todo EXCEPT ![t] = Tail(todo[t])]
    BY <1>4 DEF LocksInv
  <2> QED BY <1>4, <2>1, <2>2, <2>3, ThreadStep DEF LocksInv, Held
<1>5. ASSUME NEW t \in Threads, DoUse(t) \/ DoReturn(t) \/ DoJoin(t) PROVE LocksInv'
  BY <1>4, <1>5 DEF DoUse, DoReturn, DoJoin
<1>6. ASSUME NEW t \in Threads, DoCall(t) PROVE LocksInv'
  <2>1. PICK K \in SUBSET Mutexes : /\ InOrder(Joinable(t), Held(t), Head(todo[t]), K)
                                   /\ Tail(todo[t]) \in Piece(Joinable(t), K, {})
    BY <1>6, NextPiece DEF DoCall
  <2>2. On(t) \in Callbacks /\ Held(t) = {} /\ K = {}
    BY <1>6, <2>1 DEF DoCall, InOrder
  <2>3. CASE Rest(t) = todo'
    BY <1>4, <1>6, <2>3 DEF DoCall
  <2>4. ASSUME NEW f \in Reentry[On(t)], NEW path \in Paths[f],
               todo' = [todo EXCEPT ![t] = path \o Return \o Tail(@)]
        PROVE  LocksInv'
    <3>1. path \in Piece(Joinable(t), {}, {})
      BY <2>2, PathPiece DEF ReentrySafe
    <3>2. [do |-> "return", on |-> "none"] \in Steps
          /\ InOrder(Joinable(t), {}, [do |-> "return", on |-> "none"], {})
      BY DEF Steps, InOrder
    <3>3. Return \in Piece(Joinable(t), {}, {})
      BY <3>2, StepPiece DEF Return
    <3>4. path \o Return \in Piece(Joinable(t), {}, {})
      BY <3>1, <3>3, ConcatPiece
    <3>5. path \o Return \o Tail(todo[t]) \in Piece(Joinable(t), {}, {})
      BY <2>1, <2>2, <3>4, ConcatPiece
    <3>6. todo' = [todo EXCEPT ![t] = path \o Return \o Tail(todo[t])]
      BY <2>4 DEF LocksInv
    <3>7. UNCHANGED holder
      BY <1>6 DEF DoCall
    <3> QED BY <2>2, <3>5, <3>6, <3>7, ThreadStep DEF LocksInv, Held
  <2> QED BY <1>6, <2>3, <2>4 DEF DoCall
<1>7. CASE UNCHANGED vars
  BY <1>7 DEF vars, LocksInv, Held
<1> QED BY <1>1, <1>2, <1>3, <1>5, <1>6, <1>7 DEF Next, Goes

LEMMA LocksInvariance ==
    ASSUME ReentrySafe
    PROVE  Spec => []LocksInv
<1> QED BY InitLocks, StepLocks, PTL DEF Spec

\* Whatever a thread has to do next, it may do with the mutexes it holds.
LEMMA NextInOrder ==
    ASSUME LocksInv, NEW t \in Threads, ~Idle(t)
    PROVE  \E K : InOrder(Joinable(t), Held(t), Head(todo[t]), K)
<1> QED BY NextPiece

\* Provided no callback ends a thread and the log's calls nothing: however the
\* threads and the callbacks interleave, a thread that takes a mutex holds only
\* earlier ones, and whoever joins a thread holds none.
THEOREM LocksAreOrdered ==
    ASSUME ReentrySafe
    PROVE  Spec => []LocksInOrder
<1>1. ASSUME LocksInv PROVE LocksInOrder
  BY <1>1, NextInOrder, LocksAssumption
     DEF LocksInOrder, Wants, Holds, At, On, InOrder, Above, Held, Joinable
<1> QED BY <1>1, LocksInvariance, PTL

\* Under the same proviso a callback of the application, the log's excepted, is
\* called with no mutex held: it may call the API.
THEOREM CallbacksAreFree ==
    ASSUME ReentrySafe
    PROVE  Spec => []CallbacksHoldNothing
<1>1. ASSUME LocksInv PROVE CallbacksHoldNothing
  BY <1>1, NextInOrder DEF CallbacksHoldNothing, Holds, At, On, InOrder, Held
<1> QED BY <1>1, LocksInvariance, PTL

\* Hence the SDK's threads never wait for one another in a circle, on mutexes
\* or on the end of a thread.
THEOREM LocksNeverDeadlock ==
    ASSUME ReentrySafe
    PROVE  Spec => []NoDeadlock
<1> QED BY LocksAreOrdered, OrderPreventsDeadlock, PTL
=============================================================================
