-------------------------- MODULE RtkBackoffProofs --------------------------
(***************************************************************************)
(* The bound on the backoff of RtkBackoff and the row of its waits, for    *)
(* every base, factor and maximum.                                         *)
(***************************************************************************)
EXTENDS RtkBackoff, WellFoundedInduction, TLAPS

Range == RTK_RECONNECT_BASE_MS..RTK_RECONNECT_MAX_MS

\* The loop never leaves the range in between, and counts within its limit.
Bounds == TypeOK /\ delay_ms \in Range

\* A factor of at least 100 per cent does not shorten a delay.
LEMMA GrowsOrStays ==
    ASSUME NEW d \in Nat
    PROVE  /\ (d * RTK_RECONNECT_FACTOR) \div 100 \in Nat
           /\ (d * RTK_RECONNECT_FACTOR) \div 100 >= d
<1> DEFINE f == RTK_RECONNECT_FACTOR
<1>1. f \in Nat /\ f >= 100
  BY BackoffAssumption
<1>2. PICK k \in Nat : f = 100 + k
  <2>1. f - 100 \in Nat /\ f = 100 + (f - 100)
    BY <1>1
  <2> QED BY <2>1
<1>3. d * f = 100 * d + d * k /\ d * k \in Nat
  BY <1>2
<1> QED BY <1>3

\* Each step of the loop and of the worker keeps the bounds.
LEMMA BoundsStep == Bounds /\ [Next]_vars => Bounds'
<1> SUFFICES ASSUME Bounds, [Next]_vars PROVE Bounds'
  OBVIOUS
<1> USE BackoffAssumption DEF Bounds, TypeOK, Range
<1>1. CASE Fail
  BY <1>1 DEF Fail
<1>2. CASE Succeed
  BY <1>2 DEF Succeed
<1>3. CASE Grow
  <2>1. next \in Nat /\ next >= delay_ms /\ next < RTK_RECONNECT_MAX_MS
    BY <1>3, GrowsOrStays DEF Grow, next
  <2>2. delay_ms' = next /\ i' = i + 1 /\ UNCHANGED <<reconnect_count, waited, pc>>
    BY <1>3 DEF Grow
  <2> QED BY <2>1, <2>2
<1>4. CASE Capped
  BY <1>4 DEF Capped
<1>5. CASE Return
  BY <1>5 DEF Return
<1>6. CASE Wait
  BY <1>6 DEF Wait
<1>7. CASE UNCHANGED vars
  BY <1>7 DEF vars
<1> QED BY <1>1, <1>2, <1>3, <1>4, <1>5, <1>6, <1>7 DEF Next

\* However many attempts fail, the worker waits at least the base and at most
\* the maximum before the next one.
THEOREM WaitIsBounded == Spec => []WaitBounded
<1>1. Init => Bounds
  BY BackoffAssumption DEF Init, Bounds, TypeOK, Range
<1>2. Bounds => WaitBounded
  BY DEF Bounds, WaitBounded, Range
<1> QED BY <1>1, <1>2, BoundsStep, PTL DEF Spec

-----------------------------------------------------------------------------
(***************************************************************************)
(* The waits of a row of failures: a Row begins with the base, each wait   *)
(* follows from the one before.  calc_backoff_ms computes the one for      *)
(* reconnect_count from the base anew: in its loop delay_ms is the i-th.   *)
(***************************************************************************)
Scaled(d) == (d * RTK_RECONNECT_FACTOR) \div 100

NextWait(d) == IF Scaled(d) < RTK_RECONNECT_MAX_MS THEN Scaled(d) ELSE RTK_RECONNECT_MAX_MS

Rows(n) == {f \in [1..n -> Nat] : /\ f[1] = RTK_RECONNECT_BASE_MS
                                 /\ \A k \in 1..n-1 : f[k+1] = NextWait(f[k])}

Row == CHOOSE f : f \in Rows(AttemptLimit)

\* A set of numbers that is not empty has a least one.
LEMMA Least ==
    ASSUME NEW S \in SUBSET Nat, S # {}
    PROVE  \E n \in S : \A k \in S : n <= k
<1>1. PICK n \in S : \A k \in S : <<k, n>> \notin OpToRel(<, Nat)
  BY NatLessThanWellFounded, WFMin
<1>2. \A k \in S : ~(k < n)
  BY <1>1 DEF OpToRel
<1> QED BY <1>2

LEMMA NextWaitFacts ==
    ASSUME NEW d \in Nat
    PROVE  /\ Scaled(d) \in Nat /\ Scaled(d) >= d
           /\ NextWait(d) \in Nat
           /\ d >= RTK_RECONNECT_BASE_MS => NextWait(d) >= RTK_RECONNECT_BASE_MS
           /\ d = RTK_RECONNECT_MAX_MS => NextWait(d) = RTK_RECONNECT_MAX_MS
<1>1. Scaled(d) \in Nat /\ Scaled(d) >= d
  BY GrowsOrStays DEF Scaled
<1> QED BY <1>1, BackoffAssumption DEF NextWait

\* There is a row of any length.
LEMMA RowsExist == \A n \in Nat \ {0} : Rows(n) # {}
<1> DEFINE without == {n \in Nat \ {0} : Rows(n) = {}}
<1> SUFFICES ASSUME without # {} PROVE FALSE
  OBVIOUS
<1>1. PICK n \in without : \A k \in without : n <= k
  <2>1. without \in SUBSET Nat
    OBVIOUS
  <2> QED BY <2>1, Least
<1>2. n \in Nat \ {0} /\ Rows(n) = {}
  BY <1>1
<1>3. n # 1
  <2> SUFFICES ASSUME n = 1 PROVE FALSE
    OBVIOUS
  <2> DEFINE f == [k \in 1..1 |-> RTK_RECONNECT_BASE_MS]
  <2>1. f \in Rows(1)
    BY BackoffAssumption DEF Rows
  <2> QED BY <1>2, <2>1
<1>4. n-1 \in Nat \ {0} /\ n-1 \notin without
  BY <1>1, <1>2, <1>3
<1>5. PICK f : f \in Rows(n-1)
  BY <1>4
<1>6. /\ f \in [1..n-1 -> Nat] /\ f[1] = RTK_RECONNECT_BASE_MS
      /\ \A k \in 1..(n-1)-1 : f[k+1] = NextWait(f[k])
  BY <1>5 DEF Rows
<1> DEFINE g == [k \in 1..n |-> IF k < n THEN f[k] ELSE NextWait(f[n-1])]
<1>7. g \in [1..n -> Nat] /\ g[1] = RTK_RECONNECT_BASE_MS
  <2>1. NextWait(f[n-1]) \in Nat
    <3>1. n-1 \in 1..n-1
      BY <1>4
    <3>2. f[n-1] \in Nat
      BY <1>6, <3>1
    <3> QED BY <3>2, NextWaitFacts
  <2>2. \A k \in 1..n : k < n => f[k] \in Nat
    BY <1>2, <1>6
  <2> QED BY <1>2, <1>3, <1>6, <2>1, <2>2
<1>8. ASSUME NEW k \in 1..n-1 PROVE g[k+1] = NextWait(g[k])
  <2>1. g[k] = f[k]
    BY <1>2
  <2>2. CASE k = n-1
    <3>1. g[k+1] = NextWait(f[n-1])
      BY <1>2, <2>2
    <3> QED BY <2>1, <2>2, <3>1
  <2>3. CASE k # n-1
    <3>1. k \in 1..(n-1)-1 /\ g[k+1] = f[k+1]
      BY <1>2, <2>3
    <3> QED BY <1>6, <2>1, <3>1
  <2> QED BY <2>2, <2>3
<1>9. g \in Rows(n)
  <2> HIDE DEF g
  <2> QED BY <1>7, <1>8 DEF Rows
<1> QED BY <1>2, <1>9

LEMMA RowFacts ==
    /\ Row \in [1..AttemptLimit -> Nat] /\ Row[1] = RTK_RECONNECT_BASE_MS
    /\ \A k \in 1..AttemptLimit-1 : Row[k+1] = NextWait(Row[k])
<1>1. Row \in Rows(AttemptLimit)
  BY RowsExist, BackoffAssumption DEF Row
<1> QED BY <1>1 DEF Rows

\* No wait is shorter than the base.
LEMMA RowAboveBase == \A k \in 1..AttemptLimit : Row[k] >= RTK_RECONNECT_BASE_MS
<1> DEFINE below == {k \in 1..AttemptLimit : ~(Row[k] >= RTK_RECONNECT_BASE_MS)}
<1> SUFFICES ASSUME below # {} PROVE FALSE
  OBVIOUS
<1>1. PICK n \in below : \A k \in below : n <= k
  <2>1. below \in SUBSET Nat
    OBVIOUS
  <2> QED BY <2>1, Least
<1>2. n \in 1..AttemptLimit /\ ~(Row[n] >= RTK_RECONNECT_BASE_MS) /\ AttemptLimit \in Nat
  BY <1>1, BackoffAssumption
<1>3. n # 1
  BY <1>2, RowFacts, BackoffAssumption
<1>4. n-1 \in 1..AttemptLimit /\ n-1 \in 1..AttemptLimit-1 /\ (n-1)+1 = n /\ n-1 \notin below
  BY <1>1, <1>2, <1>3
<1>5. Row[n-1] >= RTK_RECONNECT_BASE_MS /\ Row[n-1] \in Nat
  BY <1>4, RowFacts
<1>6. Row[n] = NextWait(Row[n-1])
  BY <1>4, RowFacts
<1> QED BY <1>2, <1>5, <1>6, NextWaitFacts

\* Once the maximum is reached the waits stay there: that is why the loop may
\* stop where it caps.
LEMMA RowStaysAtMax ==
    ASSUME NEW i0 \in 1..AttemptLimit, Row[i0] = RTK_RECONNECT_MAX_MS
    PROVE  \A k \in i0..AttemptLimit : Row[k] = RTK_RECONNECT_MAX_MS
<1> DEFINE other == {k \in i0..AttemptLimit : Row[k] # RTK_RECONNECT_MAX_MS}
<1> SUFFICES ASSUME other # {} PROVE FALSE
  OBVIOUS
<1>1. PICK n \in other : \A k \in other : n <= k
  <2>1. other \in SUBSET Nat
    OBVIOUS
  <2> QED BY <2>1, Least
<1>2. n \in i0..AttemptLimit /\ Row[n] # RTK_RECONNECT_MAX_MS /\ n # i0 /\ AttemptLimit \in Nat
  BY <1>1, BackoffAssumption
<1>3. n-1 \in i0..AttemptLimit /\ n-1 \in 1..AttemptLimit-1 /\ (n-1)+1 = n /\ n-1 \notin other
  BY <1>1, <1>2
<1>4. Row[n-1] = RTK_RECONNECT_MAX_MS /\ Row[n-1] \in Nat
  BY <1>3, BackoffAssumption
<1>5. Row[n] = NextWait(Row[n-1])
  BY <1>3, RowFacts
<1> QED BY <1>2, <1>4, <1>5, NextWaitFacts

\* Where in the row the worker is.  The wait before is known as long as the
\* count has not reached the bound of the model.
InRow ==
    /\ pc = "connect" => waited = IF reconnect_count = 0 THEN 0 ELSE Row[reconnect_count]
    /\ pc # "connect" =>
          /\ reconnect_count \in 1..AttemptLimit
          /\ reconnect_count < AttemptLimit =>
                waited = IF reconnect_count = 1 THEN 0 ELSE Row[reconnect_count - 1]
    /\ pc = "calc" => i <= reconnect_count /\ delay_ms = Row[i]
    /\ pc = "wait" => delay_ms = Row[reconnect_count]

LEMMA InRowStep ==
    ASSUME Bounds, InRow, [Next]_vars
    PROVE  InRow'
<1> USE DEF Bounds, TypeOK
<1>0. AttemptLimit \in Nat /\ AttemptLimit >= 1 /\ reconnect_count \in Nat /\ i \in Nat /\ i >= 1
  BY BackoffAssumption
<1>1. CASE Fail
  BY <1>0, <1>1, RowFacts DEF Fail, InRow
<1>2. CASE Succeed
  BY <1>2 DEF Succeed, InRow
<1>3. CASE Grow
  <2>1. i \in 1..AttemptLimit-1 /\ i+1 <= reconnect_count
    BY <1>0, <1>3 DEF Grow, InRow
  <2>2. Row[i+1] = NextWait(Row[i]) /\ delay_ms = Row[i]
    BY <1>3, <2>1, RowFacts DEF Grow, InRow
  <2>3. next = Scaled(delay_ms)
    BY DEF next, Scaled
  <2>4. Row[i+1] = next
    BY <1>3, <2>2, <2>3 DEF Grow, NextWait
  <2> QED BY <1>3, <2>1, <2>4 DEF Grow, InRow
<1>4. CASE Capped
  <2>1. i \in 1..AttemptLimit-1 /\ i+1 <= reconnect_count /\ i+1 \in 1..AttemptLimit
        /\ reconnect_count \in (i+1)..AttemptLimit
    BY <1>0, <1>4 DEF Capped, InRow
  <2>2. Row[i+1] = NextWait(Row[i]) /\ delay_ms = Row[i]
    BY <1>4, <2>1, RowFacts DEF Capped, InRow
  <2>3. next = Scaled(delay_ms) /\ next \in Nat
    BY GrowsOrStays DEF next, Scaled
  <2>4. Row[i+1] = RTK_RECONNECT_MAX_MS
    BY <1>4, <2>2, <2>3, BackoffAssumption DEF Capped, NextWait
  <2>5. Row[reconnect_count] = RTK_RECONNECT_MAX_MS
    BY <2>1, <2>4, RowStaysAtMax
  <2> QED BY <1>4, <2>5 DEF Capped, InRow
<1>5. CASE Return
  <2>1. i = reconnect_count
    BY <1>0, <1>5 DEF Return, InRow
  <2> QED BY <1>5, <2>1 DEF Return, InRow
<1>6. CASE Wait
  BY <1>0, <1>6 DEF Wait, InRow
<1>7. CASE UNCHANGED vars
  BY <1>7 DEF vars, InRow
<1> QED BY <1>1, <1>2, <1>3, <1>4, <1>5, <1>6, <1>7 DEF Next

\* Though each is computed from the base anew, the waits of a row of failures
\* are the base, then the factor times the one before, up to the maximum.
THEOREM WaitsGrowByFactor == Spec => []WaitsAreExponential
<1>1. Init => Bounds /\ InRow
  BY BackoffAssumption DEF Init, Bounds, TypeOK, Range, InRow
<1>2. ASSUME Bounds, InRow PROVE WaitsAreExponential
  <2> SUFFICES ASSUME pc = "wait", reconnect_count < AttemptLimit
               PROVE  delay_ms = IF waited = 0 THEN RTK_RECONNECT_BASE_MS ELSE NextWait(waited)
    BY DEF WaitsAreExponential, NextWait, Scaled
  <2>1. /\ reconnect_count \in 1..AttemptLimit /\ delay_ms = Row[reconnect_count]
        /\ waited = IF reconnect_count = 1 THEN 0 ELSE Row[reconnect_count - 1]
    BY <1>2 DEF InRow
  <2>2. CASE reconnect_count = 1
    BY <2>1, <2>2, RowFacts
  <2>3. CASE reconnect_count # 1
    <3> DEFINE c == reconnect_count - 1
    <3>1. c \in 1..AttemptLimit-1 /\ c \in 1..AttemptLimit /\ c+1 = reconnect_count
      BY <2>1, <2>3, BackoffAssumption
    <3>2. delay_ms = NextWait(waited) /\ waited >= RTK_RECONNECT_BASE_MS
      BY <2>1, <2>3, <3>1, RowFacts, RowAboveBase
    <3>3. waited = 0 => NextWait(waited) = RTK_RECONNECT_BASE_MS
      <4>1. Scaled(0) = 0
        BY BackoffAssumption DEF Scaled
      <4>2. waited = 0 => RTK_RECONNECT_BASE_MS = 0
        BY <3>2, BackoffAssumption
      <4> QED BY <4>1, <4>2, BackoffAssumption DEF NextWait
    <3> QED BY <3>2, <3>3
  <2> QED BY <2>2, <2>3
<1> QED BY <1>1, <1>2, BoundsStep, InRowStep, PTL DEF Spec
=============================================================================
