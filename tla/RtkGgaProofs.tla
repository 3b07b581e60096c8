---------------------------- MODULE RtkGgaProofs ----------------------------
(***************************************************************************)
(* The safety of the hand-over for any interval and any number of          *)
(* sentences.                                                              *)
(***************************************************************************)
EXTENDS RtkGga, TLAPS

\* While the GPS worker works on a sentence, pos is what it parsed from it.
InHand ==
    gpc \in {"cache", "input", "broadcast", "dispatch"} =>
        /\ sentence.n > 0 /\ pos.src = sentence
        /\ sentence.kind \in Kinds
        /\ HasCoords(sentence) => pos.coords = sentence
        /\ gpc # "broadcast" => fix(pos)
        /\ gpc # "cache" /\ fix(pos) => position_valid /\ last_position = pos

\* A sentence in the buffer that came from the module is not newer than the
\* one in hand.
BufferNotAhead == /\ sentence.n <= seen
                  /\ HasFix(gga_buffer) => gga_buffer.n <= sentence.n

GgaInv == /\ TypeOK /\ InHand /\ BufferNotAhead
          /\ UsableIsFix /\ ReportedHasFix /\ CacheNotBehind

LEMMA Typed == Unset \in Positions /\ NoSentence \in Sentences /\ 0 \in Numbers
  BY GgaAssumption DEF Unset, NoSentence, Positions, Sentences, Numbers, Kinds

LEMMA InitGgaInv == Init => GgaInv
<1> SUFFICES ASSUME Init PROVE GgaInv
  OBVIOUS
<1>1. packet \in [pos : Positions, gps_state : {0, 1, 2}]
  BY Typed DEF Init
<1>2. TypeOK
  <2>1. gga_age \in 0..AgeLimit
    BY GgaAssumption DEF Init, AgeLimit
  <2> QED BY <1>1, <2>1, Typed DEF Init, TypeOK
<1>3. InHand /\ BufferNotAhead
  BY DEF Init, InHand, BufferNotAhead, NoSentence, HasFix
<1>4. UsableIsFix /\ ReportedHasFix /\ CacheNotBehind
  BY DEF Init, UsableIsFix, ReportedHasFix, CacheNotBehind
<1> QED BY <1>2, <1>3, <1>4 DEF GgaInv

\* The steps of the Sixents worker and of time leave the position alone.
LEMMA WorkerKeepsInv ==
    ASSUME GgaInv,
           WorkerStart \/ Connect \/ Lost \/ WorkerStop \/ WorkerStep \/ Tick
    PROVE  GgaInv'
<1> USE GgaAssumption DEF GgaInv, TypeOK, AgeLimit, Moves
<1>1. UNCHANGED <<seen, gps, cache, box, packet>>
  BY DEF WorkerStart, Connect, Lost, WorkerStop, WorkerStep, SendDue, SendBegin,
         SendReturns, Tick
<1>2. /\ wpc' \in {"none", "connecting", "loop", "send", "sending"}
      /\ gga_age' \in 0..AgeLimit
  BY DEF WorkerStart, Connect, Lost, WorkerStop, WorkerStep, SendDue, SendBegin,
         SendReturns, Tick
<1> QED BY <1>1, <1>2 DEF gps, cache, box, InHand, BufferNotAhead, UsableIsFix,
           ReportedHasFix, CacheNotBehind, GetPosition, FixIsOwn, fix, HasFix

LEMMA ParseKeepsInv ==
    ASSUME GgaInv, NEW kind \in Kinds, ParseNmea(kind)
    PROVE  GgaInv'
<1> USE GgaAssumption
<1> DEFINE s == [n |-> seen + 1, kind |-> kind]
<1>1. /\ sentence' = s /\ s.n = seen + 1 /\ s.kind = kind
      /\ seen' = seen + 1 /\ seen' \in Numbers /\ s \in Sentences /\ seen \in Nat
  BY DEF ParseNmea, GgaInv, TypeOK, Numbers, Sentences
<1>2. UNCHANGED <<cache, box, sixents, packet>>
  BY DEF ParseNmea
<1>3. HasFix(gga_buffer') => gga_buffer'.n <= sentence'.n
  BY <1>1, <1>2 DEF GgaInv, BufferNotAhead, box, TypeOK, Sentences, Numbers, ParseNmea
<1>4. CASE ~Parses(s)
  BY <1>1, <1>2, <1>3, <1>4 DEF ParseNmea, GgaInv, TypeOK, InHand, BufferNotAhead,
     UsableIsFix, ReportedHasFix, CacheNotBehind, GetPosition, FixIsOwn, cache, box, sixents
<1>5. CASE Parses(s)
  <2>1. pos' = [coords |-> IF HasCoords(s) THEN s ELSE pos.coords, src |-> s]
    BY <1>1, <1>5 DEF ParseNmea, parse_gga
  <2>2. pos' \in Positions
    BY <1>1, <2>1 DEF GgaInv, TypeOK, Positions
  <2>3. gpc = "read" /\ gpc' = IF fix(pos') THEN "cache" ELSE "broadcast"
    BY <1>1, <1>5 DEF ParseNmea
  <2>4. pos'.src = s /\ (HasCoords(s) => pos'.coords = s)
    BY <2>1
  <2> QED BY <1>1, <1>2, <1>3, <2>2, <2>3, <2>4 DEF GgaInv, TypeOK, InHand, BufferNotAhead,
        UsableIsFix, ReportedHasFix, CacheNotBehind, GetPosition, cache, box, sixents
<1> QED BY <1>4, <1>5

LEMMA GpsKeepsInv ==
    ASSUME GgaInv, GpsStart \/ GpsStop \/ GpsStep
    PROVE  GgaInv'
<1> USE GgaAssumption DEF GgaInv, TypeOK, InHand, BufferNotAhead, UsableIsFix,
     ReportedHasFix, CacheNotBehind, GetPosition, FixIsOwn, gps, cache, box, sixents
<1>1. CASE GpsStart
  BY <1>1, Typed DEF GpsStart
<1>2. CASE GpsStop
  BY <1>2 DEF GpsStop
<1>3. CASE CachePosition
  <2>1. pos.src.n >= gga_buffer.n \/ ~HasFix(gga_buffer)
    BY <1>3 DEF CachePosition, Sentences, Positions, Numbers
  <2> QED BY <1>3, <2>1 DEF CachePosition, fix
<1>4. CASE InputGga
  <2>1. CASE Accepted(sentence)
    <3>1. HasFix(sentence)
      BY <1>4 DEF InputGga, fix
    <3> QED BY <1>4, <2>1, <3>1 DEF InputGga, HandIn, fix, Sentences, Numbers, Positions
  <2>2. CASE ~Accepted(sentence)
    BY <1>4, <2>2 DEF InputGga, HandIn, fix
  <2> QED BY <2>1, <2>2
<1>5. CASE BroadcastPosition
  BY <1>5 DEF BroadcastPosition, fix
<1>6. CASE DispatchPosition
  BY <1>6 DEF DispatchPosition
<1> QED BY <1>1, <1>2, <1>3, <1>4, <1>5, <1>6 DEF GpsStep

LEMMA AppKeepsInv ==
    ASSUME GgaInv, AppInput \/ SdkInit
    PROVE  GgaInv'
<1> USE GgaAssumption DEF GgaInv, TypeOK, InHand, BufferNotAhead, UsableIsFix,
     ReportedHasFix, CacheNotBehind, GetPosition, FixIsOwn, gps, cache, box, sixents,
     HasFix
<1>1. CASE AppInput
  BY <1>1 DEF AppInput, HandIn, Accepted, Sentences, Numbers
<1>2. CASE SdkInit
  BY <1>2, Typed DEF SdkInit, NoSentence
<1> QED BY <1>1, <1>2

LEMMA GgaInvariance == Safety => []GgaInv
<1>1. GgaInv /\ [Next]_vars => GgaInv'
  <2> SUFFICES ASSUME GgaInv, [Next]_vars PROVE GgaInv'
    OBVIOUS
  <2>1. CASE UNCHANGED vars
    BY <2>1 DEF vars, gps, cache, box, sixents, GgaInv, TypeOK, InHand, BufferNotAhead,
       UsableIsFix, ReportedHasFix, CacheNotBehind, GetPosition, FixIsOwn, fix, HasFix
  <2> QED BY <2>1, WorkerKeepsInv, ParseKeepsInv, GpsKeepsInv, AppKeepsInv DEF Next
<1> QED BY InitGgaInv, <1>1, PTL DEF Safety

\* However parsing, caching, handing over and sending interleave: a position
\* that is called usable is that of a sentence with a fix, and has that
\* sentence's coordinates wherever it carries any.
THEOREM GgaUsable == Safety => []UsableIsFix
<1> QED BY GgaInvariance, PTL DEF GgaInv

\* What the GPS worker hands over comes from a sentence with a fix.
THEOREM GgaReported == Safety => []ReportedHasFix
<1> QED BY GgaInvariance, PTL DEF GgaInv

\* The cache is never behind the sentence that the cloud is given.
THEOREM GgaCache == Safety => []CacheNotBehind
<1> QED BY GgaInvariance, PTL DEF GgaInv

\* No input changes the buffer while the library reads it.
THEOREM SendIsUndisturbed == Safety => SendUndisturbed
<1>1. [Next]_vars => [wpc = "sending" => UNCHANGED box]_vars
  <2> SUFFICES ASSUME Next, wpc = "sending" PROVE UNCHANGED box
    OBVIOUS
  <2>1. CASE GpsStep \/ AppInput
    BY <2>1 DEF GpsStep, CachePosition, InputGga, BroadcastPosition, DispatchPosition,
       AppInput, HandIn, gga_mutex_free
  <2>2. CASE GpsStart \/ GpsStop \/ SdkInit \/ \E kind \in Kinds : ParseNmea(kind)
    BY <2>2 DEF GpsStart, GpsStop, SdkInit, ParseNmea
  <2>3. CASE WorkerStart \/ Connect \/ Lost \/ WorkerStop \/ WorkerStep \/ Tick
    BY <2>3 DEF WorkerStart, Connect, Lost, WorkerStop, WorkerStep, SendDue, SendBegin,
       SendReturns, Tick, Moves
  <2> QED BY <2>1, <2>2, <2>3 DEF Next
<1> QED BY <1>1, PTL DEF Safety, SendUndisturbed
=============================================================================
