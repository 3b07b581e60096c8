------------------------------- MODULE RtkGga -------------------------------
(***************************************************************************)
(* The way of a position through the SDK.  The GPS worker parses a GGA     *)
(* sentence (rtk_serial_parse_nmea), which fills the position cache, hands *)
(* the sentence to the differential service (rtk_sdk_input_gga), sends a   *)
(* packet and calls the position callback.  The Sixents worker sends       *)
(* whatever sentence was handed in last to the cloud, once an interval.    *)
(* An application may hand in positions too and read the cache.            *)
(*                                                                         *)
(* A sentence is its number in order of arrival and its kind.  A parsed    *)
(* position is the two sentences it was read from: the one its coordinates *)
(* are of, and the one its fix and everything else are of.                 *)
(***************************************************************************)
EXTENDS Naturals

CONSTANTS
    Interval,        \* RTK_GGA_INTERVAL_MS, in ticks
    MaxSentences     \* bound on the sentences that arrive

ASSUME GgaAssumption == Interval \in Nat \ {0} /\ MaxSentences \in Nat

AgeLimit == Interval + 1     \* bound: an age this large stays

VARIABLES
    seen,            \* number of sentences so far
    sentence,        \* the sentence the GPS worker has in hand
    pos,             \* its parsed position, a local of gps_worker_thread
    gpc,             \* where the GPS worker is
    last_position, position_valid,  \* the position cache of rtk_serial.c
    gga_buffer, gga_ready,          \* the hand-over of rtk_core.c
    wpc,             \* where the Sixents worker is
    gga_age,         \* time since its last_gga_time
    packet           \* the last rtk_position packet

gps  == <<sentence, pos, gpc>>
cache == <<last_position, position_valid>>
box  == <<gga_buffer, gga_ready>>
sixents == <<wpc, gga_age>>
vars == <<seen, gps, cache, box, sixents, packet>>

(* fix: a position.  empty: a fix > 0, but the latitude or the longitude   *)
(* field empty or too short.  mixed, mixed_empty: the same two with the    *)
(* remnant of another sentence before them, or too long for gga_buffer.    *)
(* nofix: coordinates and fix 0.  blank: fix 0 and empty coordinates.      *)
(* bad: wrong checksum or too few fields.  app: from the application.      *)
Kinds == {"fix", "empty", "mixed", "mixed_empty", "nofix", "blank", "bad"}

Numbers   == 0..MaxSentences
Sentences == [n : Numbers, kind : Kinds \cup {"app", "none"}]
Positions == [coords : Sentences, src : Sentences]

NoSentence == [n |-> 0, kind |-> "none"]
Unset      == [coords |-> NoSentence, src |-> NoSentence]   \* uninitialised

TypeOK ==
    /\ seen \in Numbers
    /\ sentence \in Sentences
    /\ pos \in Positions
    /\ gpc \in {"none", "read", "cache", "input", "broadcast", "dispatch"}
    /\ last_position \in Positions /\ position_valid \in BOOLEAN
    /\ gga_buffer \in Sentences /\ gga_ready \in BOOLEAN
    /\ wpc \in {"none", "connecting", "loop", "send", "sending"}
    /\ gga_age \in 0..AgeLimit
    /\ packet \in [pos : Positions, gps_state : {0, 1, 2}]

Init ==
    /\ seen = 0 /\ sentence = NoSentence /\ pos = Unset /\ gpc = "none"
    /\ last_position = Unset /\ position_valid = FALSE
    /\ gga_buffer = NoSentence /\ gga_ready = FALSE
    /\ wpc = "none" /\ gga_age = 0
    /\ packet = [pos |-> Unset, gps_state |-> 0]

-----------------------------------------------------------------------------
(* What the code makes of a sentence.                                      *)

\* rtk_gga_validate on the whole string, and the length check before it
Accepted(s) == s.kind \in {"fix", "empty", "nofix", "blank", "app"}

\* rtk_serial_parse_nmea looks for the GGA inside the string and validates
\* from there on, so it accepts a mixed one.
Parses(s)    == s.kind \in Kinds \ {"bad"}
HasFix(s)    == s.kind \in {"fix", "empty", "mixed", "mixed_empty"}
HasCoords(s) == s.kind \in {"fix", "mixed", "nofix"}

\* parse_gga writes over the position it is given: empty coordinates leave
\* the previous ones in place, with a fix or without.
parse_gga(s, old) == [coords |-> IF HasCoords(s) THEN s ELSE old.coords,
                      src    |-> s]

\* pos->fix_quality > 0
fix(p) == HasFix(p.src)

\* rtk_sdk_get_position
GetPosition == IF position_valid THEN last_position ELSE Unset

\* Mutant of gga_mutex_free: held over the whole loop, its sleep included.
gga_mutex_free_outside_loop == wpc \notin {"loop", "send", "sending"}

gga_mutex_free == wpc # "sending"

-----------------------------------------------------------------------------
(* The GPS worker                                                          *)

\* rtk_gps_worker_start: the open clears position_valid, the new thread's
\* stack is whatever it is.
GpsStart ==
    /\ gpc = "none"
    /\ gpc' = "read"
    /\ position_valid' = FALSE
    /\ pos' = Unset
    /\ UNCHANGED <<seen, sentence, last_position, box, sixents, packet>>

GpsStop ==
    /\ gpc = "read"
    /\ gpc' = "none"
    /\ UNCHANGED <<seen, sentence, pos, cache, box, sixents, packet>>

\* Mutant of ParseNmea: a sentence without a fix is handed in as well.
ParseNmeaReportsAll(kind) ==
    /\ gpc = "read"
    /\ seen < MaxSentences
    /\ seen' = seen + 1
    /\ sentence' = [n |-> seen + 1, kind |-> kind]
    /\ \/ ~Parses(sentence') /\ UNCHANGED <<pos, gpc>>
       \/ /\ Parses(sentence')
          /\ pos' = parse_gga(sentence', pos)
          /\ gpc' = IF fix(pos') THEN "cache" ELSE "input"
    /\ UNCHANGED <<cache, box, sixents, packet>>

ParseNmea(kind) ==
    /\ gpc = "read"
    /\ seen < MaxSentences
    /\ seen' = seen + 1
    /\ sentence' = [n |-> seen + 1, kind |-> kind]
    /\ \/ ~Parses(sentence') /\ UNCHANGED <<pos, gpc>>
       \/ /\ Parses(sentence')
          /\ pos' = parse_gga(sentence', pos)
          /\ gpc' = IF fix(pos') THEN "cache" ELSE "broadcast"
    /\ UNCHANGED <<cache, box, sixents, packet>>

\* Mutant of CachePosition: the flag is set, the position not copied.
CachePositionFlagOnly ==
    /\ gpc = "cache"
    /\ gpc' = "input"
    /\ position_valid' = TRUE
    /\ UNCHANGED <<seen, sentence, pos, last_position, box, sixents, packet>>

\* Under the port's mutex, for fix > 0 only.
CachePosition ==
    /\ gpc = "cache"
    /\ gpc' = "input"
    /\ last_position' = pos
    /\ position_valid' = TRUE
    /\ UNCHANGED <<seen, sentence, pos, box, sixents, packet>>

\* Mutants of HandIn: the ready flag is forgotten; the mutex is not taken.
HandInNotReady(s) ==
    IF Accepted(s)
    THEN gga_mutex_free /\ gga_buffer' = s /\ UNCHANGED gga_ready
    ELSE UNCHANGED box

HandInUnlocked(s) ==
    IF Accepted(s)
    THEN gga_buffer' = s /\ gga_ready' = TRUE
    ELSE UNCHANGED box

\* rtk_sdk_input_gga
HandIn(s) ==
    IF Accepted(s)
    THEN gga_mutex_free /\ gga_buffer' = s /\ gga_ready' = TRUE
    ELSE UNCHANGED box

\* The return value is not looked at.
InputGga ==
    /\ gpc = "input"
    /\ HandIn(sentence)
    /\ gpc' = "broadcast"
    /\ UNCHANGED <<seen, sentence, pos, cache, sixents, packet>>

\* Mutant of BroadcastPosition: gps_state is taken from the cache.
BroadcastPositionCached ==
    /\ gpc = "broadcast"
    /\ packet' = [pos |-> pos, gps_state |-> IF position_valid THEN 2 ELSE 1]
    /\ gpc' = IF fix(pos) THEN "dispatch" ELSE "read"
    /\ UNCHANGED <<seen, sentence, pos, cache, box, sixents>>

BroadcastPosition ==
    /\ gpc = "broadcast"
    /\ packet' = [pos |-> pos, gps_state |-> IF fix(pos) THEN 2 ELSE 1]
    /\ gpc' = IF fix(pos) THEN "dispatch" ELSE "read"
    /\ UNCHANGED <<seen, sentence, pos, cache, box, sixents>>

\* rtk_dispatch_position: the callback gets a copy of pos.
DispatchPosition ==
    /\ gpc = "dispatch"
    /\ gpc' = "read"
    /\ UNCHANGED <<seen, sentence, pos, cache, box, sixents, packet>>

-----------------------------------------------------------------------------
(* The application: rtk_sdk_input_gga and rtk_sdk_input_position, whose    *)
(* sentence rtk_gga_build always marks as a fix; and deinit and init,      *)
(* which clear the buffer.                                                 *)
AppInput ==
    /\ seen < MaxSentences
    /\ seen' = seen + 1
    /\ HandIn([n |-> seen + 1, kind |-> "app"])
    /\ UNCHANGED <<gps, cache, sixents, packet>>

SdkInit ==
    /\ wpc = "none" /\ gpc = "none"
    /\ gga_buffer' = NoSentence
    /\ gga_ready' = FALSE
    /\ UNCHANGED <<seen, gps, cache, sixents, packet>>

-----------------------------------------------------------------------------
(* The Sixents worker.  A stop is noticed between two sends.               *)
Moves(from, to) ==
    /\ wpc = from
    /\ wpc' = to
    /\ UNCHANGED <<seen, gps, cache, box, packet>>

WorkerStart == Moves("none", "connecting") /\ UNCHANGED gga_age

\* last_gga_time = 0: long ago
Connect == Moves("connecting", "loop") /\ gga_age' = AgeLimit

Lost == Moves("loop", "connecting") /\ UNCHANGED gga_age

WorkerStop == /\ Moves("loop", "none") \/ Moves("connecting", "none")
              /\ UNCHANGED gga_age

\* last_gga_time is set to this `now` after the send.
SendDue == gga_age >= Interval /\ Moves("loop", "send") /\ gga_age' = 0

\* gga_mutex is taken and held across sixents_sdkSendGGAStr.
SendBegin == /\ IF gga_ready THEN Moves("send", "sending") ELSE Moves("send", "loop")
             /\ UNCHANGED gga_age

\* Success or not, the mutex is released and the sentence stays.
SendReturns == Moves("sending", "loop") /\ UNCHANGED gga_age

Tick ==
    /\ gga_age' = IF gga_age < AgeLimit THEN gga_age + 1 ELSE gga_age
    /\ UNCHANGED <<seen, gps, cache, box, wpc, packet>>

-----------------------------------------------------------------------------
WorkerStep == SendDue \/ SendBegin \/ SendReturns
GpsStep    == CachePosition \/ InputGga \/ BroadcastPosition \/ DispatchPosition

Next == \/ GpsStart \/ GpsStop
        \/ \E kind \in Kinds : ParseNmea(kind)
        \/ GpsStep
        \/ AppInput \/ SdkInit
        \/ WorkerStart \/ Connect \/ Lost \/ WorkerStop
        \/ WorkerStep
        \/ Tick

\* Threads are scheduled, time passes and a send returns.  Between two sends
\* the worker sleeps without the mutex (rtk_core.c:298), long enough for a
\* thread that waits for it: strong fairness of InputGga.
Fairness == /\ WF_vars(Tick) /\ WF_vars(WorkerStep)
            /\ WF_vars(GpsStep) /\ SF_vars(InputGga)

Safety == Init /\ [][Next]_vars
Spec == Safety /\ Fairness

-----------------------------------------------------------------------------
(* Safety                                                                  *)

\* A position that is given out as usable, by the packet, the callback or
\* rtk_sdk_get_position, was parsed from a sentence with a fix; and where
\* that sentence has coordinates they are those of the position, although
\* pos is never reset between sentences.  (A fix with empty coordinates is
\* given out with those of an earlier sentence.)
FixIsOwn(p) == fix(p) /\ (HasCoords(p.src) => p.coords = p.src)

UsableIsFix ==
    /\ packet.gps_state = 2 => FixIsOwn(packet.pos)
    /\ gpc = "dispatch" => FixIsOwn(pos)
    /\ position_valid => FixIsOwn(last_position)

\* Of the GPS module's sentences only those with a fix are handed over; what
\* the application hands in is not asked for a fix (rtk_sdk_input_gga).
ReportedHasFix ==
    gga_ready => gga_buffer.n > 0 /\ (HasFix(gga_buffer) \/ gga_buffer.kind = "app")

\* The application never reads a position older than the one the GPS worker
\* has handed to the cloud, and in its position callback it reads the very
\* position it is called with.
CacheNotBehind ==
    /\ position_valid /\ gga_ready /\ HasFix(gga_buffer)
        => last_position.src.n >= gga_buffer.n
    /\ gpc \in {"input", "dispatch"} => GetPosition = pos

\* The library is still reading gga_buffer during sixents_sdkSendGGAStr: no
\* input changes it under the call.
SendUndisturbed == [][wpc = "sending" => UNCHANGED box]_vars

-----------------------------------------------------------------------------
(* Liveness                                                                *)

\* A position handed in while a session lasts is being sent within a while,
\* unless a newer one replaces it or the session is lost first.
HandedInIsSent ==
    \A n \in 1..MaxSentences :
        gga_buffer.n = n /\ wpc \in {"loop", "send"}
            ~> \/ gga_buffer.n # n
               \/ wpc \in {"sending", "connecting", "none"}

\* A GPS worker that waits for gga_mutex, which is held over the network
\* call, gets on.
InputReturns == gpc = "input" ~> gpc # "input"
=============================================================================
