------------------------------- MODULE RtkNmea -------------------------------
(***************************************************************************)
(* The receive buffer of gps_worker_thread (src/src/rtk_gps_worker.c):     *)
(* bytes read from the port are appended, complete NMEA sentences are cut  *)
(* out of it, an overflow keeps its newer half.                            *)
(*                                                                         *)
(* A byte is a start "$", an end "n" (the newline) or anything else "x".   *)
(* `stream` is what the port has delivered since it was opened; sentences  *)
(* are named by their first and last position in it.                       *)
(***************************************************************************)
EXTENDS Integers, Sequences

CONSTANTS
    BufSize,      \* sizeof(recv_buf)
    MaxSentence,  \* sizeof(sentence)
    ReadSize,     \* sizeof(read_buf) - 1
    StreamLimit   \* bound: bytes read from a port before it is reopened

Bytes == {"$", "n", "x"}
Keep  == BufSize \div 2

ASSUME NmeaAssumption ==
    /\ BufSize \in Nat /\ MaxSentence \in Nat /\ ReadSize \in Nat \ {0}
    /\ StreamLimit \in Nat
    /\ Keep + ReadSize < BufSize

VARIABLES
    stream,     \* the bytes read since the port was opened
    recv_buf,   \* the first recv_len bytes of the buffer
    pc,         \* "read", or "extract" inside the loop that cuts out sentences
    out,        \* the sentences handed to the parser, in order
    dropped     \* some bytes were lost to an overflow or an overlong sentence

vars == <<stream, recv_buf, pc, out, dropped>>

Spans == (1..StreamLimit) \X (1..StreamLimit)

TypeOK ==
    /\ stream \in Seq(Bytes) /\ Len(stream) <= StreamLimit
    /\ recv_buf \in Seq(Bytes) /\ Len(recv_buf) < BufSize
    /\ pc \in {"read", "extract"}
    /\ out \in Seq(Spans)
    /\ dropped \in BOOLEAN

Init == /\ stream = <<>> /\ recv_buf = <<>> /\ out = <<>>
        /\ pc = "read"
        /\ dropped = FALSE

\* Position of the first b at or after position from in s (memchr), or 0
First(s, b, from) ==
    LET found == {i \in from..Len(s) : s[i] = b}
    IN  IF found = {} THEN 0 ELSE CHOOSE i \in found : \A j \in found : i <= j

From(s, i) == SubSeq(s, i, Len(s))

-----------------------------------------------------------------------------
\* rtk_serial_read returned data: append it, or make room first.
Fits(data) == Len(recv_buf) + Len(data) < BufSize

\* Mutant of AppendData: the older half is kept.
AppendToOlder(data) ==
    recv_buf' = IF Fits(data) THEN recv_buf \o data
                ELSE SubSeq(recv_buf, 1, Keep) \o data

\* Mutant of AppendData: nothing is thrown away.
AppendAlways(data) == recv_buf' = recv_buf \o data

AppendData(data) ==
    recv_buf' = IF Fits(data) THEN recv_buf \o data
                ELSE From(recv_buf, Len(recv_buf) - Keep + 1) \o data

Receive(data) ==
    /\ pc = "read"
    /\ Len(stream) + Len(data) <= StreamLimit
    /\ stream' = stream \o data
    /\ AppendData(data)
    /\ dropped' = (dropped \/ ~Fits(data))
    /\ pc' = "extract"
    /\ UNCHANGED out

-----------------------------------------------------------------------------
(* extract_nmea_sentence_v2, and the loop around it                        *)
start == First(recv_buf, "$", 1)
end   == First(recv_buf, "n", start)

\* Position in the stream of position i of the buffer
InStream(i) == Len(stream) - Len(recv_buf) + i

\* No start: everything is dropped.
NoStart ==
    /\ pc = "extract" /\ recv_buf # <<>>
    /\ start = 0
    /\ recv_buf' = <<>>
    /\ pc' = "read"
    /\ UNCHANGED <<stream, out, dropped>>

\* Mutant of Incomplete: the beginning of the sentence is dropped, too.
IncompleteDropped ==
    /\ pc = "extract" /\ recv_buf # <<>>
    /\ start # 0 /\ end = 0
    /\ recv_buf' = <<>>
    /\ pc' = "read"
    /\ UNCHANGED <<stream, out, dropped>>

\* No end yet: what comes before the start is dropped.
Incomplete ==
    /\ pc = "extract" /\ recv_buf # <<>>
    /\ start # 0 /\ end = 0
    /\ recv_buf' = From(recv_buf, start)
    /\ pc' = "read"
    /\ UNCHANGED <<stream, out, dropped>>

\* Does not fit into sentence: skipped, and the loop is left.
TooLong ==
    /\ pc = "extract" /\ recv_buf # <<>>
    /\ start # 0 /\ end # 0
    /\ end - start + 1 >= MaxSentence
    /\ recv_buf' = From(recv_buf, end + 1)
    /\ dropped' = TRUE
    /\ pc' = "read"
    /\ UNCHANGED <<stream, out>>

\* Mutant of Deliver: the sentence is not removed from the buffer.
DeliverTwice ==
    /\ pc = "extract" /\ recv_buf # <<>>
    /\ start # 0 /\ end # 0
    /\ end - start + 1 < MaxSentence
    /\ Len(out) < StreamLimit
    /\ out' = Append(out, <<InStream(start), InStream(end)>>)
    /\ recv_buf' = From(recv_buf, start)
    /\ UNCHANGED <<stream, pc, dropped>>

Deliver ==
    /\ pc = "extract" /\ recv_buf # <<>>
    /\ start # 0 /\ end # 0
    /\ end - start + 1 < MaxSentence
    /\ out' = Append(out, <<InStream(start), InStream(end)>>)
    /\ recv_buf' = From(recv_buf, end + 1)
    /\ UNCHANGED <<stream, pc, dropped>>

\* while (recv_len > 0)
Emptied ==
    /\ pc = "extract" /\ recv_buf = <<>>
    /\ pc' = "read"
    /\ UNCHANGED <<stream, recv_buf, out, dropped>>

\* The port was reconnected: recv_len = 0, and a new stream begins.
Reconnected ==
    /\ pc = "read"
    /\ stream' = <<>> /\ recv_buf' = <<>> /\ out' = <<>>
    /\ dropped' = FALSE
    /\ UNCHANGED pc

Next == \/ \E n \in 1..ReadSize : \E data \in [1..n -> Bytes] : Receive(data)
        \/ NoStart \/ Incomplete \/ TooLong \/ Deliver \/ Emptied \/ Reconnected

Spec == Init /\ [][Next]_vars

-----------------------------------------------------------------------------
(* Properties                                                              *)

\* The buffer never mixes old and new data: it is the end of the stream, also
\* after an overflow.
BufferIsSuffix ==
    /\ Len(recv_buf) <= Len(stream)
    /\ \A i \in 1..Len(recv_buf) : recv_buf[i] = stream[InStream(i)]

IsSentence(i, j) ==
    /\ stream[i] = "$" /\ stream[j] = "n"
    /\ \A k \in i..j-1 : stream[k] # "n"
    /\ j - i + 1 < MaxSentence

\* What is handed to the parser is a sentence the module sent, whole; no two
\* share a byte, and they come in the order in which they were sent.
SentencesIntact ==
    /\ \A k \in 1..Len(out) : IsSentence(out[k][1], out[k][2])
    /\ \A k \in 1..Len(out)-1 : out[k][2] < out[k+1][1]

\* The reference: a line is a sentence from its first start to its end.
Reference ==
    {s \in Spans : /\ s[1] <= s[2] /\ s[2] <= Len(stream)
                   /\ IsSentence(s[1], s[2])
                   /\ \A k \in 1..s[1]-1 :
                         stream[k] = "$" => \E m \in k..s[1]-1 : stream[m] = "n"}

\* Unless bytes were dropped, every sentence in the stream has been handed on
\* when the thread reads again, however the reads cut the stream up.
NoSentenceLost == pc = "read" /\ ~dropped => {out[k] : k \in 1..Len(out)} = Reference
=============================================================================
