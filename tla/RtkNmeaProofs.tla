---------------------------- MODULE RtkNmeaProofs ----------------------------
(***************************************************************************)
(* The receive buffer of RtkNmea, for every size of buffer, sentence and   *)
(* read: it is the end of the stream, so what is cut out of it lies in the *)
(* stream; and what was cut out lies before the buffer, so the next        *)
(* sentence lies after it.                                                 *)
(***************************************************************************)
EXTENDS RtkNmea, SequenceTheorems, WellFoundedInduction, TLAPS

\* A set of numbers that is not empty has a least one.
LEMMA Least ==
    ASSUME NEW S \in SUBSET Nat, S # {}
    PROVE  \E i \in S : \A j \in S : i <= j
<1>1. PICK i \in S : \A j \in S : <<j, i>> \notin OpToRel(<, Nat)
  BY NatLessThanWellFounded, WFMin
<1>2. \A j \in S : ~(j < i)
  BY <1>1 DEF OpToRel
<1> QED BY <1>2

\* memchr finds the first occurrence.
LEMMA FirstFound ==
    ASSUME NEW s \in Seq(Bytes), NEW b, NEW from \in Nat, from >= 1, First(s, b, from) # 0
    PROVE  /\ First(s, b, from) \in from..Len(s)
           /\ s[First(s, b, from)] = b
           /\ \A k \in from..First(s, b, from)-1 : s[k] # b
<1> DEFINE found == {i \in from..Len(s) : s[i] = b}
<1>1. found # {}
  BY DEF First
<1>2. found \in SUBSET Nat
  OBVIOUS
<1>3. \E i \in found : \A j \in found : i <= j
  BY <1>1, <1>2, Least
<1>4. First(s, b, from) = CHOOSE i \in found : \A j \in found : i <= j
  BY <1>1 DEF First
<1>5. First(s, b, from) \in found /\ \A j \in found : First(s, b, from) <= j
  BY <1>3, <1>4
<1> HIDE DEF First
<1> QED BY <1>5

\* And 0 means that there is none.
LEMMA NoneFound ==
    ASSUME NEW s \in Seq(Bytes), NEW b, NEW from \in Nat, from >= 1, First(s, b, from) = 0
    PROVE  \A k \in from..Len(s) : s[k] # b
<1> DEFINE found == {i \in from..Len(s) : s[i] = b}
<1> SUFFICES ASSUME found # {} PROVE FALSE
  OBVIOUS
<1>1. found \in SUBSET Nat
  OBVIOUS
<1>2. \E i \in found : \A j \in found : i <= j
  BY <1>1, Least
<1>3. First(s, b, from) = CHOOSE i \in found : \A j \in found : i <= j
  BY DEF First
<1>4. First(s, b, from) \in found
  BY <1>2, <1>3
<1> HIDE DEF First
<1> QED BY <1>4

-----------------------------------------------------------------------------
Consumed == Len(stream) - Len(recv_buf)   \* bytes before the buffer

Buffered == /\ stream \in Seq(Bytes)
            /\ recv_buf \in Seq(Bytes) /\ Len(recv_buf) < BufSize
            /\ BufferIsSuffix

\* The sentences lie one after the other in front of the buffer.
Delivered ==
    /\ out \in Seq(Nat \X Nat)
    /\ \A k \in 1..Len(out) : /\ out[k][1] >= 1 /\ out[k][1] <= out[k][2]
                              /\ out[k][2] <= Consumed
                              /\ IsSentence(out[k][1], out[k][2])
    /\ \A k \in 1..Len(out)-1 : out[k][2] < out[k+1][1]

NmeaInv == Buffered /\ Delivered

\* Cutting off the front of the buffer.
LEMMA CutKeeps ==
    ASSUME Buffered, NEW i \in Nat, i >= 1, i <= Len(recv_buf) + 1,
           recv_buf' = From(recv_buf, i), UNCHANGED stream
    PROVE  Buffered' /\ Len(recv_buf') = Len(recv_buf) - i + 1
<1>1. /\ recv_buf' \in Seq(Bytes)
      /\ Len(recv_buf') = Len(recv_buf) - i + 1
      /\ \A k \in 1..Len(recv_buf') : recv_buf'[k] = recv_buf[k + i - 1]
  BY DEF Buffered, From
<1>2. Len(recv_buf) \in Nat /\ Len(stream) \in Nat /\ BufSize \in Nat
  BY NmeaAssumption DEF Buffered
<1>3. Len(recv_buf') < BufSize /\ Len(recv_buf') <= Len(stream')
  BY <1>1, <1>2 DEF Buffered, BufferIsSuffix
<1>4. ASSUME NEW k \in 1..Len(recv_buf')
      PROVE  recv_buf'[k] = stream'[InStream(k)']
  <2>1. k + i - 1 \in 1..Len(recv_buf)
    BY <1>1, <1>2, <1>4
  <2>2. recv_buf[k + i - 1] = stream[InStream(k + i - 1)]
    BY <2>1 DEF Buffered, BufferIsSuffix
  <2>3. InStream(k)' = InStream(k + i - 1)
    BY <1>1, <1>2 DEF InStream
  <2> QED BY <1>1, <2>2, <2>3
<1> QED BY <1>1, <1>3, <1>4 DEF Buffered, BufferIsSuffix

\* Appending to what is left of the buffer.
LEMMA AppendKeeps ==
    ASSUME Buffered, NEW data \in Seq(Bytes), NEW i \in Nat, i >= 1, i <= Len(recv_buf) + 1,
           recv_buf' = From(recv_buf, i) \o data, stream' = stream \o data,
           Len(recv_buf) - i + 1 + Len(data) < BufSize
    PROVE  Buffered' /\ Consumed' = Consumed + i - 1
<1> DEFINE rest == From(recv_buf, i)
<1>1. /\ rest \in Seq(Bytes)
      /\ Len(rest) = Len(recv_buf) - i + 1
      /\ \A k \in 1..Len(rest) : rest[k] = recv_buf[k + i - 1]
  BY DEF Buffered, From
<1> HIDE DEF rest
<1>2. /\ Len(recv_buf) \in Nat /\ Len(stream) \in Nat /\ Len(data) \in Nat
      /\ Len(recv_buf) <= Len(stream)
  BY DEF Buffered, BufferIsSuffix
<1>3. /\ recv_buf' \in Seq(Bytes)
      /\ Len(recv_buf') = Len(rest) + Len(data)
      /\ \A k \in 1..Len(rest) + Len(data) :
            recv_buf'[k] = IF k <= Len(rest) THEN rest[k] ELSE data[k - Len(rest)]
  BY <1>1, ConcatProperties DEF rest
<1>4. /\ stream' \in Seq(Bytes)
      /\ Len(stream') = Len(stream) + Len(data)
      /\ \A k \in 1..Len(stream) + Len(data) :
            stream'[k] = IF k <= Len(stream) THEN stream[k] ELSE data[k - Len(stream)]
  BY ConcatProperties DEF Buffered
<1>5. Len(recv_buf') < BufSize /\ Len(recv_buf') <= Len(stream')
  BY <1>1, <1>2, <1>3, <1>4
<1>6. ASSUME NEW k \in 1..Len(rest) + Len(data)
      PROVE  recv_buf'[k] = stream'[Len(stream) - Len(rest) + k]
  <2> DEFINE place == Len(stream) - Len(rest) + k
  <2>1. place \in 1..Len(stream) + Len(data)
    BY <1>1, <1>2
  <2>2. CASE k <= Len(rest)
    <3>1. k + i - 1 \in 1..Len(recv_buf)
      BY <1>1, <1>2, <2>2
    <3>2. recv_buf[k + i - 1] = stream[InStream(k + i - 1)]
      BY <3>1 DEF Buffered, BufferIsSuffix
    <3>3. InStream(k + i - 1) = place /\ place <= Len(stream)
      BY <1>1, <1>2, <2>2 DEF InStream
    <3>4. k \in 1..Len(rest)
      BY <1>1, <1>2, <2>2
    <3>5. recv_buf'[k] = stream[place]
      BY <1>1, <1>3, <2>2, <3>2, <3>3, <3>4
    <3>6. stream'[place] = stream[place]
      BY <1>4, <2>1, <3>3
    <3> QED BY <3>5, <3>6
  <2>3. CASE ~(k <= Len(rest))
    <3>1. ~(place <= Len(stream)) /\ place - Len(stream) = k - Len(rest)
      BY <1>1, <1>2, <2>3
    <3>2. recv_buf'[k] = data[k - Len(rest)]
      BY <1>3, <2>3
    <3>3. stream'[place] = data[place - Len(stream)]
      BY <1>4, <2>1, <3>1
    <3> QED BY <3>1, <3>2, <3>3
  <2> QED BY <2>2, <2>3
<1>7. Consumed' = Consumed + i - 1
  BY <1>1, <1>2, <1>3, <1>4 DEF Consumed
<1>8. ASSUME NEW k \in 1..Len(recv_buf')
      PROVE  recv_buf'[k] = stream'[InStream(k)']
  <2>1. InStream(k)' = Len(stream) - Len(rest) + k
    BY <1>1, <1>2, <1>3, <1>4 DEF InStream
  <2> QED BY <1>3, <1>6, <2>1
<1> QED BY <1>3, <1>4, <1>5, <1>7, <1>8 DEF Buffered, BufferIsSuffix

\* A longer stream has the same sentences in its old part.
LEMMA DeliveredKeeps ==
    ASSUME Delivered, UNCHANGED out, Consumed \in Nat, Consumed' \in Nat, Consumed <= Consumed',
           \A k \in 1..Consumed : stream'[k] = stream[k]
    PROVE  Delivered'
<1>1. ASSUME NEW k \in 1..Len(out)
      PROVE  /\ out[k][2] <= Consumed'
             /\ IsSentence(out[k][1], out[k][2])'
  <2>1. /\ out[k][1] \in Nat /\ out[k][2] \in Nat
        /\ out[k][1] >= 1 /\ out[k][1] <= out[k][2] /\ out[k][2] <= Consumed
        /\ IsSentence(out[k][1], out[k][2])
    BY DEF Delivered
  <2>2. \A m \in out[k][1]..out[k][2] : stream'[m] = stream[m]
    BY <2>1
  <2>3. /\ out[k][1] \in out[k][1]..out[k][2] /\ out[k][2] \in out[k][1]..out[k][2]
        /\ \A m \in out[k][1]..out[k][2]-1 : m \in out[k][1]..out[k][2]
    BY <2>1
  <2>4. IsSentence(out[k][1], out[k][2])'
    BY <2>1, <2>2, <2>3 DEF IsSentence
  <2> QED BY <2>1, <2>4
<1> QED BY <1>1 DEF Delivered

-----------------------------------------------------------------------------
LEMMA StepReceive ==
    ASSUME NmeaInv, NEW n \in 1..ReadSize, NEW data \in [1..n -> Bytes], Receive(data)
    PROVE  NmeaInv'
<1>1. data \in Seq(Bytes) /\ Len(data) = n /\ n \in Nat
  BY NmeaAssumption
<1>2. /\ Len(recv_buf) \in Nat /\ Len(stream) \in Nat /\ Len(recv_buf) <= Len(stream)
      /\ BufSize \in Nat /\ Keep \in Nat /\ Keep + n < BufSize
  BY NmeaAssumption DEF NmeaInv, Buffered, BufferIsSuffix, Keep
<1>3. PICK i \in Nat : /\ i >= 1 /\ i <= Len(recv_buf) + 1
                       /\ recv_buf' = From(recv_buf, i) \o data
                       /\ Len(recv_buf) - i + 1 + Len(data) < BufSize
  <2>1. CASE Fits(data)
    <3>1. From(recv_buf, 1) = recv_buf
      BY SubSeqFull DEF From, NmeaInv, Buffered
    <3> WITNESS 1 \in Nat
    <3> QED BY <1>1, <1>2, <2>1, <3>1 DEF Receive, AppendData, Fits
  <2>2. CASE ~Fits(data)
    <3>1. Len(recv_buf) >= Keep
      BY <1>1, <1>2, <2>2 DEF Fits
    <3> DEFINE cut == Len(recv_buf) - Keep + 1
    <3>2. cut \in Nat /\ cut >= 1 /\ cut <= Len(recv_buf) + 1 /\ Len(recv_buf) - cut + 1 = Keep
      BY <1>2, <3>1
    <3>3. recv_buf' = From(recv_buf, cut) \o data
      BY <2>2 DEF Receive, AppendData
    <3> HIDE DEF cut
    <3> QED BY <1>1, <1>2, <3>2, <3>3
  <2> QED BY <2>1, <2>2
<1>4. Buffered' /\ Consumed' = Consumed + i - 1
  BY <1>1, <1>3, AppendKeeps DEF NmeaInv, Receive
<1>5. Consumed \in Nat /\ Consumed' \in Nat /\ Consumed <= Consumed'
  BY <1>2, <1>3, <1>4 DEF Consumed
<1>6. \A k \in 1..Consumed : stream'[k] = stream[k]
  BY <1>1, <1>2, ConcatProperties DEF Consumed, NmeaInv, Buffered, Receive
<1> QED BY <1>4, <1>5, <1>6, DeliveredKeeps DEF NmeaInv, Receive

\* What is cut off without being handed on.
LEMMA StepCut ==
    ASSUME NmeaInv, UNCHANGED <<stream, out>>, NEW i \in Nat, i >= 1, i <= Len(recv_buf) + 1,
           recv_buf' = From(recv_buf, i)
    PROVE  NmeaInv'
<1>1. Buffered' /\ Len(recv_buf') = Len(recv_buf) - i + 1
  BY CutKeeps DEF NmeaInv
<1>2. Len(recv_buf) \in Nat /\ Len(stream) \in Nat /\ Len(recv_buf) <= Len(stream)
  BY DEF NmeaInv, Buffered, BufferIsSuffix
<1>3. Consumed \in Nat /\ Consumed' \in Nat /\ Consumed <= Consumed'
  <2>1. Len(recv_buf') \in Nat /\ Len(recv_buf') <= Len(recv_buf)
    BY <1>1, <1>2 DEF Buffered
  <2> QED BY <1>2, <2>1 DEF Consumed
<1> QED BY <1>1, <1>3, DeliveredKeeps DEF NmeaInv

\* start and end are where they claim to be.
LEMMA StartAndEnd ==
    ASSUME Buffered, start # 0, end # 0
    PROVE  /\ start \in 1..Len(recv_buf) /\ end \in start..Len(recv_buf)
           /\ recv_buf[start] = "$" /\ recv_buf[end] = "n"
           /\ \A k \in start..end-1 : recv_buf[k] # "n"
<1>1. start \in 1..Len(recv_buf) /\ recv_buf[start] = "$"
  BY FirstFound DEF Buffered, start
<1> QED BY <1>1, FirstFound DEF Buffered, end

LEMMA StepDeliver ==
    ASSUME NmeaInv, Deliver
    PROVE  NmeaInv'
<1> DEFINE i == InStream(start)
           j == InStream(end)
<1>1. /\ start \in 1..Len(recv_buf) /\ end \in start..Len(recv_buf)
      /\ recv_buf[start] = "$" /\ recv_buf[end] = "n"
      /\ \A k \in start..end-1 : recv_buf[k] # "n"
  BY StartAndEnd DEF NmeaInv, Deliver
<1>2. /\ Len(recv_buf) \in Nat /\ Len(stream) \in Nat /\ Len(recv_buf) <= Len(stream)
      /\ \A k \in 1..Len(recv_buf) : recv_buf[k] = stream[InStream(k)]
  BY DEF NmeaInv, Buffered, BufferIsSuffix
<1>3. Buffered' /\ Len(recv_buf') = Len(recv_buf) - end
  <2>1. end + 1 \in Nat /\ end + 1 >= 1 /\ end + 1 <= Len(recv_buf) + 1
    BY <1>1, <1>2
  <2>2. Buffered' /\ Len(recv_buf') = Len(recv_buf) - (end + 1) + 1
    BY <2>1, CutKeeps DEF NmeaInv, Deliver
  <2> QED BY <1>1, <1>2, <2>2
<1>4. /\ i \in Nat /\ j \in Nat /\ Consumed \in Nat /\ Consumed' \in Nat
      /\ i >= Consumed + 1 /\ i <= j /\ j = Consumed' /\ Consumed <= Consumed'
  <2>1. stream' = stream
    BY DEF Deliver
  <2>2. start \in Nat /\ end \in Nat /\ start >= 1 /\ start <= end /\ end <= Len(recv_buf)
    BY <1>1, <1>2
  <2> HIDE DEF start, end
  <2>3. Consumed' = Consumed + end
    BY <1>2, <1>3, <2>1, <2>2 DEF Consumed
  <2> QED BY <1>2, <2>2, <2>3 DEF InStream, Consumed
<1>5. IsSentence(i, j)
  <2>1. stream[i] = "$" /\ stream[j] = "n"
    BY <1>1, <1>2
  <2>2. ASSUME NEW k \in i..j-1
        PROVE  stream[k] # "n"
    <3> DEFINE b == k - (Len(stream) - Len(recv_buf))
    <3>1. b \in start..end-1 /\ b \in 1..Len(recv_buf) /\ InStream(b) = k
      BY <1>1, <1>2, <1>4 DEF InStream
    <3> QED BY <1>1, <1>2, <3>1
  <2>3. j - i + 1 < MaxSentence
    BY <1>1, <1>2 DEF InStream, Deliver
  <2> QED BY <2>1, <2>2, <2>3 DEF IsSentence
<1>6. out' = Append(out, <<i, j>>) /\ stream' = stream
  BY DEF Deliver
<1> HIDE DEF i, j
<1>7. /\ out' \in Seq(Nat \X Nat) /\ Len(out') = Len(out) + 1 /\ Len(out) \in Nat
      /\ \A k \in 1..Len(out) : out'[k] = out[k]
      /\ out'[Len(out) + 1] = <<i, j>>
  BY <1>4, <1>6 DEF NmeaInv, Delivered
<1>8. \A k \in 1..Len(out) : out[k] \in Nat \X Nat
  BY DEF NmeaInv, Delivered
<1>9. ASSUME NEW k \in 1..Len(out')
      PROVE  /\ out'[k][1] >= 1 /\ out'[k][1] <= out'[k][2]
             /\ out'[k][2] <= Consumed'
             /\ IsSentence(out[k][1], out[k][2])'
  <2>1. CASE k = Len(out) + 1
    <3>1. out'[k] = <<i, j>>
      BY <1>7, <2>1
    <3>2. out'[k][1] = i /\ out'[k][2] = j
      BY <3>1
    <3>3. IsSentence(out[k][1], out[k][2])'
      BY <1>5, <1>6, <3>2 DEF IsSentence
    <3>4. i >= 1 /\ i <= j /\ j <= Consumed'
      BY <1>4
    <3> QED BY <3>2, <3>3, <3>4
  <2>2. CASE k \in 1..Len(out)
    <3>1. out'[k] = out[k] /\ out[k] \in Nat \X Nat
      BY <1>7, <1>8, <2>2
    <3>2. /\ out[k][1] >= 1 /\ out[k][1] <= out[k][2] /\ out[k][2] <= Consumed
          /\ IsSentence(out[k][1], out[k][2])
      BY <2>2 DEF NmeaInv, Delivered
    <3>3. out[k][2] <= Consumed'
      BY <1>4, <3>1, <3>2
    <3> QED BY <1>6, <3>1, <3>2, <3>3 DEF IsSentence
  <2> QED BY <1>7, <2>1, <2>2
<1>10. ASSUME NEW k \in 1..Len(out')-1
      PROVE  out'[k][2] < out'[k+1][1]
  <2>0. k \in 1..Len(out)
    BY <1>7
  <2>1. /\ out'[k] = out[k] /\ out[k] \in Nat \X Nat /\ out[k][2] \in Nat
        /\ out[k][2] <= Consumed
    <3>1. out'[k] = out[k] /\ out[k] \in Nat \X Nat
      BY <1>7, <1>8, <2>0
    <3>2. out[k][2] <= Consumed
      BY <2>0 DEF NmeaInv, Delivered
    <3> QED BY <3>1, <3>2
  <2>2. CASE k = Len(out)
    <3>1. out'[k + 1] = <<i, j>>
      BY <1>7, <2>2
    <3>2. out'[k + 1][1] = i
      BY <3>1
    <3> QED BY <1>4, <2>1, <3>2
  <2>3. CASE k \in 1..Len(out)-1
    <3>1. out[k][2] < out[k+1][1]
      BY <2>3 DEF NmeaInv, Delivered
    <3>2. out'[k + 1] = out[k + 1]
      BY <1>7, <2>3
    <3> QED BY <2>1, <3>1, <3>2
  <2> QED BY <1>7, <2>0, <2>2, <2>3
<1> QED BY <1>3, <1>7, <1>9, <1>10 DEF NmeaInv, Delivered

LEMMA StepNmea == NmeaInv /\ [Next]_vars => NmeaInv'
<1> SUFFICES ASSUME NmeaInv, [Next]_vars PROVE NmeaInv'
  OBVIOUS
<1>0. Len(recv_buf) \in Nat
  BY DEF NmeaInv, Buffered
<1>1. ASSUME NEW n \in 1..ReadSize, NEW data \in [1..n -> Bytes], Receive(data)
      PROVE  NmeaInv'
  BY <1>1, StepReceive
<1>2. CASE NoStart
  <2>1. From(recv_buf, Len(recv_buf) + 1) = <<>>
    BY <1>0, SubSeqEmpty DEF From
  <2> QED BY <1>0, <1>2, <2>1, StepCut DEF NoStart
<1>3. CASE Incomplete
  <2>1. start \in 1..Len(recv_buf)
    BY <1>3, FirstFound DEF Incomplete, start, NmeaInv, Buffered
  <2> QED BY <1>0, <1>3, <2>1, StepCut DEF Incomplete
<1>4. CASE TooLong
  <2>1. end + 1 \in Nat /\ end + 1 >= 1 /\ end + 1 <= Len(recv_buf) + 1
    BY <1>0, <1>4, StartAndEnd DEF TooLong, NmeaInv
  <2> QED BY <1>4, <2>1, StepCut DEF TooLong
<1>5. CASE Deliver
  BY <1>5, StepDeliver
<1>6. CASE Emptied \/ UNCHANGED vars
  BY <1>6 DEF Emptied, vars, NmeaInv, Buffered, BufferIsSuffix, InStream, Delivered, Consumed,
              IsSentence
<1>7. CASE Reconnected
  BY <1>7, NmeaAssumption DEF Reconnected, NmeaInv, Buffered, BufferIsSuffix, Delivered
<1> QED BY <1>1, <1>2, <1>3, <1>4, <1>5, <1>6, <1>7 DEF Next

LEMMA NmeaInvariance == Spec => []NmeaInv
<1>1. Init => NmeaInv
  BY NmeaAssumption DEF Init, NmeaInv, Buffered, BufferIsSuffix, Delivered, Keep
<1> QED BY <1>1, StepNmea, PTL DEF Spec

\* Whatever the sizes, and after any overflow: the buffer is the end of the
\* stream, old and new data are not mixed.
THEOREM NmeaBuffer == Spec => []BufferIsSuffix
<1>1. NmeaInv => BufferIsSuffix
  BY DEF NmeaInv, Buffered
<1> QED BY <1>1, NmeaInvariance, PTL

\* However the reads cut the stream up: every sentence handed on was sent,
\* whole, once and in order.
THEOREM NmeaSentences == Spec => []SentencesIntact
<1>1. NmeaInv => SentencesIntact
  BY DEF NmeaInv, Delivered, SentencesIntact
<1> QED BY <1>1, NmeaInvariance, PTL

-----------------------------------------------------------------------------
(***************************************************************************)
(* Nothing is lost.  As long as no byte was dropped: of the sentences of   *)
(* the stream those that end before the buffer have been handed on and no  *)
(* others (Complete); no line that began before the buffer is still open   *)
(* where it begins (Closed); and the thread reads again only when there is *)
(* no end left in the buffer (NoEnd).                                      *)
(***************************************************************************)
Sent == {out[k] : k \in 1..Len(out)}

Closed == \A k \in 1..Consumed :
             stream[k] = "$" => \E m \in k..Consumed : stream[m] = "n"

Complete == /\ Sent \subseteq Reference
            /\ \A s \in Reference : s[2] <= Consumed => s \in Sent

NoEnd == pc = "read" => \A k \in 1..Len(recv_buf) : recv_buf[k] # "n"

Lossless == ~dropped => Closed /\ Complete /\ NoEnd

Types == /\ Len(stream) <= StreamLimit
         /\ pc \in {"read", "extract"}
         /\ dropped \in BOOLEAN

FullInv == NmeaInv /\ Types /\ Lossless

\* What the reference says of a sentence.
LEMMA ReferenceFacts ==
    ASSUME stream \in Seq(Bytes), NEW s \in Reference
    PROVE  /\ s \in Spans
           /\ s[1] \in Nat /\ s[2] \in Nat /\ s[1] >= 1 /\ s[1] <= s[2] /\ s[2] <= Len(stream)
           /\ stream[s[1]] = "$" /\ stream[s[2]] = "n"
           /\ \A k \in s[1]..s[2]-1 : stream[k] # "n"
           /\ \A k \in 1..s[1]-1 :
                 stream[k] = "$" => \E m \in k..s[1]-1 : stream[m] = "n"
<1>1. s \in Spans
  BY DEF Reference
<1>2. s[1] \in 1..StreamLimit /\ s[2] \in 1..StreamLimit
  BY <1>1 DEF Spans
<1>3. s[1] \in Nat /\ s[2] \in Nat /\ s[1] >= 1
  BY <1>2, NmeaAssumption
<1> QED BY <1>1, <1>3 DEF Reference, IsSentence

\* A sentence that ends in the buffer starts there.
LEMMA StartsLate ==
    ASSUME Buffered, Closed, NEW s \in Reference, Consumed < s[2]
    PROVE  Consumed < s[1]
<1>1. Consumed \in Nat
  BY DEF Buffered, BufferIsSuffix, Consumed
<1>2. /\ s[1] \in Nat /\ s[2] \in Nat /\ s[1] >= 1
      /\ stream[s[1]] = "$" /\ \A k \in s[1]..s[2]-1 : stream[k] # "n"
  BY ReferenceFacts DEF Buffered
<1> SUFFICES ASSUME s[1] <= Consumed PROVE FALSE
  BY <1>1, <1>2
<1>3. s[1] \in 1..Consumed
  BY <1>1, <1>2
<1>4. PICK m \in s[1]..Consumed : stream[m] = "n"
  BY <1>2, <1>3 DEF Closed
<1>5. m \in s[1]..s[2]-1
  BY <1>1, <1>2, <1>4
<1> QED BY <1>2, <1>4, <1>5

\* A longer stream has the same sentences in its old part.
LEMMA ReferenceGrows ==
    ASSUME stream \in Seq(Bytes), stream' \in Seq(Bytes), Len(stream) <= Len(stream'),
           \A k \in 1..Len(stream) : stream'[k] = stream[k],
           NEW s \in Spans, s[2] <= Len(stream)
    PROVE  s \in Reference <=> s \in Reference'
<1>1. s[1] \in Nat /\ s[2] \in Nat /\ s[1] >= 1 /\ s[2] >= 1
  BY NmeaAssumption DEF Spans
<1>2. CASE ~(s[1] <= s[2])
  BY <1>2 DEF Reference
<1>3. CASE s[1] <= s[2]
  <2>1. \A k \in 1..s[2] : stream'[k] = stream[k]
    BY <1>1
  <2>2. IsSentence(s[1], s[2])' <=> IsSentence(s[1], s[2])
    <3>1. /\ s[1] \in 1..s[2] /\ s[2] \in 1..s[2]
          /\ \A k \in s[1]..s[2]-1 : k \in 1..s[2]
      BY <1>1, <1>3
    <3> QED BY <2>1, <3>1 DEF IsSentence
  <2>3. ASSUME NEW k \in 1..s[1]-1
        PROVE  /\ stream'[k] = stream[k]
               /\ \A m \in k..s[1]-1 : stream'[m] = stream[m]
    <3>1. k \in 1..s[2] /\ \A m \in k..s[1]-1 : m \in 1..s[2]
      BY <1>1, <1>3
    <3> QED BY <2>1, <3>1
  <2>4. s[2] <= Len(stream')
    BY <1>1
  <2> QED BY <1>3, <2>2, <2>3, <2>4 DEF Reference
<1> QED BY <1>2, <1>3

\* Between steps that leave the stream alone so does the reference.
LEMMA ReferenceStays ==
    ASSUME stream' = stream
    PROVE  Reference' = Reference
  BY DEF Reference, IsSentence

LEMMA LosslessReceive ==
    ASSUME NmeaInv, Lossless, NEW n \in 1..ReadSize, NEW data \in [1..n -> Bytes], Receive(data)
    PROVE  Lossless'
<1> SUFFICES ASSUME ~dropped, Fits(data) PROVE (Closed /\ Complete /\ NoEnd)'
  BY DEF Lossless, Receive
<1>1. data \in Seq(Bytes) /\ Len(data) = n /\ n \in Nat
  BY NmeaAssumption
<1>2. /\ Len(recv_buf) \in Nat /\ Len(stream) \in Nat /\ Len(recv_buf) <= Len(stream)
      /\ stream \in Seq(Bytes) /\ recv_buf \in Seq(Bytes)
  BY DEF NmeaInv, Buffered, BufferIsSuffix
<1>3. stream' = stream \o data /\ recv_buf' = recv_buf \o data /\ out' = out /\ pc' = "extract"
  BY DEF Receive, AppendData
<1>4. /\ stream' \in Seq(Bytes) /\ Len(stream') = Len(stream) + n
      /\ Len(recv_buf') = Len(recv_buf) + n
      /\ \A k \in 1..Len(stream) : stream'[k] = stream[k]
  <2>1. /\ stream \o data \in Seq(Bytes) /\ Len(stream \o data) = Len(stream) + n
        /\ \A k \in 1..Len(stream) + n :
              (stream \o data)[k] = IF k <= Len(stream) THEN stream[k] ELSE data[k - Len(stream)]
    BY <1>1, <1>2, ConcatProperties
  <2>2. Len(recv_buf \o data) = Len(recv_buf) + n
    BY <1>1, <1>2, ConcatProperties
  <2>3. \A k \in 1..Len(stream) : k \in 1..Len(stream) + n /\ k <= Len(stream)
    BY <1>1, <1>2
  <2>4. \A k \in 1..Len(stream) : (stream \o data)[k] = stream[k]
    BY <2>1, <2>3
  <2> QED BY <1>3, <2>1, <2>2, <2>4
<1>5. Consumed' = Consumed /\ Consumed \in Nat /\ Consumed <= Len(stream)
  BY <1>1, <1>2, <1>4 DEF Consumed
<1>6. Closed'
  <2>1. ASSUME NEW k \in 1..Consumed PROVE stream'[k] = stream[k]
    <3>1. k \in 1..Len(stream)
      BY <1>2, <1>5
    <3> QED BY <1>4, <3>1
  <2> SUFFICES ASSUME NEW k \in 1..Consumed, stream'[k] = "$"
               PROVE  \E m \in k..Consumed : stream'[m] = "n"
    BY <1>5 DEF Closed
  <2>2. PICK m \in k..Consumed : stream[m] = "n"
    BY <2>1 DEF Lossless, Closed
  <2>3. m \in 1..Consumed
    BY <1>5
  <2> QED BY <2>1, <2>2, <2>3
<1>7. Complete'
  <2>1. Sent' = Sent
    BY <1>3 DEF Sent
  <2>2. \A s \in Spans : s[2] <= Len(stream) => (s \in Reference <=> s \in Reference')
    BY <1>2, <1>4, ReferenceGrows
  <2>3. ASSUME NEW s \in Sent PROVE s \in Reference'
    <3>1. s \in Reference
      BY DEF Lossless, Complete
    <3> QED BY <1>2, <2>2, <3>1, ReferenceFacts
  <2>4. ASSUME NEW s \in Reference', s[2] <= Consumed PROVE s \in Sent
    <3>1. s \in Spans
      BY DEF Reference
    <3>2. s[2] \in Nat
      BY <3>1, NmeaAssumption DEF Spans
    <3>3. s \in Reference
      BY <1>2, <1>5, <2>2, <2>4, <3>1, <3>2
    <3> QED BY <2>4, <3>3 DEF Lossless, Complete
  <2> QED BY <1>5, <2>1, <2>3, <2>4 DEF Complete
<1> QED BY <1>3, <1>6, <1>7 DEF NoEnd

\* Cutting off what holds no start loses no sentence.
LEMMA LosslessCut ==
    ASSUME NmeaInv, Closed, Complete, UNCHANGED <<stream, out>>,
           NEW i \in Nat, i >= 1, i <= Len(recv_buf) + 1, recv_buf' = From(recv_buf, i),
           \A k \in 1..i-1 : recv_buf[k] # "$"
    PROVE  (Closed /\ Complete)'
<1>1. /\ Len(recv_buf) \in Nat /\ Len(stream) \in Nat /\ Len(recv_buf) <= Len(stream)
      /\ stream \in Seq(Bytes) /\ \A k \in 1..Len(recv_buf) : recv_buf[k] = stream[InStream(k)]
  BY DEF NmeaInv, Buffered, BufferIsSuffix
<1>2. Len(recv_buf') = Len(recv_buf) - i + 1
  BY CutKeeps DEF NmeaInv
<1>3. /\ Consumed \in Nat /\ Consumed' \in Nat /\ Consumed' = Consumed + i - 1
      /\ Consumed <= Consumed' /\ Consumed' <= Len(stream)
  <2>1. Consumed' = Len(stream) - Len(recv_buf')
    BY DEF Consumed
  <2> QED BY <1>1, <1>2, <2>1 DEF Consumed
<1>4. ASSUME NEW k \in Nat, Consumed < k, k <= Consumed'
      PROVE  stream[k] # "$"
  <2> DEFINE b == k - Consumed
  <2>1. b \in 1..i-1 /\ b \in 1..Len(recv_buf) /\ InStream(b) = k
    BY <1>1, <1>3, <1>4 DEF Consumed, InStream
  <2> QED BY <1>1, <2>1
<1>5. Closed'
  <2> SUFFICES ASSUME NEW k \in 1..Consumed', stream[k] = "$"
               PROVE  \E m \in k..Consumed' : stream[m] = "n"
    BY DEF Closed
  <2>1. k \in 1..Consumed
    BY <1>3, <1>4
  <2>2. PICK m \in k..Consumed : stream[m] = "n"
    BY <2>1 DEF Closed
  <2>3. m \in k..Consumed'
    BY <1>3, <2>1
  <2> QED BY <2>2, <2>3
<1>6. Complete'
  <2>1. Sent' = Sent /\ Reference' = Reference
    BY ReferenceStays DEF Sent
  <2>2. ASSUME NEW s \in Reference, s[2] <= Consumed' PROVE s \in Sent
    <3>1. s[1] \in Nat /\ s[2] \in Nat /\ s[1] <= s[2] /\ stream[s[1]] = "$"
      BY <1>1, ReferenceFacts
    <3>2. CASE s[2] <= Consumed
      BY <3>2 DEF Complete
    <3>3. CASE ~(s[2] <= Consumed)
      <4>1. Consumed < s[1]
        BY <1>3, <3>1, <3>3, StartsLate DEF NmeaInv
      <4> QED BY <1>3, <1>4, <2>2, <3>1, <4>1
    <3> QED BY <3>2, <3>3
  <2> QED BY <2>1, <2>2 DEF Complete
<1> QED BY <1>5, <1>6

\* A sentence is cut out: it is the only one that ends in what is cut off.
LEMMA LosslessDeliver ==
    ASSUME NmeaInv, Types, Closed, Complete, Deliver
    PROVE  (Closed /\ Complete)'
<1> DEFINE i == InStream(start)
           j == InStream(end)
<1>1. /\ start \in 1..Len(recv_buf) /\ end \in start..Len(recv_buf)
      /\ recv_buf[start] = "$" /\ recv_buf[end] = "n"
      /\ \A k \in start..end-1 : recv_buf[k] # "n"
      /\ \A k \in 1..start-1 : recv_buf[k] # "$"
  <2>1. \A k \in 1..start-1 : recv_buf[k] # "$"
    BY FirstFound DEF NmeaInv, Buffered, Deliver, start
  <2> QED BY <2>1, StartAndEnd DEF NmeaInv, Deliver
<1>2. /\ Len(recv_buf) \in Nat /\ Len(stream) \in Nat /\ Len(recv_buf) <= Len(stream)
      /\ stream \in Seq(Bytes) /\ \A k \in 1..Len(recv_buf) : recv_buf[k] = stream[InStream(k)]
  BY DEF NmeaInv, Buffered, BufferIsSuffix
<1>3. start \in Nat /\ end \in Nat /\ start >= 1 /\ start <= end /\ end <= Len(recv_buf)
  BY <1>1, <1>2
<1>4. /\ out' = Append(out, <<i, j>>) /\ stream' = stream /\ recv_buf' = From(recv_buf, end + 1)
      /\ end - start + 1 < MaxSentence
  BY DEF Deliver
<1>5. Len(recv_buf') = Len(recv_buf) - end
  <2>1. end + 1 \in Nat /\ end + 1 >= 1 /\ end + 1 <= Len(recv_buf) + 1
    BY <1>2, <1>3
  <2>2. Len(recv_buf') = Len(recv_buf) - (end + 1) + 1
    BY <1>4, <2>1, CutKeeps DEF NmeaInv
  <2> QED BY <1>2, <1>3, <2>2
<1> HIDE DEF start, end
<1>6. /\ i \in Nat /\ j \in Nat /\ Consumed \in Nat /\ Consumed' \in Nat
      /\ Consumed < i /\ i <= j /\ j = Consumed' /\ j <= Len(stream) /\ j - i = end - start
      /\ i = Consumed + start /\ j = Consumed + end
  <2>1. Consumed' = Len(stream) - (Len(recv_buf) - end)
    BY <1>4, <1>5 DEF Consumed
  <2> QED BY <1>2, <1>3, <2>1 DEF InStream, Consumed
<1>7. ASSUME NEW k \in Nat, Consumed < k, k <= j
      PROVE  /\ k < i => stream[k] # "$"
             /\ i <= k /\ k < j => stream[k] # "n"
  <2> DEFINE b == k - Consumed
  <2>1. b \in 1..Len(recv_buf) /\ InStream(b) = k
    BY <1>2, <1>3, <1>6, <1>7 DEF Consumed, InStream
  <2>2. stream[k] = recv_buf[b]
    BY <1>2, <2>1
  <2>3. (k < i => b \in 1..start-1) /\ (i <= k /\ k < j => b \in start..end-1)
    BY <1>3, <1>6, <1>7
  <2> QED BY <1>1, <2>2, <2>3
<1>8. stream[i] = "$" /\ stream[j] = "n"
  BY <1>1, <1>2
<1> HIDE DEF i, j
<1>9. Closed'
  <2> SUFFICES ASSUME NEW k \in 1..j, stream[k] = "$"
               PROVE  \E m \in k..j : stream[m] = "n"
    BY <1>4, <1>6 DEF Closed
  <2>1. j \in k..j
    BY <1>6
  <2> QED BY <1>8, <2>1
<1>10. <<i, j>> \in Reference
  <2>1. <<i, j>> \in Spans
    BY <1>2, <1>6, NmeaAssumption DEF Types, Spans
  <2>2. \A k \in i..j-1 : stream[k] # "n"
    BY <1>6, <1>7
  <2>3. j - i + 1 < MaxSentence
    BY <1>3, <1>4, <1>6
  <2>4. ASSUME NEW k \in 1..i-1, stream[k] = "$"
        PROVE  \E m \in k..i-1 : stream[m] = "n"
    <3>1. k \in 1..Consumed
      BY <1>6, <1>7, <2>4
    <3>2. PICK m \in k..Consumed : stream[m] = "n"
      BY <2>4, <3>1 DEF Closed
    <3>3. m \in k..i-1
      BY <1>6, <3>1
    <3> QED BY <3>2, <3>3
  <2>5. IsSentence(i, j)
    BY <1>8, <2>2, <2>3 DEF IsSentence
  <2> QED BY <1>6, <2>1, <2>4, <2>5 DEF Reference
<1>11. ASSUME NEW s \in Reference, Consumed < s[2], s[2] <= Consumed'
       PROVE  s = <<i, j>>
  <2>1. /\ s \in Spans /\ s[1] \in Nat /\ s[2] \in Nat /\ s[1] >= 1 /\ s[1] <= s[2]
        /\ stream[s[1]] = "$" /\ stream[s[2]] = "n"
        /\ \A k \in 1..s[1]-1 :
              stream[k] = "$" => \E m \in k..s[1]-1 : stream[m] = "n"
    BY <1>2, ReferenceFacts
  <2>2. Consumed < s[1]
    BY <1>11, StartsLate DEF NmeaInv
  <2>3. i <= s[1]
    BY <1>6, <1>7, <1>11, <2>1, <2>2
  <2>4. s[2] = j
    <3>1. Consumed < s[2] /\ s[2] <= j /\ i <= s[2]
      BY <1>6, <1>11, <2>1, <2>3
    <3>2. ~(s[2] < j)
      BY <1>7, <2>1, <3>1
    <3> QED BY <1>6, <2>1, <3>1, <3>2
  <2>5. s[1] = i
    <3> SUFFICES ASSUME i < s[1] PROVE FALSE
      BY <1>6, <2>1, <2>3
    <3>1. i \in 1..s[1]-1
      BY <1>6, <2>1
    <3>2. PICK m \in i..s[1]-1 : stream[m] = "n"
      BY <1>8, <2>1, <3>1
    <3>3. m \in Nat /\ Consumed < m /\ i <= m /\ m < j /\ m <= j
      BY <1>6, <2>1, <2>4
    <3> QED BY <1>7, <3>2, <3>3
  <2> QED BY <2>1, <2>4, <2>5 DEF Spans
<1>12. Sent' = Sent \cup {<<i, j>>}
  <2>1. /\ Len(out') = Len(out) + 1 /\ Len(out) \in Nat
        /\ \A k \in 1..Len(out) : out'[k] = out[k]
        /\ out'[Len(out) + 1] = <<i, j>>
    BY <1>4 DEF NmeaInv, Delivered
  <2>2. 1..Len(out') = 1..Len(out) \cup {Len(out) + 1}
    BY <2>1
  <2> QED BY <2>1, <2>2 DEF Sent
<1>13. Complete'
  <2>1. Reference' = Reference
    BY <1>4, ReferenceStays
  <2>2. ASSUME NEW s \in Reference, s[2] <= Consumed' PROVE s \in Sent'
    <3>1. s[2] \in Nat
      BY <1>2, ReferenceFacts
    <3>2. CASE s[2] <= Consumed
      BY <1>12, <3>2 DEF Complete
    <3>3. CASE ~(s[2] <= Consumed)
      BY <1>6, <1>11, <1>12, <2>2, <3>1, <3>3
    <3> QED BY <3>2, <3>3
  <2>3. Sent' \subseteq Reference
    BY <1>10, <1>12 DEF Complete
  <2> QED BY <2>1, <2>2, <2>3 DEF Complete
<1> QED BY <1>9, <1>13

LEMMA StepLossless == FullInv /\ [Next]_vars => FullInv'
<1> SUFFICES ASSUME FullInv, [Next]_vars PROVE FullInv'
  OBVIOUS
<1>0. /\ NmeaInv /\ Types /\ Lossless
      /\ recv_buf \in Seq(Bytes) /\ Len(recv_buf) \in Nat /\ Len(stream) \in Nat
  BY DEF FullInv, NmeaInv, Buffered
<1>10. Len(<<>>) <= StreamLimit
  BY NmeaAssumption
<1>1. NmeaInv'
  BY <1>0, StepNmea
<1>2. ASSUME NEW n \in 1..ReadSize, NEW data \in [1..n -> Bytes], Receive(data)
      PROVE  (Types /\ Lossless)'
  <2>1. Lossless'
    BY <1>0, <1>2, LosslessReceive
  <2>2. Len(stream') <= StreamLimit
    <3>1. data \in Seq(Bytes) /\ stream \in Seq(Bytes)
      BY NmeaAssumption DEF FullInv, NmeaInv, Buffered
    <3>2. Len(stream \o data) = Len(stream) + Len(data)
      BY <3>1, ConcatProperties
    <3> QED BY <1>2, <3>2 DEF Receive
  <2> QED BY <1>0, <1>2, <2>1, <2>2 DEF Receive, Types
<1>3. ASSUME NoStart PROVE (Types /\ Lossless)'
  <2>1. \A k \in 1..Len(recv_buf) : recv_buf[k] # "$"
    BY <1>0, <1>3, NoneFound DEF NoStart, start
  <2>2. /\ Len(recv_buf) + 1 \in Nat /\ Len(recv_buf) + 1 >= 1
        /\ From(recv_buf, Len(recv_buf) + 1) = <<>>
        /\ \A k \in 1..(Len(recv_buf) + 1)-1 : recv_buf[k] # "$"
    BY <1>0, <2>1, SubSeqEmpty DEF From
  <2>3. ~dropped => (Closed /\ Complete)'
    BY <1>0, <1>3, <2>2, LosslessCut DEF NoStart, Lossless
  <2> QED BY <1>0, <1>3, <2>3 DEF NoStart, Types, Lossless, NoEnd
<1>4. ASSUME Incomplete PROVE (Types /\ Lossless)'
  <2>1. start \in 1..Len(recv_buf) /\ \A k \in 1..start-1 : recv_buf[k] # "$"
    BY <1>0, <1>4, FirstFound DEF Incomplete, start
  <2>2. start \in Nat /\ start >= 1 /\ start <= Len(recv_buf) + 1
    BY <1>0, <2>1
  <2>3. ~dropped => (Closed /\ Complete)'
    BY <1>0, <1>4, <2>1, <2>2, LosslessCut DEF Incomplete, Lossless
  <2>4. \A k \in start..Len(recv_buf) : recv_buf[k] # "n"
    BY <1>0, <1>4, <2>2, NoneFound DEF Incomplete, end
  <2>5. recv_buf' = From(recv_buf, start)
    BY <1>4 DEF Incomplete
  <2> HIDE DEF start
  <2>6. \A k \in 1..Len(recv_buf') : recv_buf'[k] # "n"
    <3>1. /\ Len(recv_buf') = Len(recv_buf) - start + 1
          /\ \A k \in 1..Len(recv_buf') : recv_buf'[k] = recv_buf[k + start - 1]
      BY <1>0, <2>2, <2>5 DEF From
    <3>2. \A k \in 1..Len(recv_buf') : k + start - 1 \in start..Len(recv_buf)
      BY <1>0, <2>2, <3>1
    <3> QED BY <2>4, <3>1, <3>2
  <2> QED BY <1>0, <1>4, <2>3, <2>6 DEF Incomplete, Types, Lossless, NoEnd
<1>5. ASSUME TooLong PROVE (Types /\ Lossless)'
  BY <1>0, <1>5 DEF TooLong, Types, Lossless
<1>6. ASSUME Deliver PROVE (Types /\ Lossless)'
  <2>1. ~dropped => (Closed /\ Complete)'
    BY <1>0, <1>6, LosslessDeliver DEF Lossless
  <2> QED BY <1>0, <1>6, <2>1 DEF Deliver, Types, Lossless, NoEnd
<1>7. ASSUME Emptied PROVE (Types /\ Lossless)'
  <2>1. UNCHANGED <<stream, recv_buf, out, dropped>> /\ recv_buf = <<>>
    BY <1>7 DEF Emptied
  <2>2. ~dropped => (Closed /\ Complete)'
    BY <1>0, <2>1 DEF Lossless, Closed, Complete, Sent, Consumed, Reference, IsSentence
  <2> QED BY <1>0, <1>7, <2>1, <2>2 DEF Emptied, Types, Lossless, NoEnd
<1>8. ASSUME Reconnected PROVE (Types /\ Lossless)'
  <2>1. Reference' = {} /\ Sent' = {} /\ Consumed' = 0
    BY <1>8, NmeaAssumption DEF Reconnected, Reference, Spans, Sent, Consumed
  <2>2. Closed' /\ Complete'
    BY <2>1 DEF Closed, Complete
  <2>3. stream' = <<>> /\ recv_buf' = <<>> /\ dropped' = FALSE /\ pc' = pc
    BY <1>8 DEF Reconnected
  <2>4. NoEnd'
    BY <2>3 DEF NoEnd
  <2>5. Types'
    BY <1>0, <1>10, <2>3 DEF Types
  <2> QED BY <2>2, <2>4, <2>5 DEF Lossless
<1>9. ASSUME UNCHANGED vars PROVE (Types /\ Lossless)'
  BY <1>0, <1>9 DEF vars, Types, Lossless, Closed, Complete, NoEnd, Sent, Consumed, Reference,
                    IsSentence
<1> QED BY <1>1, <1>2, <1>3, <1>4, <1>5, <1>6, <1>7, <1>8, <1>9 DEF Next, FullInv

LEMMA LosslessInvariance == Spec => []FullInv
<1>0. Len(<<>>) <= StreamLimit
  BY NmeaAssumption
<1>1. Init => FullInv
  <2> SUFFICES ASSUME Init PROVE FullInv
    OBVIOUS
  <2>1. NmeaInv
    BY NmeaAssumption DEF Init, NmeaInv, Buffered, BufferIsSuffix, Delivered, Keep
  <2>2. Reference = {} /\ Sent = {} /\ Consumed = 0
    BY NmeaAssumption DEF Init, Reference, Spans, Sent, Consumed
  <2>3. Closed /\ Complete
    BY <2>2 DEF Closed, Complete
  <2>4. NoEnd
    BY DEF Init, NoEnd
  <2>5. Types
    BY <1>0 DEF Init, Types
  <2> QED BY <2>1, <2>3, <2>4, <2>5 DEF FullInv, Lossless
<1> QED BY <1>1, StepLossless, PTL DEF Spec

\* The types; the buffer, the bytes read and what is handed on keep to their
\* bounds.
THEOREM NmeaTypes == Spec => []TypeOK
<1>1. ASSUME FullInv PROVE TypeOK
  <2>1. stream \in Seq(Bytes) /\ Len(stream) <= StreamLimit /\ Consumed <= Len(stream)
    BY <1>1 DEF FullInv, Types, NmeaInv, Buffered, BufferIsSuffix, Consumed
  <2>2. /\ out \in Seq(Nat \X Nat)
        /\ \A k \in 1..Len(out) : /\ out[k][1] >= 1 /\ out[k][1] <= out[k][2]
                                  /\ out[k][2] <= Consumed
    BY <1>1 DEF FullInv, NmeaInv, Delivered
  <2>3. ASSUME NEW k \in 1..Len(out) PROVE out[k] \in Spans
    <3>1. out[k] \in Nat \X Nat
      BY <2>2
    <3>2. Consumed \in Int /\ Len(stream) \in Int /\ StreamLimit \in Int
      BY <1>1, NmeaAssumption DEF FullInv, NmeaInv, Buffered, Consumed
    <3>3. out[k][1] \in 1..StreamLimit /\ out[k][2] \in 1..StreamLimit
      BY <2>1, <2>2, <3>1, <3>2
    <3> QED BY <3>1, <3>3 DEF Spans
  <2>4. out \in Seq(Spans)
    BY <2>2, <2>3
  <2> QED BY <1>1, <2>1, <2>4 DEF TypeOK, FullInv, Types, NmeaInv, Buffered
<1> QED BY <1>1, LosslessInvariance, PTL

\* However the reads cut the stream up: unless the buffer overflowed or a
\* sentence was too long, all the sentences of the stream and nothing else
\* have been handed on when the thread reads again.
THEOREM NmeaLosesNothing == Spec => []NoSentenceLost
<1>1. ASSUME FullInv PROVE NoSentenceLost
  <2> SUFFICES ASSUME pc = "read", ~dropped PROVE Sent = Reference
    BY DEF NoSentenceLost, Sent
  <2>1. Buffered /\ Complete /\ NoEnd
    BY <1>1 DEF FullInv, NmeaInv, Lossless
  <2>2. ASSUME NEW s \in Reference PROVE s[2] <= Consumed
    <3>1. s[2] \in Nat /\ s[2] <= Len(stream) /\ stream[s[2]] = "n"
      BY <2>1, ReferenceFacts DEF Buffered
    <3>2. Len(recv_buf) \in Nat /\ Len(stream) \in Nat
      BY <2>1 DEF Buffered
    <3> SUFFICES ASSUME Consumed < s[2] PROVE FALSE
      BY <3>1, <3>2 DEF Consumed
    <3> DEFINE b == s[2] - Consumed
    <3>3. b \in 1..Len(recv_buf) /\ InStream(b) = s[2]
      BY <3>1, <3>2 DEF Consumed, InStream
    <3>4. recv_buf[b] = stream[s[2]]
      BY <2>1, <3>3 DEF Buffered, BufferIsSuffix
    <3> QED BY <2>1, <3>1, <3>3, <3>4 DEF NoEnd
  <2> QED BY <2>1, <2>2 DEF Complete
<1> QED BY <1>1, LosslessInvariance, PTL
=============================================================================
